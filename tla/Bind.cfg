SPECIFICATION BindSpec
CONSTANTS
  MaxAliasDepth = 3
  MergeAppend = FALSE
  KeyLess <- MCKeyLess
  NativeKey <- MCNativeKey
  Keys <- MCKeys
  Values <- MCValues
  Sources = {"env", "file"}
  ContentsOf <- MCContents
  Validates <- NoBad
  InitialSources <- Both
  Precedence <- FileFirst
  Threads = {"t1"}
  Ops <- BindOps
  MaxSwaps = 1
  Binders = {"b1"}
  Structs <- MCStructs
CHECK_DEADLOCK FALSE
INVARIANTS
  SnapshotInSync
  BindFindsFields
PROPERTIES
  InstallKeepsBaselines
