SPECIFICATION BindSpec
CONSTANTS
  MaxAliasDepth = 3
  MergeAppend = FALSE
  KeyLess <- MCKeyLess
  NativeKey <- MCNativeKey
  Keys <- MCKeys
  Values <- MCValues
  Sources = {"env", "file"}
  ContentsOf <- FormerContents
  Validates <- NoBad
  InitialSources <- FileOnly
  Precedence <- None
  Threads = {}
  Ops <- SetOps
  MaxSwaps = 0
  Binders = {"b1"}
  Structs <- ImmutableStructs
CHECK_DEADLOCK FALSE
INVARIANTS
  UnchangedRebuildAccepted
