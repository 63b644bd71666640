SPECIFICATION Spec
CONSTANTS
  MaxAliasDepth = 3
  MergeAppend = FALSE
  KeyLess <- MCKeyLess
  NativeKey <- MCNativeKey
  Keys <- MCKeys
  Values <- MCValues
  Sources = {"env", "file"}
  ContentsOf <- MCContents
  Validates <- NoBad
  InitialSources <- FileOnly
  Precedence <- None
  Threads = {"t1"}
  Ops <- AddOps
  MaxSwaps = 0
CHECK_DEADLOCK FALSE
INVARIANTS
  ClosedReleasesAll
