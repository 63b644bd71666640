SPECIFICATION BindSpec
CONSTANTS
  MaxAliasDepth = 3
  MergeAppend = FALSE
  KeyLess <- MCKeyLess
  NativeKey <- MCNativeKey
  Keys <- MCKeys
  Values <- MCValues
  Sources = {"env", "file"}
  ContentsOf <- PairContents
  Validates <- NoBad
  InitialSources <- FileOnly
  Precedence <- None
  Threads = {"t1"}
  Ops <- PairOps
  MaxSwaps = 0
  Binders = {"b1"}
  Structs <- PairStructs
CHECK_DEADLOCK FALSE
INVARIANTS
  BindOfOneSnapshot
