SPECIFICATION SnapshotsSpec
CONSTANTS
  MaxAliasDepth = 3
  KeyLess <- MCKeyLess
  NativeKey <- MCNativeKey
  Universe <- MCUniverse
  Layerings <- MCLayerings
  Segment <- MCSegment
  PathPairs <- MCPathPairs
  Saves <- MCSaves
  Markings <- MCMarkings
CHECK_DEADLOCK FALSE
INVARIANTS
  PrecedenceRespected
  TreeAgreesWithReads
  SectionAgreesWithTree
  AliasReadsAsCanonical
  AppendConcatenates
  PathsAndTexts
  SavedAgreesWithReads
  SaveRestores
  SecretsWithheld
