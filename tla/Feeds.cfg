SPECIFICATION FeedsSpec
CONSTANTS
  Parts = {"file", "push", "poll", "save"}
  Docs <- FileDocs
  SizeOf <- FileSizeOf
  InitialDocs = {"d1"}
  Optional = TRUE
  EmptyDecodes = FALSE
  MaxUpsets = 2
  KeysOf <- FeedKeys
  MaxRemoteUpsets = 2
  Savers = {"s1", "s2"}
  Names <- FileAndLink
  DirOf <- Apart
  Setups <- LinkSetups
  MaxSymlinkHops = 2
CHECK_DEADLOCK FALSE
INVARIANTS
  BackendNoPanic
  SavedWhole
  SavedDurable
  SavedInPlace
PROPERTIES
  FeedsContract
  FeedsConverge
  FeedsEnd
