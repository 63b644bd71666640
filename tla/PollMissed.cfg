SPECIFICATION FeedsSpec
CONSTANTS
  Parts = {"poll"}
  Docs <- FileDocs
  SizeOf <- FileSizeOf
  InitialDocs = {"d1"}
  Optional = TRUE
  EmptyDecodes = FALSE
  MaxUpsets = 2
  KeysOf <- FeedKeys
  MaxRemoteUpsets = 1
  Savers = {"s1", "s2"}
  Names <- FileAndLink
  DirOf <- Apart
  Setups <- LinkSetups
  MaxSymlinkHops = 2
CHECK_DEADLOCK FALSE
PROPERTIES
  PollsConverge
