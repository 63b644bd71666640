SPECIFICATION FairLiveSpec
CONSTANTS
  Sources = {"file"}
  ContentsOf <- MCContents
  InitialContents <- MCInitial
  Mixes <- MCMixes
  Settings = {0}
  BlankSettings = 0
  InitialSettings = 0
  InitialRegistered <- OneFile
  Acceptable <- NoBad
  Vacuous <- HoldsNothing
  MaxSwaps = 1
  Watchers = {"file"}
  Lines = {"l1"}
  Writes <- NoWrites
  EventBuf = 1
  Deprecated = {}
  MaxErrors = 1
  MaxTicks = 0
  Binds <- Decodes
  Reloaders = {}
  MaxReloads = 0
CHECK_DEADLOCK FALSE
PROPERTIES
  LiveConverges
