SPECIFICATION EngineAndLive
CONSTANTS
  Parts = {"alone", "live"}
  Sources = {"env", "file"}
  ContentsOf <- MCContents
  InitialContents <- MCInitial
  Mixes <- MCMixes
  Settings = {0}
  BlankSettings = 0
  InitialSettings = 0
  InitialRegistered <- File
  Acceptable <- NoBad
  Vacuous <- HoldsNothing
  MaxSwaps = 1
  Watchers = {"file"}
  Lines = {"l1", "l2"}
  Writes <- SourceWrites
  EventBuf = 1
  Deprecated = {"other"}
  MaxErrors = 1
  MaxTicks = 2
  Binds <- Decodes
  Reloaders = {"r1"}
  MaxReloads = 1
CHECK_DEADLOCK FALSE
INVARIANTS
  DropsAccounted
  SubscribedWhileRegistered
  HandsOutGood
  LiveDropsAccounted
PROPERTIES
  SnapshotConverges
  CloseReturns
  
  LiveEnds
