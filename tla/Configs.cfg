SPECIFICATION FairConfigsSpec
CONSTANTS
  Names = {"app", "db"}
  Registries = {"r1", "r2", "r3"}
  Watched = {"r1", "r2"}
  RegistryBuf = 1
  LateRegister = FALSE
  MaxEvents = 2
CHECK_DEADLOCK FALSE
INVARIANTS
  NothingLost
  AllForwarded
  NoSendOnClosed
  ClosesEverything
PROPERTIES
  ConfigsCloseReturns
