SPECIFICATION ConfigsSpec
CONSTANTS
  Names = {"app", "db"}
  Registries = {"r1", "r2"}
  Watched = {"r1", "r2"}
  RegistryBuf = 2
  LateRegister = TRUE
  MaxEvents = 1
CHECK_DEADLOCK FALSE
INVARIANTS
  NoSendOnClosed
