SPECIFICATION ServerSpec
CONSTANTS
  Clients = {ann, bob}
  TokenRequired = TRUE
INVARIANTS
  StoreOutlivesHandlers
  ExitCodeTells
PROPERTIES
  TokenGuardsMCP
  StopsWhenTold
CHECK_DEADLOCK FALSE
