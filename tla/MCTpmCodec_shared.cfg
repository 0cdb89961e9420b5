SPECIFICATION Spec
CONSTANTS
  Client = {"p", "q"}
  Template <- MCTemplate
  PersHandle = {"id"}
  IdKey = "id"
  NoKey = "none"
  MaxSlot = 2
  MaxSession = 3
  TssSession = {}
  Continued = {}
  TokenSize = {1, 5}
  SigBufSize = {16, 32}
  InputBuffer = {2}
  MAX_DIGEST_BUFFER = 4
  Emulator = FALSE
  ResourceManager = TRUE
  MaxCalls = 3
  Faults = {"notsent", "noreply", "crash"}
INVARIANTS ReturnedKeyIsPersistent NoTransientLeak
CHECK_DEADLOCK FALSE
