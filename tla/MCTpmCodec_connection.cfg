SPECIFICATION FairSpec
CONSTANTS
  Client = {"p"}
  Template <- MCTemplate
  PersHandle = {"id", "srk"}
  IdKey = "id"
  NoKey = "none"
  MaxSlot = 2
  MaxSession = 3
  TssSession = {}
  Continued = {}
  TokenSize = {1, 2, 3, 4, 5, 7}
  SigBufSize = {16, 32}
  InputBuffer = {2, 4, 6}
  MAX_DIGEST_BUFFER = 4
  Emulator = TRUE
  ResourceManager = FALSE
  MaxCalls = 4
  Faults = {"warn"}
INVARIANT CommandsUseConnection
CHECK_DEADLOCK FALSE
