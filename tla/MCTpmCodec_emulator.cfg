SPECIFICATION FairSpec
CONSTANTS
  Client = {"p"}
  Template <- MCTemplate
  PersHandle = {"id"}
  IdKey = "id"
  NoKey = "none"
  MaxSlot = 2
  MaxSession = 3
  TssSession = {"s1", "s2"}
  Continued = {"s2"}
  TokenSize = {2, 4, 7}
  SigBufSize = {16, 32}
  InputBuffer = {0, 2, 6}
  MAX_DIGEST_BUFFER = 4
  Emulator = TRUE
  ResourceManager = FALSE
  MaxCalls = 5
  Faults = {"connect", "notsent", "noreply", "garbled", "warn", "noproperty", "crash"}
INVARIANTS TypeOK SignatureCoversToken InitializedIsStarted
  ClearedFromPreviousRuns SecretGoesToOwnSession
PROPERTIES CallsReturn
CHECK_DEADLOCK FALSE
