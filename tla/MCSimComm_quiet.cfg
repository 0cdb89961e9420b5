SPECIFICATION FairSpec
CONSTANTS
  MaxCommand = 3
  RespSize = {1, 2, 3}
  RespCapacity = 2
  ServerVersion = {1, 2}
  Ack = {0}
  ReuseAfterFailure = FALSE
  MAX_DATA_RECV = 8
  MaxStream = 200
  Faults = {}
INVARIANTS IdleIsFrameAligned
PROPERTIES CallReturns SimulatorIsReleased
