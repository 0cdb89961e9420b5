SPECIFICATION Spec
CONSTANTS
  MaxCommand = 2
  RespSize = {1, 3}
  RespCapacity = 2
  ServerVersion = {1, 2}
  Ack = {0, 1}
  ReuseAfterFailure = TRUE
  MAX_DATA_RECV = 8
  MaxStream = 200
  Faults = {"create", "send", "recv", "alloc", "peer", "platform"}
INVARIANTS TypeOK RunsInOrder OpenIsPowered NoOrphanSocket
PROPERTIES ChannelSpec
CHECK_DEADLOCK FALSE
