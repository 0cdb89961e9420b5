SPECIFICATION FairSpec
CONSTANTS
  Byte <- MCByte
  Message <- MCMessage
  ReadLen <- MCReadLen
  MAX_DATA_RECV = 2
  MaxStream = 4
  Faults = {"create", "send", "recv", "alloc"}
INVARIANTS TypeOK StreamIntegrity SendIntegrity PointerInv
PROPERTIES StreamSpec SendReturns ClosedReadReturns
CHECK_DEADLOCK FALSE
