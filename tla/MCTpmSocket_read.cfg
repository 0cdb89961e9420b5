SPECIFICATION FairSpec
CONSTANTS
  Byte <- MCByte
  Message <- MCMessage
  ReadLen <- MCReadLen
  MAX_DATA_RECV = 2
  MaxStream = 4
  Faults = {}
PROPERTY FailedReadIsShort
CHECK_DEADLOCK FALSE
