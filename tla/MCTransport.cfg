SPECIFICATION FairSpec
CONSTANTS
  Machine <- MCMachine
  TpmVersion = {1, 2}
  MaxCommand = 2
  RespSize = {10, 12}
  RespCapacity = {8, 11, 12}
  Faults = {"open", "load", "connect", "write", "read", "discard", "send", "recv", "daemon"}
INVARIANTS TypeOK NothingLeftBehind
PROPERTIES ReplyIsOwn LengthIsTrue ChannelSpec CallReturns
CHECK_DEADLOCK FALSE
