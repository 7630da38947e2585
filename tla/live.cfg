SPECIFICATION FairSpec
CONSTANTS
  Clients = {p1}
  MaxOps = 2
  MaxConn = 7
  MaxSession = 6
  Modes = {ctrl_v, shift_insert}
  DefaultMode = ctrl_v
  None = None
  Legacy = Legacy
  MaxEntries = 2
  Ways = {"timer"}
  Budget <- RecoverableFaults
INVARIANT
  NoSilentLoss
  AckedIsDurable
PROPERTY
  AllDelivered
CHECK_DEADLOCK FALSE
