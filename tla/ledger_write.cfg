SPECIFICATION Spec
CONSTANTS
  Clients = {p1}
  MaxOps = 1
  MaxConn = 3
  MaxSession = 3
  Modes = {ctrl_v, shift_insert}
  DefaultMode = ctrl_v
  None = None
  Legacy = Legacy
  MaxEntries = 2
  Ways = {"timer"}
  Budget <- LedgerWriteFails
PROPERTY
  AckedNeverRestarted
CHECK_DEADLOCK FALSE
