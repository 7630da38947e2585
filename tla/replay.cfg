SPECIFICATION Spec
CONSTANTS
  Clients = {p1}
  MaxOps = 1
  MaxConn = 2
  MaxSession = 2
  Modes = {ctrl_v, shift_insert}
  DefaultMode = ctrl_v
  None = None
  Legacy = Legacy
  MaxEntries = 2
  Ways = {"timer"}
  Budget <- LateAnswer
INVARIANT
  AtMostOnce
CHECK_DEADLOCK FALSE
