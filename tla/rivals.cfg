SPECIFICATION Spec
CONSTANTS
  Clients = {p1, p2}
  MaxOps = 2
  MaxConn = 3
  MaxSession = 4
  Modes = {ctrl_v, shift_insert}
  DefaultMode = ctrl_v
  None = None
  Legacy = Legacy
  MaxEntries = 3
  Ways = {"timer"}
  Budget <- RivalFaults
INVARIANT
  AckImpliesInjected
  SeqInStep
  LedgerSound
  NothingOvertaken
PROPERTY
  ReplayOnlyWhileUnrecorded
  DeliversInOrder
CHECK_DEADLOCK FALSE
