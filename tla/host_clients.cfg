SPECIFICATION ClientsSpec
CONSTANTS
  Clients = {c1}
  MaxOps = 2
  MaxConn = 2
  MaxSession = 2
  Modes = {ctrl_v}
  DefaultMode = ctrl_v
  None = None
  Legacy = Legacy
  MaxEntries = 2
  Budget <- HostFaults
  Inserts <- SampleInserts
  MaxSends = 4
INVARIANT
  ClientsTypeOK
  QueuedInSeqOrder
  LedgerMatchesFile
PROPERTY
  AckedNeverRestarted
CHECK_DEADLOCK FALSE
