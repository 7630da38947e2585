SPECIFICATION AloneSpec
CONSTANTS
  Clients = {p1}
  MaxOps = 2
  MaxConn = 3
  MaxSession = 2
  Modes = {ctrl_v, shift_insert}
  DefaultMode = ctrl_v
  None = None
  Ways = {"timer", "posted"}
  Budget <- PhoneFaults
  Answers <- SampleAnswers
  MaxSays = 4
INVARIANT
  AloneTypeOK
  QueueIsUnconfirmedTail
  NeverIdleWithWork
  RedialPending
PROPERTY
  RemovedOnlyByMatchingAck
CHECK_DEADLOCK FALSE
