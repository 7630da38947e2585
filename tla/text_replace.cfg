SPECIFICATION FairSpec
CONSTANTS
  Clients = {p1, p2}
  MaxOps = 2
  MaxConn = 1
  MaxSession = 2
  Modes = {ctrl_v}
  DefaultMode = ctrl_v
  None = None
INVARIANTS
  TypeOK
  AnsweredOnceInOrder
  ShownIsTyped
  
PROPERTY
  EveryReplaceAnswered
CHECK_DEADLOCK FALSE
