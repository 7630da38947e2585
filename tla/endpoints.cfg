SPECIFICATION FairSpec
CONSTANTS
  Machines = {mine, theirs}
  mine = mine
  theirs = theirs
  NoId = NoId
  direct = direct
  local = local
  other = other
  Endpoints = {direct, local, other}
  Cosec = {local}
  Settings = {direct, other}
  Defaults <- BuiltIn
  NoEndpoint = NoEndpoint
  NoMachine = NoMachine
  Networks <- SampleNetworks
  MaxKnown = 2
  Budgets <- FewEvents
INVARIANT
  TypeOK
  PinnedServer
  ToldIsOnFile
  ManualMeansBootstrap
PROPERTY
  Reached
CHECK_DEADLOCK FALSE
