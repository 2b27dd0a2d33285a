SPECIFICATION Spec
CONSTANTS
  Jobs <- ThreeJobs
  MaxPolls = 2
  BusyHosts <- OnlyC
  LaunchErrors <- OnlyA
  LogErrors <- OnlyB
  TimeLimited = {}
  Brittle <- OnlyB
  OwnStatus = FALSE
  Shutdowns = TRUE
PROPERTIES
  KeepsContract
CHECK_DEADLOCK FALSE
