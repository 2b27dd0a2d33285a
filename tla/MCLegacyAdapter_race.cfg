SPECIFICATION FairSpec
CONSTANTS
  Jobs <- TwoJobs
  MaxPolls = 0
  BusyHosts = {}
  LaunchErrors = {}
  LogErrors = {}
  TimeLimited = {}
  Brittle = {}
  OwnStatus = FALSE
  Shutdowns = TRUE
PROPERTIES
  KilledJobsComplete
CHECK_DEADLOCK FALSE
