SPECIFICATION Spec
CONSTANTS
  Jobs <- ThreeJobs
  MaxPolls = 1
  BusyHosts = {}
  LaunchErrors = {}
  LogErrors = {}
  TimeLimited <- OnlyC
  Brittle = {}
  OwnStatus = FALSE
  Shutdowns = TRUE
INVARIANTS
  NoProcessUnwatched
  PolledInWindow
  CompletesOnce
