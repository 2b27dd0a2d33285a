SPECIFICATION FairSpec
CONSTANTS
  Jobs <- ThreeJobs
  MaxPolls = 2
  BusyHosts <- OnlyA
  LaunchErrors = {}
  LogErrors = {}
  TimeLimited <- OnlyC
  Brittle <- OnlyB
  OwnStatus = TRUE
  Shutdowns = FALSE
INVARIANTS
  HandlesTracked
PROPERTIES
  CompletesHandles
  CleanupFailuresReported
