SPECIFICATION FairSpec
CONSTANTS
  Jobs <- FlowJobs
  Deps <- FlowDeps
  NeedsAll <- FlowNeedsAll
  Rank <- FlowRank
  Backends <- OneBackend
  BackendOf <- AllLocal
  BackendMax <- NoMax
  MaxParallelism = 0
  Resources <- Licenses
  Limit <- TwoLicenses
  Needs <- FlowNeeds
  Outcomes <- PassOrFail
INVARIANTS
  IInv
  DependenciesCounted
  QueuedJobsHeldOnce
  ShutdownReachesEveryJob
  NoJobForgotten
PROPERTIES
  NothingReadiedAfterSignal
  ImplementsLifecycle
  RunsToCompletion
