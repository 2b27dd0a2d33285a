SPECIFICATION Spec
CONSTANTS
  Jobs <- RaceJobs
  Deps <- RaceDeps
  NeedsAll <- RaceNeedsAll
  Rank <- RaceRank
  Backends <- TwoBackends
  BackendOf <- RaceBackendOf
  BackendMax <- RaceBackendMax
  MaxParallelism = 2
  Resources <- RaceResources
  Limit <- RaceLimit
  Needs <- RaceNeeds
  Outcomes <- OnlyPass
INVARIANTS
  LoadAccounted
  LimitsRespected
  PrioritiesRespected
  LimitsNeverBlockAll
PROPERTIES
  KeepsContract
