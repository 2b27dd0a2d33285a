SPECIFICATION FairSpec
CONSTANTS
  Jobs <- ThreeJobs
  TimeLimited <- OnlyA
  Busy <- OnlyB
  LaunchErrors <- OnlyA
  LaunchAborts <- OnlyC
  Interactive <- OnlyC
  Vanishing <- OnlyB
  Stuck <- OnlyA
  Brittle <- NotA
  Shutdowns = TRUE
INVARIANTS
  ResultsUntouched
  AbandonedOnlyAfterSigkill
PROPERTIES
  CompletesHandles
  KillManyReturns
  KeepsContract
CHECK_DEADLOCK FALSE
