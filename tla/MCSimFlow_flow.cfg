SPECIFICATION Spec
CONSTANTS
  None = None
  Exit = Exit
  Word = Word
  Flows <- MCFlows
  NameOrder <- MCNames
  Inputs <- MCInputs
  Families = {"modes", "lists", "builds", "plans", "configs", "args", "logs", "reports"}
CHECK_DEADLOCK FALSE
INVARIANTS
  OptionsComplete
  CyclesNeverAccepted
  RunsAsRequested
  JobsWellFormed
  CoverageOfPassingRuns
  EveryRunCounted
  SuccessMeansAllPassed
  TimesShown
