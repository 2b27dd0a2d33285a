SPECIFICATION InstSpec
CONSTANTS
  None = None
  Jobs <- MCJobs
  Deps <- MCDeps
  NeedsAll <- MCNeedsAll
  Requested <- MCRequested
  MetaOf <- MCMetaOf
  Seeded <- MCSeeded
  Earlier <- MCEarlier
  LastTime = 4
  MaxSamples = 2
  Memory = {1, 2}
  MaxBars = 2
  MaxPieces = 2
  PngThreshold = 1
CHECK_DEADLOCK FALSE
INVARIANTS
  TimesTrue
  SamplesTrue
  ChartsFaithful
