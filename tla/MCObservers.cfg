SPECIFICATION ObsSpec
CONSTANTS
  Jobs <- DiamondJobs
  Deps <- DiamondDeps
  NeedsAll <- DiamondNeedsAll
  Targets <- DiamondTargets
  TargetOf <- DiamondTargetOf
  OldOutput <- RunOnce
INVARIANTS
  CountsFollow
  LastRowsTrue
  LinksFollow
