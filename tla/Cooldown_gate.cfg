SPECIFICATION Spec
CONSTANTS
  Packages <- MCPackages
  Published <- MCPublished
  Foreign <- MCForeign
  Resolutions <- MCResolutions
  Reverted <- MCReverted
  Touched <- MCTouched
  Days = 2
  FirstDay = 3
  LastDay = 4
  MaxEdits = 3
  MaxRuns = 2
  None = none
INVARIANTS PassIsSound CacheIsSound CommittedDatesTrue
PROPERTY GateEnds
