SPECIFICATION Spec
CONSTANTS
  Monitors <- Pair
  Components <- Webs
  ComponentOf <- PairOf
  Rollup <- RuleMajority
  Like <- WebLike
  NoComponent = nowhere
  FailureThreshold = 2
  RecoveryThreshold = 1
  flapWindow = 0
  flapThreshold = 1
  Incidents = {i1, i2}
  NoIncident = none
  MaxTime = 2
  MaxActs = 1
  Windows <- AtTimes
  Outcomes <- Mixed
  Switchable = {"m2"}
  Homes <- Moves
  Rules <- Amendments
  Named <- OnWeb2
INVARIANTS RollupHolds AlertsTell AutoIncidentsEnd
PROPERTIES DeclaredByRun HumanIncidentsStay
SYMMETRY IncidentSymmetry
