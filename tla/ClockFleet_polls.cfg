SPECIFICATION Spec
CONSTANTS
  FailedPollsCap = 2
  Enclaves = {e1}
  Vaults = {}
  Callers = {c1, c2}
  Free = Free
  Results <- SomeResults
  Settlements = {}
  Configs <- SomeConfigs
  OperatorActs = TRUE
  AnswersLost = TRUE
  WritesFail = TRUE
  Crashes = TRUE
SYMMETRY CallerSymmetry
INVARIANTS PollsNeverOverlap PositionMatchesRecord QuarantineJustified ReleaseOnlyOurs
