SPECIFICATION FairSpec
CONSTANTS
  FailedPollsCap = 2
  Enclaves = {e1}
  Vaults = {}
  Callers = {c1}
  Free = Free
  Results <- FewResults
  Settlements <- SickOrClean
  Configs <- ArmedOnly
  OperatorActs = TRUE
  AnswersLost = FALSE
  WritesFail = TRUE
  Crashes = FALSE
PROPERTIES SickEnclaveHeld CleanEnclaveReleased
