SPECIFICATION FairSpec
CONSTANTS
  FailedPollsCap = 2
  Runtimes = {e1}
  Vaults = {}
  Results <- AllResults
  Settlements <- SilentOrClean
  Rearms = {e1}
  WritesFail = TRUE
  Crashes = TRUE
INVARIANTS AlertsAlternate
PROPERTIES SilentRuntimeAlerted CleanRuntimeRecovered ArmedRuntimeCleared
