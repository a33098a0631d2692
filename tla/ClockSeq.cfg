SPECIFICATION Spec
CONSTANTS
  Servers = {s1, s2, s3}
  Liars = {s3}
  HonestError = 1
  LiarError = 4
  Agreement = 2
  MaxAge = 1
  MinNow = 5
  MaxNow = 7
  Enclaves = {e1, e2}
  MaxSeq = 2
  ReadsFail = FALSE
  Crashes = TRUE
INVARIANTS RecordedOnce TimeNearTruth
PROPERTIES SignsAboveRecord
SYMMETRY EnclaveSymmetry
