SPECIFICATION Spec
CONSTANTS
  Tables <- SomeTables
  Keys = {"k1", "k2"}
  Columns = {"a", "b"}
  Requests <- SomeRequests
  OptsTenant = ""
  Limit = 1
  Widest = 2
  Reclaims = {4, 5}
  MaxVersion = 6
  MaxRestores = 1
INVARIANTS ReplayHolds RollbackShows LineageHolds EvidenceHolds
PROPERTIES ImplementsRegister
