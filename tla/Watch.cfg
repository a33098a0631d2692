SPECIFICATION Spec
CONSTANTS
  Names = {"key"}
  NoName = "none"
  Covers <- SomeCovers
  Monitors = {"m1"}
  ComponentOf <- One
  Objectives = {"o1"}
  PackDefinition <- Seed
  Definitions <- SomeDefinitions
  Callbacks = {"hook2"}
  Requests <- SomeRequests
  BindingSets = {{".ex"}, {"api"}}
  Enabling = {TRUE}
  ShortValues = {2}
  MaxChanges = 3
  MaxPuts = 2
  MaxFaults = 1
  MaxVersions = 2
INVARIANTS VerdictHonest ReadingNamesItsDefinition ValueLeavesBound NoCredentialRecorded
