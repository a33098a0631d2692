SPECIFICATION Spec
CONSTANTS
  Names = {"key"}
  NoName = "none"
  Covers <- SomeCovers
  Monitors = {"m1"}
  ComponentOf <- One
  Objectives = {"o1"}
  PackDefinition <- Seed
  Definitions = {}
  Callbacks = {"hook2"}
  Requests <- SomeRequests
  BindingSets = {{".ex"}, {"api"}}
  Enabling = {TRUE, FALSE}
  ShortValues = {2}
  MaxChanges = 2
  MaxPuts = 0
  MaxFaults = 0
  MaxVersions = 2
PROPERTIES ConfigureKeepsWatching
