SPECIFICATION FairFaultsSpec
CONSTANTS
  Workers = 2
  MaxScenarios = 2
  MaxFailures = 2
INVARIANTS SpinningOwned OwnIncident LeftHealthy
PROPERTIES ScenarioEnds
CHECK_DEADLOCK FALSE
