CONSTANTS
  Plans <- ManagedPlans
  Disruptions = {"block"}
  MaxDisruptions = 1
  MaxFaults = 1
  StaleReads = FALSE
SPECIFICATION Spec
INVARIANT CleanUpWaitsForTheRun
CHECK_DEADLOCK FALSE
