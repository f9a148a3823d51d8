CONSTANTS
  Plans <- StalePlans
  Disruptions = {"deleteRelease"}
  MaxDisruptions = 1
  MaxFaults = 2
  StaleReads = TRUE
SPECIFICATION Spec
INVARIANTS
  PhasesInOrder
  FailureIsReported
  ReleasedMeansEverythingSucceeded
PROPERTIES
  RunsAreCreatedUnderFinalizer
CHECK_DEADLOCK FALSE
