CONSTANTS
  Plans <- LivenessPlans
  Disruptions = {"block", "deleteRun", "deleteRelease"}
  MaxDisruptions = 1
  MaxFaults = 1
  StaleReads = FALSE
SPECIFICATION FairSpec
PROPERTIES
  EveryReleaseCompletes
  FinalizersAreRemoved
CHECK_DEADLOCK FALSE
