CONSTANTS
  Plans <- SafetyPlans
  Disruptions = {"block", "deleteRun", "deleteRelease"}
  MaxDisruptions = 1
  MaxFaults = 1
  StaleReads = FALSE
SPECIFICATION Spec
INVARIANTS
  TypeOK
  PhasesInOrder
  FailureIsReported
  ReleasedMeansEverythingSucceeded
  ReleasedIsValidated
  OneRunPerAttempt
  RetriesAreBounded
  SuccessIsReal
  RoleBindingsOutlastTheirPipeline
  DeletionReachesEveryRegisteredRun
PROPERTIES
  RunsAreCreatedUnderFinalizer
  FinishedIsFinal
  ImplementsReleaseLife
CHECK_DEADLOCK FALSE
