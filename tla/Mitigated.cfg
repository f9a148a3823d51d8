SPECIFICATION Spec
CONSTANTS
  Tasks = {"push", "check"}
  Steps = {"upload", "sign"}
  Minute = 1
  Definition <- MCDefinition
  DefaultTimeouts <- MCDefaultTimeouts
  Pipelines <- MCPipelines
  Policies <- MCPolicies
  Outcomes <- MCOutcomes
  MaxEdits = 1
  MaxFaults = 1
INVARIANTS TypeOK TimeoutsAreAccepted GrowthIsBounded RetryHelps RecordedMitigationIsReal TimeoutsAccumulate OutagesAreNotFinal
CHECK_DEADLOCK FALSE
