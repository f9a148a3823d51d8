SPECIFICATION Spec
CONSTANTS
  Tasks = {"push", "check"}
  Steps = {"upload", "sign"}
  Minute = 1
  Definition <- MCDefinition
  DefaultTimeouts <- MCDefaultTimeouts
  Pipelines <- MCPipelines
  Policies <- MCPolicies
  Outcomes <- MCOutcomes
  MaxEdits = 0
  MaxFaults = 0
INVARIANT MitigationsAccumulate
CHECK_DEADLOCK FALSE
