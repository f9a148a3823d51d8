CONSTANTS
  None = None
  Groups = {"g", "h"}
  ReleasePlans = {p}
  Admissions = {a, b}
  PlanSpecs <- MovingPlans
  AdmissionSpecs <- TwoAdmissions
  Edits = {"editPlan"}
  MaxEdits = 1
  MaxFaults = 0
  StaleReads = FALSE
  CoarseClock = FALSE
  Patient = TRUE
SPECIFICATION Spec
INVARIANT MatchIsMutual
CHECK_DEADLOCK FALSE
