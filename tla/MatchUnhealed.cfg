CONSTANTS
  None = None
  Groups = {"g", "h"}
  ReleasePlans = {p}
  Admissions = {a}
  PlanSpecs <- OnePlan
  AdmissionSpecs <- TwoAdmissions
  Edits = {"editAdmission"}
  MaxEdits = 1
  MaxFaults = 0
  StaleReads = TRUE
  CoarseClock = FALSE
  Patient = FALSE
SPECIFICATION Spec
INVARIANT UnmatchedNamesNobody
CHECK_DEADLOCK FALSE
