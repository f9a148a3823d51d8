CONSTANTS
  None = None
  Groups = {"g", "h"}
  ReleasePlans = {p}
  Admissions = {a, b}
  PlanSpecs <- DesignatingPlans
  AdmissionSpecs <- OpenOrGone
  Edits = {"createPlan", "editPlan", "deletePlan", "createAdmission", "editAdmission", "deleteAdmission", "config"}
  MaxEdits = 1
  MaxFaults = 2
  StaleReads = FALSE
  CoarseClock = TRUE
  Patient = FALSE
SPECIFICATION OpenSpec
INVARIANT RestartHeals
CHECK_DEADLOCK FALSE
