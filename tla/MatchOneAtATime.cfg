CONSTANTS
  None = None
  Groups = {"g", "h"}
  ReleasePlans = {p}
  Admissions = {a, b}
  PlanSpecs <- PlanVariants
  AdmissionSpecs <- AdmissionVariants
  Edits = {"createPlan", "editPlan", "deletePlan", "createAdmission", "editAdmission", "deleteAdmission", "config"}
  MaxEdits = 2
  MaxFaults = 1
  StaleReads = FALSE
  CoarseClock = FALSE
  Patient = TRUE
SPECIFICATION FairSpec
INVARIANTS
  TypeOK
  NoFalseMatch
  MatchIsMutual
  TagsDisableRetries
PROPERTY ComesToRest
CHECK_DEADLOCK FALSE
