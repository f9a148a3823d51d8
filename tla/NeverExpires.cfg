SPECIFICATION FairSpec
CONSTANTS
  Users <- MCUsers
  AuthorOf <- MCAuthorOf
  Names <- MCNames
  LongNames = {"long"}
  Plans <- MCPlans
  Admissions <- MCAdmissions
  Snapshots <- MCSnapshots
  Graces = {0, 3}
  MaxEdits = 1
  MaxFaults = 1
CHECK_DEADLOCK FALSE
PROPERTY EveryReleaseExpires
