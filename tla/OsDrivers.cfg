SPECIFICATION Spec
CONSTANTS
  Versions <- MCVersions
  Images <- MCImages
  Customer = "ada"
INVARIANTS
  HealthyStarts
  HealthyPair
  CleanRun
CHECK_DEADLOCK FALSE
