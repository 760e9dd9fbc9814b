SPECIFICATION Spec
CONSTANTS
  Versions <- MCVersions
  Images <- MCImages
  Customer = "ada"
CHECK_DEADLOCK FALSE
INVARIANT GrubMatchesModules
