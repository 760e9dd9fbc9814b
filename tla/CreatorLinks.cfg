SPECIFICATION Spec
CONSTANTS
    NoFile = NoFile
    Own = Own
    Linked = Linked
    Torn = Torn
    MaxJobs = 1
    MaxLoads = 2
    Official = 0
    HardLinks = TRUE
INVARIANTS
    ImageMatchesCatalog
CHECK_DEADLOCK FALSE
