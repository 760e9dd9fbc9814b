SPECIFICATION Spec
CONSTANTS
    NoFile = NoFile
    Own = Own
    Linked = Linked
    Torn = Torn
    MaxJobs = 2
    MaxLoads = 1
    Official = 0
    HardLinks = TRUE
PROPERTIES
    CancelledJobEnds
CHECK_DEADLOCK FALSE
