SPECIFICATION Spec
CONSTANTS
    NoFile = NoFile
    Own = Own
    Linked = Linked
    Torn = Torn
    MaxJobs = 2
    MaxLoads = 2
    Official = 1
    HardLinks = FALSE
INVARIANTS
    TypeOK
    OneJobAtATime
    DoneMeansStill
    DoneStickIsWhole
    ImageMatchesCatalog
    EarlyCancelStops
    TasksTellTheTruth
CHECK_DEADLOCK FALSE
