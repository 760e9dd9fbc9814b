SPECIFICATION Spec
CONSTANTS
    e1 = e1
    e2 = e2
    NoEdition = NoEdition
    NoFile = NoFile
    TornFile = TornFile
    Editions <- OneEdition
    SameDisk = TRUE
    OldFbl = FALSE
    OldImages <- NoEditions
    WithExtras <- OneEdition
    Damaged <- NoEditions
    LayerCount <- TwoLayers
    MaxLayers = 2
    Lookalike <- NoPairs
    RamUnits = 7
    Headroom = 1
    RescueCopyFaults = FALSE
    NoReboot = FALSE
INVARIANTS
    TypeOK
    RunsFromMemory
    AlwaysAWayBack
    WipesWithGoodImage
    FailureOffersRestore
    OneHelper
    RestoredWhole
PROPERTIES
    EveryRunEnds
    KeepsPromise
CHECK_DEADLOCK FALSE
