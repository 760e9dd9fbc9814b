SPECIFICATION Spec
CONSTANTS
    e1 = e1
    e2 = e2
    NoEdition = NoEdition
    NoFile = NoFile
    TornFile = TornFile
    Editions <- TwoEditions
    SameDisk = FALSE
    OldFbl = FALSE
    OldImages <- NoEditions
    WithExtras <- NoEditions
    Damaged <- SecondEdition
    LayerCount <- OneAndTwoLayers
    MaxLayers = 2
    Lookalike <- NoPairs
    RamUnits = 7
    Headroom = 1
    RescueCopyFaults = TRUE
    NoReboot = TRUE
INVARIANTS
    WipesWithGoodImage
PROPERTIES
    KeepsPromise
CHECK_DEADLOCK FALSE
