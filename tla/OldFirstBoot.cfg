SPECIFICATION Spec
CONSTANTS
    e1 = e1
    e2 = e2
    NoEdition = NoEdition
    NoFile = NoFile
    TornFile = TornFile
    Editions <- TwoEditions
    SameDisk = FALSE
    OldFbl = TRUE
    OldImages <- TwoEditions
    WithExtras <- NoEditions
    Damaged <- NoEditions
    LayerCount <- OneAndTwoLayers
    MaxLayers = 2
    Lookalike <- NoPairs
    RamUnits = 7
    Headroom = 1
    RescueCopyFaults = TRUE
    NoReboot = TRUE
INVARIANTS
    ImageOutlivesTheWipe
CHECK_DEADLOCK FALSE
