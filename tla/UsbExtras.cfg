SPECIFICATION Spec
CONSTANTS
    e1 = e1
    e2 = e2
    NoEdition = NoEdition
    NoFile = NoFile
    TornFile = TornFile
    Editions <- OneEdition
    SameDisk = FALSE
    OldFbl = FALSE
    OldImages <- NoEditions
    WithExtras <- OneEdition
    Damaged <- NoEditions
    LayerCount <- TwoLayers
    MaxLayers = 2
    Lookalike <- NoPairs
    RamUnits = 7
    Headroom = 1
    RescueCopyFaults = FALSE
    NoReboot = TRUE
INVARIANT ExtrasReachTheTree
CHECK_DEADLOCK FALSE
