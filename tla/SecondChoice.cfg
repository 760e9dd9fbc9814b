SPECIFICATION Spec
CONSTANTS
    e1 = e1
    e2 = e2
    NoEdition = NoEdition
    NoFile = NoFile
    TornFile = TornFile
    Editions <- TwoEditions
    SameDisk = TRUE
    OldFbl = FALSE
    OldImages <- NoEditions
    WithExtras <- NoEditions
    Damaged <- NoEditions
    LayerCount <- TwoLayers
    MaxLayers = 2
    Lookalike <- SameFamily
    RamUnits = 7
    Headroom = 1
    RescueCopyFaults = FALSE
    NoReboot = FALSE
INVARIANT InstallsTheChosen
CHECK_DEADLOCK FALSE
