SPECIFICATION Spec
CONSTANTS
    Size = 3
    OtherSizes <- MCOtherSizes
    MaxChanges = 2
PROPERTIES
    OnlyThePinned
    KeepsWhatIsGood
    SettlesUnlessComplete
CHECK_DEADLOCK FALSE
