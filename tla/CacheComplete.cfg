SPECIFICATION Spec
CONSTANTS
    Size = 3
    OtherSizes <- MCOtherSizes
    MaxChanges = 2
PROPERTIES
    Settles
CHECK_DEADLOCK FALSE
