SPECIFICATION Spec
CONSTANTS
    pinned = pinned
    longer = longer
    NoFile = NoFile
    FileCount = 2
    Versions <- TwoVersions
    Pinned <- pinned
    Length <- Lengths
    Rooms <- TightAndAmple
    Slack = 1
INVARIANTS
    ListedIsPresent
    RoomForThePinned
PROPERTIES
    StoresOnlyThePinned
    FetchSettles
