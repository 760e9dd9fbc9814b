SPECIFICATION Spec
CONSTANTS
  None = None
  Official <- MCOfficial
  Size <- MCSize
  KebabIds <- MCKebab
  PackIds <- MCKebab
  PlainImages <- MCPlain
  IsoNames <- MCPlain
  KnownInstalls <- MCKnown
  Drivers <- MCKnown
  Zips <- MCZips
  OwnImages = {"A"}
  MaxLoads = 3
  MaxTicks = 2
INVARIANTS
  TypeOK
  ServesTheTicks
  OffersLeadSomewhere
  RunsItsOwnDriver
  RoomForTheTree
CHECK_DEADLOCK FALSE
