SPECIFICATION Spec
CONSTANTS
  None = None
  Official <- MCOfficial
  Size <- MCSize
  KebabIds <- MCKebab
  PackIds <- MCKebab
  PlainImages <- MCPlain
  IsoNames <- MCPlain
  KnownInstalls <- MCKnown
  Drivers <- MCKnown
  Zips <- MCZipsWrong
  OwnImages = {"A"}
  MaxLoads = 2
  MaxTicks = 2
INVARIANT DriverIsTheIds
CHECK_DEADLOCK FALSE
