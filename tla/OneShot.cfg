SPECIFICATION Spec
CONSTANTS
  stick = stick
  hdd = hdd
  ssd = ssd
  None = None
  Disks <- MCDisks
  Usb <- MCUsb
  LsblkOrder <- MCOrder
  Size <- MCSize
  SysSize = 1
  Slack = 1
  Overhead <- MCOverhead
  Packs = {"pop"}
  MinTarget = 4
  Shelf <- MCShelf
  MaxStarts = 2
  MaxDisksPrepared = 1
INVARIANT OneShot
CHECK_DEADLOCK FALSE
