SPECIFICATION FairSpec
CONSTANTS
  b1 = b1
  b2 = b2
  main = main
  extra = extra
  Bufs <- TwoBufs
  NoBuf = NoBuf
  Reserved = {b2}
  Slots <- MCSlots
  MainSlot = main
  MainCb = TRUE
  RegCounts <- Forever
  Bundled = TRUE
  MayLink = FALSE
  DeferMapping = FALSE
  IoctlMayFail = FALSE
  AllocMayFail = FALSE
INVARIANTS
  NotifyEndsFirst
PROPERTIES
  LeaseKept
  ReturnsToDriver
  StopEnds
