SPECIFICATION Spec
CONSTANTS
  b1 = b1
  b2 = b2
  main = main
  extra = extra
  Bufs <- TwoBufs
  NoBuf = NoBuf
  Reserved = {b2}
  Slots <- MCSlots
  MainSlot = main
  MainCb = FALSE
  RegCounts <- Forever
  Bundled = FALSE
  MayLink = TRUE
  DeferMapping = TRUE
  IoctlMayFail = TRUE
  AllocMayFail = TRUE
INVARIANTS
  RefExact
  NotShared
  ThreadReleased
