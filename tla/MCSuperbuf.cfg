SPECIFICATION Spec
CONSTANTS
  snap = snap
  meta = meta
  Streams <- MCStreams
  MetaStream = meta
  Scenes <- MCScenes
  FutureWait = 3
  ByteMod = 256
  MaxBatch = 4
  MaxFrame = 4
INVARIANTS
  ListShape
  Conservation
  SentComplete
  ZslStopped
PROPERTIES
  NothingWithheld
