SPECIFICATION Spec
CONSTANTS
  client = client
  intpic = intpic
  Callers = {client, intpic}
  Scenes <- MCScenes
  MaxQueue = 2
INVARIANTS
  StateAgrees
PROPERTIES
  CallReturns
  SnapshotReported
CHECK_DEADLOCK FALSE
