SPECIFICATION Spec
CONSTANTS
  client = client
  intpic = intpic
  Callers = {client, intpic}
  Scenes <- Cancelled
  MaxQueue = 2
PROPERTY CallReturns
CHECK_DEADLOCK FALSE
