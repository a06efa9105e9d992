SPECIFICATION Spec
CONSTANTS
  Scenes <- MCScenes
  MaxFrame = 4
  UINT = 8
INVARIANTS
  CountsExact
  ResultsInOrder
  NothingForgotten
PROPERTIES
  AllReturned
CHECK_DEADLOCK FALSE
