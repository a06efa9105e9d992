SPECIFICATION FairSpec
CONSTANTS
    Clients = {c1, c2}
    Intervals = {1, 2, 3}
    Scenes <- MCScenes
    MaxRequests = 2
INVARIANTS
    EngineAgrees
    NoOrphans
    AnswersMatch
PROPERTIES
    Recovers
CHECK_DEADLOCK FALSE
