SPECIFICATION Spec
CONSTANTS
    Session = {"s1", "s2"}
    Handle = {"h1", "h2"}
    MaxJobs = 3
    Scenes <- MCScenes
INVARIANTS
    PoolsExact
PROPERTIES
    AnswerOnce
    JobsEnd
CHECK_DEADLOCK FALSE
