SPECIFICATION FairSpec
CONSTANTS
    Handles = {1, 2}
    Scenes <- MCScenes
    MAX_START_DATA_CALL_RETRIES = 4
    MaxOrders = 3
INVARIANTS
    SubscribersAgree
    LinksAgree
PROPERTIES
    Answered
