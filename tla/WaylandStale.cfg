CONSTANTS
    Ids = {1, 2}
    SIds = {1, 2}
    Resources = {1}
    MaxObjects = 3
    MaxRequests = 5
    MaxEvents = 2
SPECIFICATION Spec
INVARIANTS
    EventsReachTheirObject
CHECK_DEADLOCK FALSE
