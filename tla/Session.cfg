\* Two turns: two commands, two waits, or one of each.  A session ends.
CONSTANTS
    Serve = serve
    Clients = {serve, w1, w2}
    Contexts = {1}
    Rings = {0, 1}
    MaxValue = 1
    MaxTurns = 2
    MaxDiff = 1
SPECIFICATION Spec
INVARIANTS
    TypeOK
    AnswerIsForTheRequest
    OneBlobBehindTheDescriptor
    TablesAgree
    AnsweredOnce
    WaitIsTrue
PROPERTIES
    EveryCallEnds
CHECK_DEADLOCK FALSE
