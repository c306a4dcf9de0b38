\* Cursors of four bits over a ring of four commands, past the wrap and on.  The
\* process may exit, so the system may stop.
CONSTANTS
    Width = 16
    BufSize = 4
    Limit = 2
    MaxCmd = 20
SPECIFICATION FairSpec
INVARIANTS
    TypeOK
    AssertsHold
    ComparisonsSurviveTheWrap
PROPERTIES
    StallIsReal
    WedgeIsNoticed
CHECK_DEADLOCK FALSE
