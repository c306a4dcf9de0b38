\* An application's blob, whose GPU-written cells lie further apart than the
\* coalescing gap reaches, and one of Venus's own shmems: no baseline until the
\* first diff, and written by S only for commands that name it. The bounded
\* history ends, so the system may stop.
CONSTANTS
    Size = 4
    CpuCells = {1, 2}
    Gap = 1
    Internals = {FALSE, TRUE}
    MaxVer = 2
    MaxRelay = 2
SPECIFICATION Spec
INVARIANTS
    TypeOK
    NoEcho
    KnownBeforeFed
    AgreeWhenQuiet
PROPERTY NoRollback
CHECK_DEADLOCK FALSE
