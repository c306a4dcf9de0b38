\* Two frames of two pixels, the window with them: an answer lingers while the
\* second frame's copy is under way. The bounded history ends.
CONSTANTS
    Pixels = {0, 1}
    Word = FALSE
    MaxFrame = 2
    MaxPoll = 4
SPECIFICATION WindowSpec
INVARIANTS
    TypeOK
    ReadIsWhole
    WindowAgrees
PROPERTY WindowCatchesUp
CHECK_DEADLOCK FALSE
