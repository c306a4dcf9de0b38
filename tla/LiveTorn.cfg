\* Two frames: the first one leaves an answer behind.
CONSTANTS
    Pixels = {0, 1}
    Word = FALSE
    MaxFrame = 2
    MaxPoll = 3
SPECIFICATION Spec
INVARIANT LiveFrameIsWhole
CHECK_DEADLOCK FALSE
