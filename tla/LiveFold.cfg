\* The application has a second, smaller blob that S writes.
CONSTANTS
    Pixels = {0, 1}
    Word = TRUE
    MaxFrame = 1
    MaxPoll = 2
SPECIFICATION Spec
INVARIANT OnlyTheFrameIsFolded
CHECK_DEADLOCK FALSE
