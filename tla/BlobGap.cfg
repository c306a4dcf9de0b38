\* An application's blob with a cell of the application's inside the coalescing
\* gap between two that the GPU writes.
CONSTANTS
    Size = 3
    CpuCells = {1}
    Gap = 1
    Internals = {FALSE}
    MaxVer = 1
    MaxRelay = 2
SPECIFICATION Spec
INVARIANT EveryReturnedByteWasWritten
CHECK_DEADLOCK FALSE
