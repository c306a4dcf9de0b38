\* Streams that a single frame fills; batches of two.  The bounded history ends.
CONSTANTS
    Window = 1
    MaxFromC = 2
    MaxFromS = 1
    MaxBatch = 2
SPECIFICATION Spec
PROPERTIES
    ImplementsChannel
    NobodyWaitsForEver
CHECK_DEADLOCK FALSE
