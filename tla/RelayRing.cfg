\* A ring of two slots, which four commands lap twice; one write of the memory a
\* command may name, one inline command.
CONSTANTS
    BufSize = 2
    MaxCmd = 4
    MaxMem = 1
    MaxInline = 1
SPECIFICATION FairSpec
INVARIANTS
    TypeOK
    FrontierOrder
    ReplyBeforeHead
    StreamIntact
    MemoryBeforeCommand
    InlineInOrder
    NothingRefused
PROPERTIES
    ServesTheRing
    EveryCallReturns
