\* Three commands: one to fall asleep after, one to race the nap, one behind it.
CONSTANT MaxCmd = 3
SPECIFICATION FairSpec
INVARIANTS
    TypeOK
    ParkIsAPromise
PROPERTIES
    AbortIsDeserved
    EveryWriteIsDrained
