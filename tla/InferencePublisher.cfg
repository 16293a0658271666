CONSTANTS
    Queues = {q1, q2}
    MaxPtr = 2
SPECIFICATION FairSpec
INVARIANT NoLostUpdate
PROPERTY PointersGrow
PROPERTY EventuallyPublished
PROPERTY ShutdownEnds
CHECK_DEADLOCK FALSE
