SPECIFICATION FairSpec
CONSTANTS
    t1 = t1
    t2 = t2
    p1 = p1
    p2 = p2
    n1 = n1
    n2 = n2
    n3 = n3
    Thread <- TwoThreads
    Path <- TwoPaths
    Node <- ThreeNodes
    NoNode = NoNode
    NoPath = NoPath
    NoThread = NoThread
    MaxCount = 1
    BatchSize = 1
    MaxAge = 0
    MaxTime = 1
INVARIANTS
    TypeOK
    TableSound
PROPERTIES
    ChangedUnderMutex
    MutexReleased
    SafeInTurn
CHECK_DEADLOCK FALSE
