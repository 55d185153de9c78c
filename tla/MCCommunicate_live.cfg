\* One thread and one worker: the ping, then two calls of the same thread.
SPECIFICATION FairSpec
CONSTANTS
    t1 = t1
    t2 = t2
    main = main
    w1 = w1
    w2 = w2
    Thread <- OneThread
    Main = main
    Worker <- OneWorker
    MaxRequest = 3
    SendRepeat = 2
CHECK_DEADLOCK FALSE
PROPERTIES
    CallReturns
    ImplementsRemoteCall
