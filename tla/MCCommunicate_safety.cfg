\* Two threads of the mount and two workers of the server; the ping and two
\* further calls.
SPECIFICATION Spec
CONSTANTS
    t1 = t1
    t2 = t2
    main = main
    w1 = w1
    w2 = w2
    Thread <- TwoThreads
    Main = main
    Worker <- TwoWorkers
    MaxRequest = 3
    SendRepeat = 2
SYMMETRY Symmetry
CHECK_DEADLOCK FALSE
INVARIANTS
    TypeOK
    NoStaleReply
    PooledSocketReady
    OneOwner
    AtMostOnce
    VerdictIsServers
    SilentOnlyUnsent
