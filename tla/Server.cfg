\* The workers wait when the bounded connections are used up, or are ended.
CONSTANTS
    w1 = w1
    w2 = w2
    main = main
    Nobody = Nobody
    Workers <- TwoWorkers
    Producers <- MainThread
    MaxSpurious = 1
    MaxInserts = 2
SPECIFICATION ServerFairSpec
INVARIANTS
    ServerTypeOK
    WokenFindsWork
    SignalsAccountForWork
    OneWorkerEach
    BrokenMessagesEndWorkers
PROPERTIES
    QueueSpec
    OnlyClientsKeepWorkers
    OnlyLostSignalsStrand
CHECK_DEADLOCK FALSE
