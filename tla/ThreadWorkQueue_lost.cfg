CONSTANTS
    w1 = w1
    w2 = w2
    p1 = p1
    Nobody = Nobody
    Workers <- TwoWorkers
    Producers <- OneProducer
    MaxSpurious = 0
    MaxInserts = 2
SPECIFICATION EagerSpec
PROPERTIES
    WorkIsProvided
CHECK_DEADLOCK FALSE
