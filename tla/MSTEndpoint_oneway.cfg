CONSTANTS
    Anna = Anna
    Berta = Berta
    UIntMax = 255
    CounterMax = 16
    MaxLengthSM = 96
    COUNTER_SIZE = 3
    Base = 2
    MaxKeys <- OneWayKeys
    Lengths <- OneWayLengths
    DamagedSizes <- OneWayDamaged
SPECIFICATION Spec
INVARIANTS
    TypeOK
    MasksNeverReused
    AcceptedInOrder
    GapsAreSignalled
    NextMessageInStep
    CountsBlocks
PROPERTIES
    ChannelSpec
