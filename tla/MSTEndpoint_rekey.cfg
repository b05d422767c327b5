CONSTANTS
    Anna = Anna
    Berta = Berta
    UIntMax = 255
    CounterMax = 12
    MaxLengthSM = 96
    COUNTER_SIZE = 3
    Base = 2
    MaxKeys <- RekeyKeys
    Lengths <- RekeyLengths
    DamagedSizes <- RekeyDamaged
SPECIFICATION Spec
INVARIANTS
    KeyExchangeRestores
