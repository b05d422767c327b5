CONSTANTS
    Anna = Anna
    Berta = Berta
    UIntMax = 255
    CounterMax = 16
    MaxLengthSM = 200
    MaxTransaction = 96
    Lengths <- TheLengths
SPECIFICATION Spec
INVARIANTS
    LimitsAgree
CHECK_DEADLOCK FALSE
