CONSTANTS
    UIntMax = 511
    MaxPDU = 480
    Bits = {1}
    Begin <- MCBegin
    Lengths <- LengthsThatFit
SPECIFICATION Spec
INVARIANTS
    HashAsDocumented
