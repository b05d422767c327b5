CONSTANTS
    UIntMax = 511
    MaxPDU = 480
    Bits = {1}
    Begin <- MCBegin
    Lengths <- LengthsOfTheGuard
SPECIFICATION Spec
INVARIANTS
    PDULayout
