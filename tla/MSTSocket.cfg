\* A connection may break or be closed, and both sides stop.
CONSTANTS
    Anna = Anna
    Berta = Berta
    UIntMax = 255
    CounterMax = 12
    MaxLengthSM = 200
    MaxTransaction = 96
    Lengths <- TheLengths
SPECIFICATION FairSpec
INVARIANTS
    TypeOK
    ReadsWhatWasWritten
    NothingRefused
    OnlyPartnerAccepted
PROPERTIES
    EndpointSpec
    HandshakeEnds
    Delivered
CHECK_DEADLOCK FALSE
