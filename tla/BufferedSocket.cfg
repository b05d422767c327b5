\* The bounded octets are used up, or the sockets are closed.
CONSTANTS
    Capacity = 3
    ReadCapacity = 2
    WireCapacity = 3
    Sizes = {1, 2, 5}
    MaxOctets = 7
SPECIFICATION FairSpec
INVARIANTS
    TypeOK
    Conserved
PROPERTIES
    StreamSpec
    ReadReturns
    WriteReturns
CHECK_DEADLOCK FALSE
