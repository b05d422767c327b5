\* A program that cannot read its key, or that has read a file, stops.
CONSTANTS
    AES_KEY_SIZE = 2
    MaxDigits = 3
    BufferSize = 2
    HexDigits = {1, 10}
    MaxLines = 2
    UIntMax = 511
    MaxPDU = 480
    Bits = {1}
    Begin <- MCBegin
    Lengths <- LengthsThatFit
    aes_sbox <- SpecifiedSBox
    aes_invsbox <- SpecifiedInverse
    Keys <- MCKeys
    Inputs <- MCInputs
SPECIFICATION SessionSpec
INVARIANTS
    ReaderTypeOK
    ReadsTheLines
    RefusesMalformed
    PartnersAgree
    TypeOK
    PDULayout
    HashChainsWords
PROPERTIES
    RoundTrip
CHECK_DEADLOCK FALSE
