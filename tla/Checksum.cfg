CONSTANTS
    Radix = 4
    NumberBytes = 2
    HashRange = 32
    Offset = 21
    Prime = 11
    ByteXor <- MCXor
    Kept <- MCKept
    Outputs <- MCOutputs
SPECIFICATION ChecksumSpec
INVARIANTS
    OutputsAreToldApart
    OneDifferenceShows
