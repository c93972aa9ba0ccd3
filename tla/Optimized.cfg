CONSTANTS
    Main = main
    Producers = {main}
    Consumers = {w1, w2}
    NoOne = NoOne
    NoItem = NoItem
    Heap = Heap
    NoText = NoText
    WordSize <- MCWordSize
    Configs <- MCConfigs
    Sizes <- MCSizes
    MayThrow = TRUE
    ProcessOne <- MCProcessOne
    EncodedSize <- MCEncodedSize
    PayloadSize <- MCPayloadSize
    Unset <- MCUnset
    Garbage <- MCGarbage
SPECIFICATION Spec
INVARIANTS
    TypeOK
    EveryTextIsBacked
    ArenaHoldsOneBatch
    BorrowEndsInCall
PROPERTIES
    ActsAsBatched
    ReturnsOrStrands
\* After an exception the joins wait for ever (see ReturnsOrStrands).
CHECK_DEADLOCK FALSE
