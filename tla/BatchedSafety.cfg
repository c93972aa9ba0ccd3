CONSTANTS
    Main = main
    Producers = {main}
    Consumers = {w1, w2}
    NoOne = NoOne
    NoItem = NoItem
    WordSize <- MCWordSize
    Configs <- MCConfigs
    Sizes <- MCSizes
    MayThrow = TRUE
    ProcessOne <- MCProcessOne
    EncodedSize <- MCEncodedSize
    PayloadSize <- MCPayloadSize
    Unset <- MCUnset
SPECIFICATION SafeSpec
INVARIANTS
    TypeOK
    EveryRecordOnce
    NoSlotRace
    SlotsAreRight
    ByteCountsExact
    ReturnsSequentialResult
    LocalsOutliveWorkers
    RethrowsOnlyBeforeSpawn
PROPERTIES
    StartAscends
    ActsAsTransform
CHECK_DEADLOCK FALSE
