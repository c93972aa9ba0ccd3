CONSTANTS
    Main = main
    Producers = {main}
    Consumers = {w1, w2}
    NoOne = NoOne
    NoItem = NoItem
    WordSize <- MCWordSize
    Configs <- MCConfigs
    Sizes <- MCSizes
    MayThrow = FALSE
    ProcessOne <- MCProcessOne
    EncodedSize <- MCEncodedSize
    PayloadSize <- MCPayloadSize
    Unset <- MCUnset
SPECIFICATION Spec
PROPERTY
    Completes
