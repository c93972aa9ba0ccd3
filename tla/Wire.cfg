CONSTANTS
    Radix <- MCRadix
    SequenceSize = 1
    LengthSize = 1
    DoubleSize = 2
    WordSize <- MCWordSize
    Fields <- MCFields
    MaxMessage = 2
    Nullopt = Nullopt
    Jobs <- MCJobs
SPECIFICATION Spec
INVARIANTS
    CursorInside
    DamageIsNoticed
    AcceptsOnlyEncodings
PROPERTY
    DecoderEnds
