CONSTANTS
    Missing = Missing
    NaN = NaN
    PlusInfinity = PlusInfinity
    MinusInfinity = MinusInfinity
    Marks <- MCMarks
    MaxFinite <- MCMaxFinite
    MaxRatio <- MCMaxRatio
    Unspecified <- MCUnspecified
    Inputs <- MCInputs
    Names <- MCNames
    Streets <- MCStreets
    Postals <- MCPostals
    Revenues <- MCRevenues
    Factors <- MCFactors
    Picks <- MCPicks
SPECIFICATION Spec
INVARIANTS
    AgreesWithOracle
    FlagsAreExact
    TextsAreNormal
    WorkloadIsAsAsked
