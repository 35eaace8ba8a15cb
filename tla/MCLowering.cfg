CONSTANTS
    CharBits = 3
    IntBits = 4
    LongBits = 8
    FloatBits = 2
    OutOfRange <- Least
    Names <- Declared
    CastTypes <- Casts
    SizedTypes <- SizeOfs
    Literals <- Numbers
    Halves <- Floats
    MaxNodes = 4
    MaxLiteral = 5
    MaxArgs = 2
SPECIFICATION Spec
INVARIANTS TypesKnown WellTyped InitializersConstant FoldedAsComputed LengthsMean
CHECK_DEADLOCK FALSE
