SPECIFICATION Spec
CONSTANTS
    Texts <- MCTexts
    Keywords <- MCKeywords
    UnsignedModulus = 4096
    IntMax = 127
INVARIANTS
    LongestTokens
    Located
    Decoded
CHECK_DEADLOCK FALSE
