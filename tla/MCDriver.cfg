CONSTANTS
    Paths <- ThreePaths
    Stem <- Stems
    Inputs = {"z.o"}
    Given <- Prog
    Existing <- There
    MaxInputs = 3
SPECIFICATION Spec
INVARIANTS Built NoTemporaries Told
PROPERTY OthersKept
CHECK_DEADLOCK FALSE
