SPECIFICATION Spec
CONSTANTS
    NumLayers = 2
    NumHeads = 2
    Capacity = 2
    s1 = s1
    s2 = s2
    p1 = p1
    p2 = p2
    Sources <- MCSources
    Payloads <- MCPayloads
    SrcTokens <- MCSrcTokens
    MaxAppends = 2
    MaxWrites = 2
SYMMETRY Symm
INVARIANTS
    NoUseAfterFree
    CommittedRows
    ReleasedIsDone
CHECK_DEADLOCK FALSE
