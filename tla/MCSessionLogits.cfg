SPECIFICATION MCSpec
CONSTANTS
    Tokens = {a, b}
    NumLayers = 2
    Capacity = 4
    MaxPrompt = 2
    MaxDraft = 2
    MaxCalls = 4
    HeadBytes = 8
    Requests <- MCRequests
    Backends <- MCBackends
SYMMETRY Symm
INVARIANT
    CurrentLogits
CHECK_DEADLOCK FALSE
