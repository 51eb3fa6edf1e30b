SPECIFICATION Spec
CONSTANTS
    Tokens = {a, b}
    Capacity = 3
    MaxEncode = 3
    MaxCalls = 4
INVARIANT
    ExactAccounting
CHECK_DEADLOCK FALSE
