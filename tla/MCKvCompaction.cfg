SPECIFICATION Spec
CONSTANTS
    NumLayers = 2
    NumHeads = 2
    Capacity = 3
    Payloads = {p1, p2}
PROPERTY
    ImplementsKvRows
CHECK_DEADLOCK FALSE
