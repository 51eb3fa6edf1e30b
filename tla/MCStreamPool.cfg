SPECIFICATION FairSpec
CONSTANTS
    Consumers = {c1, c2}
    Home = home
    Buffers = {b1, b2}
    Blocks = {k1}
    MaxUses = 2
    MaxEvents = 4
    MaxWork = 4
INVARIANTS
    PoolSafe
PROPERTY
    DroppedIsFreed
CHECK_DEADLOCK FALSE
