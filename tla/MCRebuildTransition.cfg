SPECIFICATION MCSpec
CONSTANTS
    Plans = {planA, planB}
    Clients = {c1, c2}
    MaxBytes = 2
    MaxTx = 1
    NonFinite = 99
    Fine = 2
    Thresholds = {0, 2}
    Directories <- MCDirectories
    Content <- MCContent
    Orders <- MCOrders
    SharedPairs <- MCSharedPairs
    Payloads <- MCPayloads
    Tokenizers = {"exact", "alike", "other"}
    Encoding = {"exact", "alike"}
    Commits = {1, 2}
    Devices <- MCDevices
    Stored <- MCStored
    MaxChanges = 1
    MaxEdits = 1
SYMMETRY Symm
INVARIANTS
    TransitionSafe
    LoadedIsSource
    PreflightAgrees
    DenseIsNearest
    LedgerIsEvidence
    HandoffHonest
PROPERTY
    CommitsOnce
CHECK_DEADLOCK FALSE
