\* Every file of up to four records, with every ending, while it is written to.
CONSTANTS
    Sizes = {4, 6, 9}
    Limit = 9
    MaxRecords = 4
    Addresses = {a1, a2, a3, a4, a5, a6}
    nullptr = nullptr

SPECIFICATION Spec
SYMMETRY Symmetry

INVARIANTS
    TypeOK
    BlocksOwned
    WithinBlock
    RecordsRead
    CrashExplained

\* The feature set has been destroyed.
CHECK_DEADLOCK FALSE
