\* The limit of the source, and records around it and around the one of its comment.
CONSTANTS
    Sizes = {100, 50000000, 52428800, 52428801}
    Limit = 50000000
    MaxRecords = 1
    Addresses = {a1, a2}
    nullptr = nullptr

SPECIFICATION Spec
SYMMETRY Symmetry

INVARIANT OnlyHugeRefused

CHECK_DEADLOCK FALSE
