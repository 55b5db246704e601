\* Every shape of up to two paths of up to four points.
CONSTANTS
    Points <- MCPoints
    MaxPoints = 4
    MaxRings = 2
    RingLimit = 4
    Int32Max = 5
    Boxes <- MCBoxes

SPECIFICATION Spec

INVARIANTS
    DrawnAsStored
    BoundsAgree

\* The shape has been walked through.
CHECK_DEADLOCK FALSE
