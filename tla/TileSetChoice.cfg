\* A small table; up to three tile sets appear or vanish during the search.
CONSTANTS
    numZoomLevelScaleDenominators = 3
    zoomLevelScaleDenominators <- SmallTable
    MAX_ZOOM_LEVEL = 4
    ScaleDenominators <- SmallScales
    PastTheTable = {0, 100}
    Directories <- SmallDirectories
    BarePath = BarePath
    NoFeatures = NoFeatures
    MaxChanges = 3

SPECIFICATION FairSpec

INVARIANTS
    NeverCoarser
    CoarsestThatSuffices

PROPERTIES
    Answered

\* features() has returned.
CHECK_DEADLOCK FALSE
