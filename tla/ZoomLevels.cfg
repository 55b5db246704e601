\* The table of the source, at and around every entry and every scale of Mapnik.
CONSTANTS
    numZoomLevelScaleDenominators = 21
    zoomLevelScaleDenominators <- OsmTable
    MAX_ZOOM_LEVEL = 24
    ScaleDenominators <- OsmScales
    PastTheTable = {0, 2147483647}
    Directories <- OsmDirectories
    BarePath = BarePath
    NoFeatures = NoFeatures
    MaxChanges = 0

SPECIFICATION FairSpec

INVARIANTS
    TypeOK
    ZoomLevelRight
    MapnikLevelExact

\* features() has returned.
CHECK_DEADLOCK FALSE
