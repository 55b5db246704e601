\* Areas: every collection of six geometries in every layout; nobody changes the tiles.
CONSTANTS
    Missing = Missing
    Tiles <- MCTiles
    Geometries <- MCGeometries
    Denials <- NoDenials
    HalfEarth = 8
    UnitsPerCm = 2
    Int32Max = 15
    IsRoad = FALSE
    TileSets <- MCTileSetsOnDisk
    Queries <- AreaQueries
    MaxChanges = 0
    Splits <- AllSplits
    Collections <- AreaCollections
    HighSets <- AreaHighSets

SPECIFICATION FairSpec

INVARIANTS
    TypeOK
    AnswerComplete
    AnswerSound

PROPERTIES
    ImplementsFeatureQuery

\* A destroyed feature set does nothing more.
CHECK_DEADLOCK FALSE
