\* Entities stored in several tiles, in every layout; nobody changes the tiles.
CONSTANTS
    Missing = Missing
    Tiles <- MCTiles
    Geometries <- MCGeometries
    Denials <- NoDenials
    HalfEarth = 8
    UnitsPerCm = 2
    Int32Max = 15
    NoFile = NoFile
    Word = 128
    TileSets <- MCTileSetsOnDisk
    Queries <- AreaQueries
    MaxChanges = 0
    Splits <- AllSplits
    Collections <- AreaCollections
    HighSets <- AreaHighSets

SPECIFICATION FairSpec

INVARIANTS
    TypeOK
    BitsInBounds
    AnswerComplete

PROPERTIES
    ImplementsFeatureQuery

\* A destroyed feature set does nothing more.
CHECK_DEADLOCK FALSE
