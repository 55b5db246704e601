\* The tile writer removes or empties up to two files while they are read.
CONSTANTS
    Missing = Missing
    Tiles <- MCTiles
    Geometries <- MCGeometries
    Denials <- FewDenials
    HalfEarth = 8
    UnitsPerCm = 2
    Int32Max = 15
    NoFile = NoFile
    Word = 128
    TileSets <- MCTileSetsOnDisk
    Queries <- FewQueries
    MaxChanges = 2
    Splits <- AllSplits
    Collections <- FewCollections
    HighSets <- AreaHighSets

SPECIFICATION FairSpec

INVARIANTS
    EntityOnce

PROPERTIES
    CrashExplained
    Termination

\* A destroyed feature set does nothing more.
CHECK_DEADLOCK FALSE
