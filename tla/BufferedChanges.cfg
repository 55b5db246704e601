\* The tile writer removes or empties up to two files while the query is loaded.
CONSTANTS
    Missing = Missing
    Tiles <- MCTiles
    Geometries <- MCGeometries
    Denials <- FewDenials
    HalfEarth = 8
    UnitsPerCm = 2
    Int32Max = 15
    IsRoad = FALSE
    TileSets <- MCTileSetsOnDisk
    Queries <- FewQueries
    MaxChanges = 2
    Splits <- AllSplits
    Collections <- FewCollections
    HighSets <- AreaHighSets

SPECIFICATION FairSpec

INVARIANTS
    HeapOwned

PROPERTIES
    CrashExplained
    Termination

\* A destroyed feature set does nothing more.
CHECK_DEADLOCK FALSE
