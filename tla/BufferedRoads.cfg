\* Roads: the vector is sorted, by any order std::sort may leave equal z-indexes in.
CONSTANTS
    Missing = Missing
    Tiles <- MCTiles
    Geometries <- MCRoads
    Denials <- NoDenials
    HalfEarth = 8
    UnitsPerCm = 2
    Int32Max = 15
    IsRoad = TRUE
    TileSets <- MCTileSetsOnDisk
    Queries <- FewQueries
    MaxChanges = 0
    Splits <- RoadSplits
    Collections <- RoadCollections
    HighSets <- NoHighSets

SPECIFICATION FairSpec

INVARIANTS
    RoadsInOrder

PROPERTIES
    ImplementsFeatureQuery

\* A destroyed feature set does nothing more.
CHECK_DEADLOCK FALSE
