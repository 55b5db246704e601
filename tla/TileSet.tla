------------------------------- MODULE TileSet -------------------------------
(***************************************************************************)
(* What the two feature sets of the plugin share: the quadtree of tile     *)
(* files on disk, the box of a query, and the test by which a geometry     *)
(* read from a tile is kept or dropped.                                    *)
(*                                                                         *)
(* A query box and the bounds of a tile are doubles, in metres; the model  *)
(* counts them in units, UnitsPerCm of which make a centimetre.  The       *)
(* geometries and the box they are filtered with are whole centimetres.    *)
(* A tile file is named by its path below the name of the tile set, the    *)
(* sequence of quadrant digits; the sequence of its records is its         *)
(* contents.                                                               *)
(***************************************************************************)
EXTENDS Envelope, Sequences

CONSTANTS
    Tiles,          \* the paths at which a file can exist
    Missing,        \* what stat() reports where there is none
    Geometries,     \* the records a tile file can hold
    Denials,        \* the sets of tiles that fopen() may refuse to open
    HalfEarth,      \* HALF_EARTH_CIRCUMFERENCE, in units
    UnitsPerCm,
    Int32Max        \* the largest int32_t

Int32Min == -Int32Max - 1

Quadrants == 0 .. 3

ASSUME TilesAssumption ==
    /\ Tiles \subseteq Seq(Quadrants)
    /\ \A t \in Tiles : t # Missing

ASSUME UnitsAssumption ==
    /\ HalfEarth \in Nat \ {0}
    /\ UnitsPerCm \in Nat \ {0}
    /\ Int32Max \in Nat \ {0}

GeometryFlags == {"POINT", "LINE", "WAY_POLYGON", "RELATION_POLYGON"}

(* What a reader may trip over in a record: its size reaches the limit of  *)
(* GenericGeometry::init(), one of its rings that of the parse functions;  *)
(* or the file ends inside it, as its writer has not come to its end.      *)
Faults == {"huge", "longRing", "unfinished"}

(* A record: its type flags, the id of the entity it depicts, its z-index  *)
(* (an int8_t) and the points it consists of, as the box that holds them.  *)
GeometryType == [flags : GeometryFlags, id : Nat, zIndex : -128 .. 127,
                 bounds : EnvelopeType, faults : SUBSET Faults]

ASSUME GeometriesAssumption ==
    /\ Geometries \subseteq GeometryType
    /\ Missing \notin Seq(Geometries)

(* A file that stat() finds may yet not be opened: it is not readable, or  *)
(* the process has no file handle left when its turn comes.  A query opens *)
(* no file twice, so it is known beforehand which ones will fail.          *)
ASSUME DenialsAssumption == Denials \subseteq SUBSET Tiles

-----------------------------------------------------------------------------
(* Boxes in units (mapnik::box2d). *)

BoxType == [minx : Int, miny : Int, maxx : Int, maxy : Int]

Box2D(x0, y0, x1, y1) == [minx |-> x0, miny |-> y0, maxx |-> x1, maxy |-> y1]

World == Box2D(-HalfEarth, -HalfEarth, HalfEarth, HalfEarth)

(* a.intersect(b).valid(): boxes that only touch intersect. *)
Intersects(a, b) ==
    /\ a.minx <= b.maxx /\ b.minx <= a.maxx
    /\ a.miny <= b.maxy /\ b.miny <= a.maxy

-----------------------------------------------------------------------------
(* One pending call of readFiles() or buildFileHierarchy(), and the four   *)
(* calls it ends with.                                                     *)

Call(path, bounds) == [path |-> path, tileBounds |-> bounds]

CallType == [path : Seq(Quadrants), tileBounds : BoxType]

(* Mutants of Subcalls: north and south confused, as y grows downwards in  *)
(* most tile schemes; and the quadrants numbered from one.                 *)
SubcallsFlipped(c) ==
    LET b == c.tileBounds
        yMid == (b.miny + b.maxy) \div 2
        xMid == (b.minx + b.maxx) \div 2
    IN  << Call(Append(c.path, 0), Box2D(b.minx, b.miny, xMid, yMid)),
           Call(Append(c.path, 1), Box2D(xMid, b.miny, b.maxx, yMid)),
           Call(Append(c.path, 2), Box2D(b.minx, yMid, xMid, b.maxy)),
           Call(Append(c.path, 3), Box2D(xMid, yMid, b.maxx, b.maxy)) >>

SubcallsFromOne(c) == [d \in 1 .. 4 |-> Call(Append(c.path, d), c.tileBounds)]

Subcalls(c) ==
    LET yMin == c.tileBounds.miny
        yMax == c.tileBounds.maxy
        yMid == (yMin + yMax) \div 2
        xMin == c.tileBounds.minx
        xMax == c.tileBounds.maxx
        xMid == (xMin + xMax) \div 2
    IN  << Call(Append(c.path, 0), Box2D(xMin, yMid, xMid, yMax)),
           Call(Append(c.path, 1), Box2D(xMid, yMid, xMax, yMax)),
           Call(Append(c.path, 2), Box2D(xMin, yMin, xMid, yMid)),
           Call(Append(c.path, 3), Box2D(xMid, yMin, xMax, yMid)) >>

(* stat(path) finds a regular file *)
Exists(files, path) == path \in Tiles /\ files[path] # Missing

(* The file ends inside its last record. *)
EndsUnfinished(contents) ==
    contents # <<>> /\ "unfinished" \in contents[Len(contents)].faults

(* No record follows an unfinished one. *)
WrittenInOrder(files) ==
    \A t \in Tiles : files[t] # Missing =>
        \A k \in 1 .. Len(files[t]) :
            "unfinished" \in files[t][k].faults => k = Len(files[t])

-----------------------------------------------------------------------------
(* The query box in centimetres.  Converting a double to int32_t cuts off  *)
(* towards zero; outside the range of int32_t the result is undefined: an  *)
(* x86 returns the smallest int32_t, an ARM the nearest.                   *)

Truncate(v) == IF v >= 0 THEN v \div UnitsPerCm ELSE -((-v) \div UnitsPerCm)

ToInt32(v) ==
    LET cm == Truncate(v)
    IN  IF cm \in Int32Min .. Int32Max THEN {cm}
        ELSE {Int32Min, IF cm > 0 THEN Int32Max ELSE Int32Min}

QueryEnvelopes(q) ==
    [xMin : ToInt32(q.minx), xMax : ToInt32(q.maxx),
     yMin : ToInt32(q.miny), yMax : ToInt32(q.maxy)]

-----------------------------------------------------------------------------
(* Type bits of a record. *)

FeatureType(g) ==
    IF g.flags \in {"WAY_POLYGON", "RELATION_POLYGON"} THEN "POLYGON" ELSE g.flags

EntityType(g) ==
    CASE g.flags = "POINT" -> "NODE"
      [] g.flags \in {"LINE", "WAY_POLYGON"} -> "WAY"
      [] g.flags = "RELATION_POLYGON" -> "RELATION"

(* The assertion of parsePolygonGeometry() on the points of each ring,     *)
(* which holds before the polygon is kept or dropped.                      *)
RingTooLong(g) == FeatureType(g) = "POLYGON" /\ "longRing" \in g.faults

(* What the parse functions answer, if they do: a point is always kept; a  *)
(* line asks about the query box, the query box asks about a polygon.      *)
Accepts(g, box) ==
    \/ FeatureType(g) = "POINT"
    \/ FeatureType(g) = "LINE"    /\ overlapsWith(g.bounds, box)
    \/ FeatureType(g) = "POLYGON" /\ overlapsWith(box, g.bounds)

-----------------------------------------------------------------------------
(* Reference definitions, which the code never computes. *)

(* The part of the world that a tile covers, by the meaning of its digits: *)
(* 0 and 1 are north, 1 and 3 are east.                                    *)
Region[path \in Seq(Quadrants)] ==
    IF path = <<>> THEN World
    ELSE LET last == path[Len(path)]
             whole == Region[SubSeq(path, 1, Len(path) - 1)]
             half == (whole.maxx - whole.minx) \div 2
             west == whole.minx + (IF last \in {1, 3} THEN half ELSE 0)
             south == whole.miny + (IF last \in {0, 1} THEN half ELSE 0)
         IN  Box2D(west, south, west + half, south + half)

(* A double is halved without loss down to far below a tile: the units are *)
(* fine enough for the middle of every region.                             *)
ASSUME HalvingAssumption ==
    \A t \in Tiles : (Region[t].maxx - Region[t].minx) % 2 = 0

(* The tile p lies in the subtree below the tile q, or is q. *)
Under(p, q) == Len(q) <= Len(p) /\ \A k \in 1 .. Len(q) : p[k] = q[k]

Ancestry(path) == {SubSeq(path, 1, n) : n \in 0 .. Len(path)}

(* The tiles a query has to look at: those that meet the query box and can *)
(* be reached through existing files.                                      *)
Relevant(files, q) ==
    {t \in Tiles : /\ \A p \in Ancestry(t) : Exists(files, p)
                   /\ Intersects(q, Region[t])}

(* The copies of geometries a query has to return, each as its place on    *)
(* disk: the tile and the number of the record in it.                      *)
Matches(files, q, box) ==
    {c \in UNION {{t} \X DOMAIN files[t] : t \in Relevant(files, q)} :
        Accepts(files[c[1]][c[2]], box)}

(* A box of centimetres, in units. *)
InUnits(e) == Box2D(e.xMin * UnitsPerCm, e.yMin * UnitsPerCm,
                    e.xMax * UnitsPerCm, e.yMax * UnitsPerCm)

(* A geometry is found wherever it lies: each of its points is in the      *)
(* region of a tile that can be reached and has the geometry.              *)
FoundWhereItLies(files, g) ==
    LET e == InUnits(g.bounds)
    IN  \A x \in e.minx .. e.maxx, y \in e.miny .. e.maxy :
            \E t \in Tiles :
                /\ \A p \in Ancestry(t) : Exists(files, p)
                /\ Intersects(Box2D(x, y, x, y), Region[t])
                /\ \E k \in DOMAIN files[t] : files[t][k] = g

WellLaid(files) ==
    \A t \in Tiles : files[t] # Missing =>
        \A k \in DOMAIN files[t] : FoundWhereItLies(files, files[t][k])

(* b, wider by d on every side *)
Widened(b, d) == Box2D(b.minx - d, b.miny - d, b.maxx + d, b.maxy + d)
=============================================================================
