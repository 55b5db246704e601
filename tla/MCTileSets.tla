----------------------------- MODULE MCTileSets -----------------------------
(***************************************************************************)
(* A small world for the model checker: four centimetres to each side of   *)
(* the origin, two units to the centimetre, tiles down to the second       *)
(* level, geometries that lie inside a tile, across several, on the line   *)
(* between two, in the corner of the world, or nowhere; and three records  *)
(* that their readers trip over.                                           *)
(***************************************************************************)
EXTENDS TileSet, SequencesExt

CONSTANTS
    Splits,         \* the inner tiles a tile set may have
    Collections,    \* the sets of geometries that may be in it
    HighSets        \* the sets of geometries that may be kept in its root

Env(x0, x1, y0, y1) == [xMin |-> x0, xMax |-> x1, yMin |-> y0, yMax |-> y1]

Record(flags, id, z, bounds) ==
    [flags |-> flags, id |-> id, zIndex |-> z, bounds |-> bounds, faults |-> {}]

WithFault(g, fault) == [g EXCEPT !.faults = {fault}]

CentreLine  == Record("LINE", 1, 0, Env(-1, 1, -1, 1))
EastArea    == Record("WAY_POLYGON", 2, 1, Env(2, 3, 2, 3))
CornerPoint == Record("POINT", 3, 0, Env(-4, -4, -4, -4))
SouthArea   == Record("RELATION_POLYGON", 1, 2, Env(-4, 4, -3, -2))
BorderLine  == Record("LINE", 6, -1, Env(0, 0, 1, 2))
EmptyLine   == Record("LINE", 5, 3, Env(1, -1, 1, -1))

MCPlain ==
    {CentreLine, EastArea, CornerPoint, SouthArea, BorderLine, EmptyLine}

HugeArea  == WithFault(Record("WAY_POLYGON", 7, 1, Env(-2, 2, -2, 2)), "huge")
LongLake  == WithFault(Record("RELATION_POLYGON", 3, 0, Env(-3, -2, 2, 3)), "longRing")
TornPoint == WithFault(Record("POINT", 4, 0, Env(3, 3, -1, -1)), "unfinished")

MCGeometries == MCPlain \cup {HugeArea, LongLake, TornPoint}

(* Roads: two that cross a tile border, one bridge, one tunnel; two share  *)
(* a z-index.                                                              *)
BorderRoad == Record("LINE", 1, -1, Env(0, 0, 1, 2))
SouthRoad  == Record("LINE", 2, 1, Env(-1, 1, -2, -2))
BridgeRoad == Record("LINE", 3, 1, Env(2, 3, 2, 3))
TunnelRoad == Record("LINE", 4, -2, Env(-3, -2, 1, 1))

MCRoads == {BorderRoad, SouthRoad, BridgeRoad, TunnelRoad}

MCTiles == UNION {[1 .. n -> 0 .. 3] : n \in 0 .. 2}

-----------------------------------------------------------------------------
(* How the writer lays a set of geometries out: an inner tile is split     *)
(* into four; a geometry is stored in every tile without children whose    *)
(* region its box meets (EmptyLine, which meets none, in all of them), or, *)
(* for the geometries in "high", in the root.  A file without records      *)
(* exists if it has children, and if "keepEmpty" also if it has none; an   *)
(* unfinished record is the last of its file.                              *)
(* West and South are those of the tile, in centimetres.                   *)

East(d)  == d \in {1, 3}
North(d) == d \in {0, 1}

West(t) == -4 + (IF Len(t) > 0 /\ East(t[1]) THEN 4 ELSE 0)
              + (IF Len(t) > 1 /\ East(t[2]) THEN 2 ELSE 0)
South(t) == -4 + (IF Len(t) > 0 /\ North(t[1]) THEN 4 ELSE 0)
               + (IF Len(t) > 1 /\ North(t[2]) THEN 2 ELSE 0)
Width(t) == CASE Len(t) = 0 -> 8 [] Len(t) = 1 -> 4 [] OTHER -> 2

Meets(g, t) ==
    \/ g.bounds.xMin > g.bounds.xMax
    \/ /\ g.bounds.xMin <= West(t) + Width(t)   /\ West(t) <= g.bounds.xMax
       /\ g.bounds.yMin <= South(t) + Width(t)  /\ South(t) <= g.bounds.yMax

Children(t) == {Append(t, d) : d \in 0 .. 3}

Layout(inner, stored, high, keepEmpty) ==
    LET leaves == ({<<>>} \cup UNION {Children(t) : t \in inner}) \ inner
        contents(t) == IF t \in leaves THEN {g \in stored \ high : Meets(g, t)}
                       ELSE IF t = <<>> THEN stored \cap high ELSE {}
    IN  [t \in MCTiles |->
            IF \/ t \notin inner \cup leaves
               \/ t \in leaves /\ contents(t) = {} /\ ~ keepEmpty
            THEN Missing
            ELSE LET torn == {g \in contents(t) : "unfinished" \in g.faults}
                 IN  SetToSeq(contents(t) \ torn) \o SetToSeq(torn)]

NoSplit    == {}
RootSplit  == {<<>>}
DeepSplit  == {<<>>, <<1>>}
TwinSplit  == {<<>>, <<0>>, <<3>>}

AllSplits  == {NoSplit, RootSplit, DeepSplit, TwinSplit}
RoadSplits == {NoSplit, RootSplit}

MCTileSetsOnDisk ==
    UNION {LET high == IF split = NoSplit THEN {} ELSE h
           IN  {Layout(split, stored, high, keep) : keep \in BOOLEAN} :
              split \in Splits, stored \in Collections, h \in HighSets}

BoxesOver(xs, ys) == {Box2D(x[1], y[1], x[2], y[2]) : x \in xs, y \in ys}

(* Edges on, next to and between the borders of tiles and geometries; one  *)
(* box reaches over the edge of the world.                                 *)
AreaQueries ==
    BoxesOver({<<-8, 8>>, <<-7, -5>>, <<-3, -1>>, <<0, 0>>, <<3, 5>>, <<7, 11>>},
              {<<-8, 8>>, <<-8, -7>>, <<-3, -1>>, <<1, 3>>})

FewQueries == BoxesOver({<<-8, 8>>, <<-3, -1>>, <<0, 5>>}, {<<-8, 8>>, <<1, 3>>})

AreaCollections == SUBSET MCPlain \ {{}}
AreaHighSets    == {{}, {CentreLine}}

FewCollections ==
    {{CentreLine, EastArea}, {CornerPoint, EmptyLine}, {EastArea, SouthArea},
     {CentreLine, HugeArea}, {CornerPoint, LongLake}, {EastArea, TornPoint}}

RoadCollections == {c \in SUBSET MCRoads : Cardinality(c) \in {1, 2, 3}}
NoHighSets      == {{}}

(* fopen() refuses no file; or one that is an inner tile in one layout, a   *)
(* leaf in others.                                                         *)
NoDenials  == {{}}
FewDenials == {{}, {<<1>>}}
=============================================================================
