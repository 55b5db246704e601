---------------------------- MODULE GeometryShapes ----------------------------
(***************************************************************************)
(* What a record says behind its tags: how the parse functions of the two  *)
(* feature sets (src/src/coordsFeatureSet.cc, and again in                 *)
(* src/src/bufferedCoordsFeatureSet.cc) draw it and find out whether the   *)
(* query wants it, and how getBounds() (src/src/genericGeometry.cc) finds  *)
(* its bounding box.  Two walks, written apart, over one encoding: counts, *)
(* and points as their distances from the point before.                    *)
(*                                                                         *)
(* A cell of the body is one number: an encoded integer of a line or a     *)
(* polygon, one of the two plain ones of a point.                          *)
(***************************************************************************)
EXTENDS Envelope, Sequences, SequencesExt, FiniteSetsExt, FiniteSets

CONSTANTS
    Points,         \* the points of shapes, as <<x, y>>
    MaxPoints,      \* bound: points of a path
    MaxRings,       \* bound: rings of a polygon
    RingLimit,      \* 10 000 000: a ring of as many points ends the process
    Int32Max,       \* 2^31 - 1
    Boxes           \* the query boxes

Int32 == -Int32Max - 1 .. Int32Max

(* The numbers that int64_t has room for, and for the distance of any two. *)
Coordinates == LET b == (Int32Max + 1) * (Int32Max + 1) IN -b .. b - 1

(* A record has fewer than 50 000 000 bytes: its counts fit in uint32_t.   *)
ASSUME GeometryShapesAssumption ==
    /\ Int32Max \in Nat /\ RingLimit \in Nat
    /\ Points \subseteq Coordinates \X Coordinates
    /\ MaxPoints \in 0 .. Int32Max /\ MaxRings \in Nat
    /\ Boxes \subseteq EnvelopeType /\ \A b \in Boxes : isValid(b)

VARIABLES
    shape,          \* what the tile writer stored: its type and its paths,
    body,           \* and as what
    box_,
    pc,
    geoPtr,         \* the cell to be read next
    numRings, numPoints,    \* how many are still to come
    x, y,
    envelope,       \* polygonBounds of a parse function, env of getBounds()
    line,           \* the path being drawn
    feature,        \* the paths drawn
    accepted

vars == <<shape, body, box_, pc, geoPtr, numRings, numPoints, x, y, envelope, line,
          feature, accepted>>
stored == <<shape, body, box_>>

-----------------------------------------------------------------------------
(* The encoding, as the tile writer leaves it. *)

(* A path: the number of its points, then their distances, a 2k-th and a   *)
(* 2k+1st cell for the k-th point.                                         *)
Distance(path, k, axis) ==
    path[k][axis] - (IF k = 1 THEN 0 ELSE path[k - 1][axis])

Path(path) ==
    [cell \in 1 .. 2 * Len(path) + 1 |->
        IF cell = 1 THEN Len(path) ELSE Distance(path, cell \div 2, 1 + (cell % 2))]

(* The body of a polygon up to its n-th ring *)
RingsTo(paths) ==
    LET to[n \in 0 .. Len(paths)] ==
            IF n = 0 THEN <<Len(paths)>> ELSE to[n - 1] \o Path(paths[n])
    IN  to

Body(s) ==
    CASE s.type = "POINT"   -> s.paths[1][1]
      [] s.type = "LINE"    -> Path(s.paths[1])
      [] s.type = "POLYGON" -> RingsTo(s.paths)[Len(s.paths)]

Paths == BoundedSeq(Points, MaxPoints)

(* A point is stored as two numbers of 32 bits, a path as any. *)
Shapes ==
    [type : {"POINT"}, paths : {<< <<p>> >> : p \in Points \cap (Int32 \X Int32)}]
        \cup [type : {"LINE"}, paths : {<<p>> : p \in Paths}]
        \cup [type : {"POLYGON"}, paths : BoundedSeq(Paths, MaxRings)]

-----------------------------------------------------------------------------
Init ==
    /\ shape \in Shapes /\ body = Body(shape) /\ box_ \in Boxes
    /\ pc \in {"parse", "getBounds"}
    /\ geoPtr = 1
    /\ numRings = 0 /\ numPoints = 0 /\ x = 0 /\ y = 0
    /\ envelope = EmptyEnvelope
    /\ line = <<>> /\ feature = <<>> /\ accepted = FALSE

(* parsePointGeometry() *)
ParsePoint ==
    /\ pc = "parse" /\ shape.type = "POINT"
    /\ feature' = << << <<body[1], body[2]>> >> >>
    /\ accepted' = TRUE /\ pc' = "parsed"
    /\ UNCHANGED <<stored, geoPtr, numRings, numPoints, x, y, envelope, line>>

(* parseLineGeometry(): a line of no points is not drawn. *)
ParseLine ==
    /\ pc = "parse" /\ shape.type = "LINE"
    /\ numPoints' = body[geoPtr] /\ geoPtr' = geoPtr + 1
    /\ pc' = IF numPoints' = 0 THEN "parsed" ELSE "moveTo"
    /\ UNCHANGED <<stored, numRings, x, y, envelope, line, feature, accepted>>

(* parsePolygonGeometry() *)
ParsePolygon ==
    /\ pc = "parse" /\ shape.type = "POLYGON"
    /\ numRings' = body[geoPtr] /\ geoPtr' = geoPtr + 1
    /\ pc' = "ring"
    /\ UNCHANGED <<stored, numPoints, x, y, envelope, line, feature, accepted>>

(* A ring of too many points ends the process, one of none is skipped. *)
ParseRing ==
    /\ pc = "ring" /\ numRings > 0
    /\ numRings' = numRings - 1
    /\ numPoints' = body[geoPtr] /\ geoPtr' = geoPtr + 1
    /\ pc' = IF numPoints' >= RingLimit THEN "aborted"
             ELSE IF numPoints' = 0 THEN "ring" ELSE "moveTo"
    /\ UNCHANGED <<stored, x, y, envelope, line, feature, accepted>>

EndPolygon ==
    /\ pc = "ring" /\ numRings = 0
    /\ accepted' = overlapsWith(box_, envelope)
    /\ pc' = "parsed"
    /\ UNCHANGED <<stored, geoPtr, numRings, numPoints, x, y, envelope, line, feature>>

(* What Envelope::add() is passed of a number: its last 32 bits. *)
Kept(v) == ((v + Int32Max + 1) % (2 * Int32Max + 2)) - Int32Max - 1

Draw(px, py) ==
    /\ x' = px /\ y' = py
    /\ envelope' = add(envelope, Kept(px), Kept(py))
    /\ geoPtr' = geoPtr + 2 /\ numPoints' = numPoints - 1
    /\ UNCHANGED <<stored, numRings, feature, accepted>>

(* Mutant of MoveTo: each ring goes on from where the last one ended. *)
MoveOn ==
    /\ pc = "moveTo"
    /\ Draw(x + body[geoPtr], y + body[geoPtr + 1])
    /\ line' = << <<x', y'>> >> /\ pc' = "lineTo"

MoveTo ==
    /\ pc = "moveTo"
    /\ Draw(body[geoPtr], body[geoPtr + 1])
    /\ line' = << <<x', y'>> >> /\ pc' = "lineTo"

LineTo ==
    /\ pc = "lineTo" /\ numPoints > 0
    /\ Draw(x + body[geoPtr], y + body[geoPtr + 1])
    /\ line' = Append(line, <<x', y'>>) /\ UNCHANGED pc

AddGeometry ==
    /\ pc = "lineTo" /\ numPoints = 0
    /\ feature' = Append(feature, line) /\ line' = <<>>
    /\ IF shape.type = "LINE"
       THEN accepted' = overlapsWith(envelope, box_) /\ pc' = "parsed"
       ELSE pc' = "ring" /\ UNCHANGED accepted
    /\ UNCHANGED <<stored, geoPtr, numRings, numPoints, x, y, envelope>>

-----------------------------------------------------------------------------
(* getBounds() *)

GetPoint ==
    /\ pc = "getBounds" /\ shape.type = "POINT"
    /\ envelope' = [xMin |-> body[1], xMax |-> body[1], yMin |-> body[2], yMax |-> body[2]]
    /\ pc' = "bounded"
    /\ UNCHANGED <<stored, geoPtr, numRings, numPoints, x, y, line, feature, accepted>>

(* getLineBounds() *)
GetLine ==
    /\ pc = "getBounds" /\ shape.type = "LINE"
    /\ numPoints' = body[geoPtr] /\ geoPtr' = geoPtr + 1
    /\ pc' = "getPoints"
    /\ UNCHANGED <<stored, numRings, x, y, envelope, line, feature, accepted>>

(* getPolygonBounds() *)
GetPolygon ==
    /\ pc = "getBounds" /\ shape.type = "POLYGON"
    /\ numRings' = body[geoPtr] /\ geoPtr' = geoPtr + 1
    /\ pc' = "getRing"
    /\ UNCHANGED <<stored, numPoints, x, y, envelope, line, feature, accepted>>

(* Mutant of GetRing: the position is that of the whole polygon. *)
GetRingFromLast ==
    /\ pc = "getRing" /\ numRings > 0
    /\ numRings' = numRings - 1
    /\ numPoints' = body[geoPtr] /\ geoPtr' = geoPtr + 1
    /\ pc' = "getPoints"
    /\ UNCHANGED <<stored, x, y, envelope, line, feature, accepted>>

GetRing ==
    /\ pc = "getRing" /\ numRings > 0
    /\ numRings' = numRings - 1
    /\ numPoints' = body[geoPtr] /\ geoPtr' = geoPtr + 1
    /\ x' = 0 /\ y' = 0
    /\ pc' = "getPoints"
    /\ UNCHANGED <<stored, envelope, line, feature, accepted>>

(* The first MUST() of the walks *)
GetDistance ==
    /\ pc = "getPoints" /\ numPoints > 0
    /\ Draw(x + body[geoPtr], y + body[geoPtr + 1])
    /\ pc' = IF geoPtr' <= Len(body) + 1 THEN "getPoints" ELSE "failed"
    /\ UNCHANGED line

EndRing ==
    /\ pc = "getPoints" /\ numPoints = 0 /\ shape.type = "POLYGON"
    /\ pc' = "getRing"
    /\ UNCHANGED <<stored, geoPtr, numRings, numPoints, x, y, envelope, line, feature, accepted>>

(* and the last one *)
Bounded ==
    /\ \/ pc = "getPoints" /\ numPoints = 0 /\ shape.type = "LINE"
       \/ pc = "getRing" /\ numRings = 0
    /\ pc' = IF geoPtr = Len(body) + 1 THEN "bounded" ELSE "failed"
    /\ UNCHANGED <<stored, geoPtr, numRings, numPoints, x, y, envelope, line, feature, accepted>>

Next ==
    \/ ParsePoint \/ ParseLine \/ ParsePolygon \/ ParseRing \/ EndPolygon
    \/ MoveTo \/ LineTo \/ AddGeometry
    \/ GetPoint \/ GetLine \/ GetPolygon \/ GetRing \/ GetDistance \/ EndRing \/ Bounded

Spec == Init /\ [][Next]_vars

-----------------------------------------------------------------------------
PointsOf(s) == UNION {ToSet(s.paths[i]) : i \in DOMAIN s.paths}

KeptPoints(s) == {<<Kept(p[1]), Kept(p[2])>> : p \in PointsOf(s)}

(* Every coordinate of the shape has 32 bits. *)
Fits(s) == PointsOf(s) \subseteq Int32 \X Int32

(* The bounding box of a set of points *)
BoundingBox(S) ==
    LET xs == {p[1] : p \in S}
        ys == {p[2] : p \in S}
    IN  IF S = {} THEN EmptyEnvelope
        ELSE [xMin |-> Min(xs), xMax |-> Max(xs), yMin |-> Min(ys), yMax |-> Max(ys)]

(* e is the bounding box of what is kept of the shape s: its own, if all   *)
(* is kept.                                                                *)
IsBoxOf(e, s) ==
    /\ e = BoundingBox(KeptPoints(s))
    /\ Fits(s) => e = BoundingBox(PointsOf(s))

(* Do two boxes have a point in common? *)
Meet(e, other) ==
    \E px \in e.xMin .. e.xMax, py \in e.yMin .. e.yMax : Holds(other, px, py)

(* How many of the first n paths have points *)
NumWithPoints(s, n) == Cardinality({k \in 1 .. n : s.paths[k] # <<>>})

(* The feature f consists of those of the first n paths that have points. *)
Drawn(f, s, n) ==
    /\ Len(f) = NumWithPoints(s, n)
    /\ \A k \in 1 .. n : s.paths[k] # <<>> => f[NumWithPoints(s, k)] = s.paths[k]

(* The renderer is given every path with points, in order and where it was *)
(* stored, wherever the path before it ended; and a line or a polygon just *)
(* if its bounding box and the query box have a point in common, one       *)
(* without points never: provided its coordinates have 32 bits.  Nothing   *)
(* of the body is left over: the parse functions, unlike getBounds(), do   *)
(* not look.  Only a ring of too many points ends the process instead.     *)
DrawnAsStored ==
    /\ pc = "parsed" =>
        /\ shape.type # "POINT" => geoPtr = Len(body) + 1
        /\ Drawn(feature, shape, Len(shape.paths))
        /\ Fits(shape) => (accepted <=> \/ shape.type = "POINT"
                                       \/ Meet(BoundingBox(PointsOf(shape)), box_))
    /\ pc = "aborted" =>
        shape.type = "POLYGON" /\ \E i \in DOMAIN shape.paths : Len(shape.paths[i]) >= RingLimit

(* getBounds() finds the smallest box that holds the shape, or what 32     *)
(* bits keep of its coordinates, on which the parse functions agree, and   *)
(* its checks of the size of a record refuse no record that is as the tile *)
(* writer leaves it.                                                       *)
BoundsAgree ==
    /\ pc # "failed"
    /\ \/ pc = "bounded"
       \/ pc = "parsed" /\ shape.type # "POINT"
       => IsBoxOf(envelope, shape)

-----------------------------------------------------------------------------
(* The loop invariants behind them.  A walk is in or behind the path it    *)
(* has begun last, and has read the first points of it.                    *)

PathsBegun == Len(shape.paths) - numRings

PointsRead == Len(shape.paths[PathsBegun]) - numPoints

(* The cells of the body before the n-th path *)
Offset(s, n) == IF s.type = "POLYGON" THEN Len(RingsTo(s.paths)[n - 1]) ELSE 0

(* The points of the first n paths and the first k points of the next *)
PointsTo(s, n, k) ==
    {p \in Points :
        \E i \in DOMAIN s.paths : \E j \in DOMAIN s.paths[i] :
            /\ p = s.paths[i][j]
            /\ \/ i <= n
               \/ i = n + 1 /\ j <= k}

(* e is the smallest box that holds what is kept of the points S. *)
Tight(e, S) ==
    IF S = {} THEN e = EmptyEnvelope
    ELSE /\ e \in EnvelopeType
         /\ \A p \in S : Holds(e, Kept(p[1]), Kept(p[2]))
         /\ \E p \in S : Kept(p[1]) = e.xMin
         /\ \E p \in S : Kept(p[1]) = e.xMax
         /\ \E p \in S : Kept(p[2]) = e.yMin
         /\ \E p \in S : Kept(p[2]) = e.yMax

AtStart ==
    /\ geoPtr = 1 /\ numRings = 0 /\ x = 0 /\ y = 0
    /\ envelope = EmptyEnvelope /\ feature = <<>> /\ accepted = FALSE

BetweenPaths ==
    /\ shape.type = "POLYGON"
    /\ numRings \in 0 .. Len(shape.paths)
    /\ geoPtr = Offset(shape, PathsBegun + 1) + 1
    /\ Tight(envelope, PointsTo(shape, PathsBegun, 0))

InPath ==
    /\ shape.type \in {"LINE", "POLYGON"}
    /\ numRings \in 0 .. Len(shape.paths) - 1
    /\ shape.type = "LINE" => numRings = 0
    /\ numPoints \in 0 .. Len(shape.paths[PathsBegun])
    /\ geoPtr = Offset(shape, PathsBegun) + 2 + 2 * PointsRead
    /\ Tight(envelope, PointsTo(shape, PathsBegun - 1, PointsRead))
    /\ PointsRead > 0 => <<x, y>> = shape.paths[PathsBegun][PointsRead]

WalkInv ==
    CASE pc \in {"parse", "getBounds"} -> AtStart
      [] pc = "ring" -> BetweenPaths /\ Drawn(feature, shape, PathsBegun)
      [] pc = "getRing" -> BetweenPaths
      [] pc = "moveTo" ->
            /\ InPath /\ PointsRead = 0 /\ numPoints > 0
            /\ Drawn(feature, shape, PathsBegun - 1)
      [] pc = "lineTo" ->
            /\ InPath /\ PointsRead > 0
            /\ line = SubSeq(shape.paths[PathsBegun], 1, PointsRead)
            /\ Drawn(feature, shape, PathsBegun - 1)
      [] pc = "getPoints" -> InPath /\ (PointsRead = 0 => x = 0 /\ y = 0)
      [] OTHER -> TRUE

Inv ==
    /\ shape \in Shapes /\ body = Body(shape) /\ box_ \in Boxes
    /\ feature \in Seq(Seq(Points))
    /\ WalkInv /\ DrawnAsStored /\ BoundsAgree
===============================================================================
