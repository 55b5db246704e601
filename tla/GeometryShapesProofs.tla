------------------------- MODULE GeometryShapesProofs -------------------------
(***************************************************************************)
(* Theorems about GeometryShapes, and about the boxes it works with        *)
(* (src/src/envelope.cc).  A polygon's body is defined by a recursive      *)
(* function; that there is one, and what its cells are, is proved first.   *)
(* Then the points read so far determine where a walk is and what it has   *)
(* found.                                                                  *)
(***************************************************************************)
EXTENDS GeometryShapes, FiniteSetTheorems, SequenceTheorems, NaturalsInduction,
        WellFoundedInduction, TLAPS

-----------------------------------------------------------------------------
(* Boxes: what envelope.cc computes, for every pair of boxes and every     *)
(* point of the plane.                                                     *)

(* overlapsWith answers whether the two boxes share a point, although it   *)
(* looks for an empty box on its left side only: an empty right operand,   *)
(* of whatever shape, is rejected by the comparisons themselves.           *)
THEOREM OverlapIsSharedPoint ==
    ASSUME NEW a \in EnvelopeType, NEW b \in EnvelopeType
    PROVE  overlapsWith(a, b)
             <=> \E px, py \in Int : Holds(a, px, py) /\ Holds(b, px, py)
<1>1. ASSUME overlapsWith(a, b)
      PROVE  \E px, py \in Int : Holds(a, px, py) /\ Holds(b, px, py)
  <2> DEFINE west == Larger(a.xMin, b.xMin)
             south == Larger(a.yMin, b.yMin)
  <2>1. west \in Int /\ south \in Int
    BY DEF EnvelopeType, Larger
  <2>2. Holds(a, west, south) /\ Holds(b, west, south)
    BY <1>1 DEF EnvelopeType, overlapsWith, isValid, Holds, Larger, Smaller
  <2>3. QED
    BY <2>1, <2>2
<1>2. ASSUME NEW px \in Int, NEW py \in Int, Holds(a, px, py), Holds(b, px, py)
      PROVE  overlapsWith(a, b)
  BY <1>2 DEF EnvelopeType, overlapsWith, isValid, Holds, Larger, Smaller
<1>3. QED
  BY <1>1, <1>2

(* The line filter asks the geometry about the query box, the polygon      *)
(* filter asks the query box about the geometry: both orders agree.        *)
THEOREM OverlapIsSymmetric ==
    ASSUME NEW a \in EnvelopeType, NEW b \in EnvelopeType
    PROVE  overlapsWith(a, b) <=> overlapsWith(b, a)
BY OverlapIsSharedPoint

(* A geometry without points (an empty line, a polygon whose rings are all *)
(* empty) overlaps no query box.                                           *)
THEOREM EmptyOverlapsNothing ==
    ASSUME NEW a \in EnvelopeType
    PROVE  ~ overlapsWith(a, EmptyEnvelope) /\ ~ overlapsWith(EmptyEnvelope, a)
BY DEF EnvelopeType, EmptyEnvelope, overlapsWith, isValid, Larger, Smaller

(* add yields the least box that holds the new point and everything held   *)
(* before: it holds both, and every box that holds both contains it.       *)
THEOREM AddIsLeastCover ==
    ASSUME NEW e \in EnvelopeType, NEW px \in Int, NEW py \in Int
    PROVE  /\ add(e, px, py) \in EnvelopeType
           /\ isValid(add(e, px, py))
           /\ Holds(add(e, px, py), px, py)
           /\ \A p, q \in Int : Holds(e, p, q) => Holds(add(e, px, py), p, q)
           /\ \A c \in EnvelopeType :
                /\ Holds(c, px, py)
                /\ isValid(e) => /\ Holds(c, e.xMin, e.yMin)
                                 /\ Holds(c, e.xMax, e.yMax)
                => \A p, q \in Int : Holds(add(e, px, py), p, q) => Holds(c, p, q)
<1>1. CASE isValid(e)
  BY <1>1 DEF EnvelopeType, add, isValid, Holds, Larger, Smaller
<1>2. CASE ~ isValid(e)
  BY <1>2 DEF EnvelopeType, add, isValid, Holds, Larger, Smaller
<1>3. QED
  BY <1>1, <1>2

-----------------------------------------------------------------------------
(* Induction over the naturals, for a set instead of a predicate *)
LEMMA SetInduction ==
    ASSUME NEW S, 0 \in S, \A n \in Nat : n \in S => n + 1 \in S
    PROVE  \A n \in Nat : n \in S
<1> DEFINE LessThan == {p \in Nat \X Nat : p[1] < p[2]}
           T == {n \in Nat : n \notin S}
<1>1. IsWellFoundedOn(LessThan, Nat)
  BY NatLessThanWellFounded DEF OpToRel
<1>2. SUFFICES ASSUME T # {} PROVE FALSE
  OBVIOUS
<1>3. PICK m \in T : \A n \in T : ~ (<<n, m>> \in LessThan)
  <2>1. T \subseteq Nat
    OBVIOUS
  <2> HIDE DEF LessThan, T
  <2>2. QED
    BY <1>1, <1>2, <2>1, WFMin
<1>4. m \in Nat /\ m # 0 /\ m - 1 \in Nat /\ (m - 1) + 1 = m
  OBVIOUS
<1>5. m - 1 \notin S
  BY <1>4
<1>6. m - 1 \in T /\ <<m - 1, m>> \in LessThan
  BY <1>4, <1>5
<1>7. QED
  BY <1>3, <1>6

-----------------------------------------------------------------------------
(* Shapes *)

LEMMA PointsTyped ==
    ASSUME NEW p \in Points
    PROVE  p[1] \in Int /\ p[2] \in Int /\ p = <<p[1], p[2]>>
<1> DEFINE b == (Int32Max + 1) * (Int32Max + 1)
<1>1. b \in Int
  BY GeometryShapesAssumption
<1>2. Coordinates = -b .. b - 1
  BY DEF Coordinates
<1> HIDE DEF b
<1>3. Coordinates \subseteq Int
  BY <1>1, <1>2
<1>4. p \in Coordinates \X Coordinates
  BY GeometryShapesAssumption
<1>5. PICK c \in Coordinates, d \in Coordinates : p = <<c, d>>
  BY <1>4
<1>6. QED
  BY <1>3, <1>5

(* 32 bits are kept of a number, and all of one of 32 bits.                *)
LEMMA KeptTyped ==
    ASSUME NEW v \in Int
    PROVE  Kept(v) \in Int32 /\ (v \in Int32 => Kept(v) = v)
<1> DEFINE m == 2 * Int32Max + 2
           w == v + Int32Max + 1
<1>1. Int32Max \in Nat
  BY GeometryShapesAssumption
<1>2. m \in Nat /\ m > 0 /\ w \in Int
  BY <1>1
<1>3. Kept(v) = (w % m) - Int32Max - 1
  BY DEF Kept
<1>4. w % m \in 0 .. m - 1 /\ (w \in 0 .. m - 1 => w % m = w)
  <2> HIDE DEF m, w
  <2>1. QED
    BY <1>2
<1> DEFINE q == w % m
<1>5. q \in 0 .. m - 1 /\ (w \in 0 .. m - 1 => q = w) /\ Kept(v) = q - Int32Max - 1
  BY <1>3, <1>4
<1> HIDE DEF q
<1>6. QED
  BY <1>1, <1>5 DEF Int32

LEMMA ShapeTyped ==
    ASSUME NEW s \in Shapes
    PROVE  /\ s.type \in {"POINT", "LINE", "POLYGON"}
           /\ s.paths \in Seq(Seq(Points))
           /\ s.type # "POLYGON" => Len(s.paths) = 1 /\ s.paths[1] \in Seq(Points)
           /\ s.type = "POINT" => Len(s.paths[1]) = 1
<1>1. Paths \subseteq Seq(Points)
  BY DEF Paths, BoundedSeq, SeqOf
<1>2. BoundedSeq(Paths, MaxRings) \subseteq Seq(Paths)
  BY DEF BoundedSeq, SeqOf
<1>3. Seq(Paths) \subseteq Seq(Seq(Points))
  BY <1>1
<1>4. CASE s \in [type : {"POINT"}, paths : {<< <<p>> >> : p \in Points \cap (Int32 \X Int32)}]
  <2>1. PICK p \in Points : s.paths = << <<p>> >> /\ s.type = "POINT"
    BY <1>4
  <2>2. <<p>> \in Seq(Points) /\ Len(<<p>>) = 1
    OBVIOUS
  <2>3. QED
    BY <2>1, <2>2
<1>5. CASE s \in [type : {"LINE"}, paths : {<<p>> : p \in Paths}]
  <2>1. PICK p \in Paths : s.paths = <<p>> /\ s.type = "LINE"
    BY <1>5
  <2>2. p \in Seq(Points)
    BY <1>1
  <2>3. <<p>> \in Seq(Seq(Points)) /\ Len(<<p>>) = 1 /\ <<p>>[1] = p
    BY <2>2
  <2>4. QED
    BY <2>1, <2>2, <2>3
<1>6. CASE s \in [type : {"POLYGON"}, paths : BoundedSeq(Paths, MaxRings)]
  BY <1>2, <1>3, <1>6
<1>7. QED
  BY <1>4, <1>5, <1>6 DEF Shapes

-----------------------------------------------------------------------------
(* The encoding *)

LEMMA PathCells ==
    ASSUME NEW path \in Seq(Points)
    PROVE  /\ Path(path) \in Seq(Int)
           /\ Len(Path(path)) = 2 * Len(path) + 1
           /\ Path(path)[1] = Len(path)
           /\ \A k \in DOMAIN path : /\ Path(path)[2 * k] = Distance(path, k, 1)
                                     /\ Path(path)[2 * k + 1] = Distance(path, k, 2)
<1>1. Len(path) \in Nat /\ DOMAIN path = 1 .. Len(path)
  OBVIOUS
<1> DEFINE Cell(c) == IF c = 1 THEN Len(path) ELSE Distance(path, c \div 2, 1 + (c % 2))
<1>2. ASSUME NEW c \in 1 .. 2 * Len(path) + 1
      PROVE  Cell(c) \in Int
  <2>1. CASE c = 1
    BY <1>1, <2>1
  <2>2. CASE c # 1
    <3> DEFINE k == c \div 2
               axis == 1 + (c % 2)
    <3>1. k \in 1 .. Len(path) /\ axis \in {1, 2}
      BY <1>1, <2>2
    <3> HIDE DEF k, axis
    <3>2. path[k] \in Points /\ (k # 1 => path[k - 1] \in Points)
      BY <1>1, <3>1
    <3>3. path[k][axis] \in Int /\ (k # 1 => path[k - 1][axis] \in Int)
      BY <3>1, <3>2, PointsTyped
    <3>4. Distance(path, k, axis) \in Int
      BY <3>3 DEF Distance
    <3>5. QED
      BY <2>2, <3>4 DEF k, axis
  <2>3. QED
    BY <2>1, <2>2
<1>3. Path(path) = [c \in 1 .. 2 * Len(path) + 1 |-> Cell(c)]
  BY DEF Path
<1>4. ASSUME NEW k \in DOMAIN path
      PROVE  Cell(2 * k) = Distance(path, k, 1) /\ Cell(2 * k + 1) = Distance(path, k, 2)
  <2>1. /\ 2 * k # 1 /\ (2 * k) \div 2 = k /\ (2 * k) % 2 = 0
        /\ 2 * k + 1 # 1 /\ (2 * k + 1) \div 2 = k /\ (2 * k + 1) % 2 = 1
    BY <1>1
  <2>2. QED
    BY <2>1
<1> HIDE DEF Cell
<1>5. Cell(1) = Len(path)
  BY DEF Cell
<1>6. \A k \in DOMAIN path : 2 * k \in 1 .. 2 * Len(path) + 1
                             /\ 2 * k + 1 \in 1 .. 2 * Len(path) + 1
  BY <1>1
<1>7. Path(path) \in Seq(Int) /\ Len(Path(path)) = 2 * Len(path) + 1
  BY <1>1, <1>2, <1>3
<1>8. QED
  BY <1>1, <1>3, <1>4, <1>5, <1>6, <1>7

LEMMA RingsUnfold ==
    ASSUME NEW paths \in Seq(Seq(Points))
    PROVE  /\ RingsTo(paths)[0] = <<Len(paths)>>
           /\ \A n \in 1 .. Len(paths) :
                 RingsTo(paths)[n] = RingsTo(paths)[n - 1] \o Path(paths[n])
<1> DEFINE N == Len(paths)
           IsTo(f, n) == f = [k \in 0 .. n |-> IF k = 0 THEN <<N>>
                                               ELSE f[k - 1] \o Path(paths[k])]
           S == {n \in Nat : \E f : IsTo(f, n)}
<1>1. N \in Nat
  OBVIOUS
<1> HIDE DEF N
<1>2. 0 \in S
  <2> DEFINE f == [k \in 0 .. 0 |-> <<N>>]
  <2>1. IsTo(f, 0)
    OBVIOUS
  <2>2. QED
    BY <2>1
<1>3. ASSUME NEW n \in Nat, n \in S
      PROVE  n + 1 \in S
  <2>1. PICK f : IsTo(f, n)
    BY <1>3
  <2> DEFINE g == [k \in 0 .. n + 1 |-> IF k = n + 1 THEN f[n] \o Path(paths[n + 1]) ELSE f[k]]
  <2>2. \A k \in 0 .. n : f[k] = IF k = 0 THEN <<N>> ELSE f[k - 1] \o Path(paths[k])
    BY <2>1, Zenon
  <2>3. ASSUME NEW k \in 0 .. n + 1
        PROVE  g[k] = IF k = 0 THEN <<N>> ELSE g[k - 1] \o Path(paths[k])
    <3>1. CASE k = n + 1
      <4>1. k - 1 = n /\ n \in 0 .. n + 1 /\ n # n + 1 /\ k # 0
        BY <3>1
      <4>2. g[n] = f[n] /\ g[k] = f[n] \o Path(paths[n + 1])
        BY <3>1, <4>1
      <4>3. QED
        BY <3>1, <4>1, <4>2, Zenon
    <3>2. CASE k # n + 1
      <4>1. /\ k \in 0 .. n
            /\ k # 0 => k - 1 \in 0 .. n + 1 /\ k - 1 # n + 1
        BY <3>2
      <4>2. g[k] = f[k] /\ (k # 0 => g[k - 1] = f[k - 1])
        BY <3>2, <4>1
      <4>3. QED
        BY <2>2, <4>1, <4>2, Zenon
    <3>3. QED
      BY <3>1, <3>2
  <2>4. g = [k \in 0 .. n + 1 |-> IF k = 0 THEN <<N>> ELSE g[k - 1] \o Path(paths[k])]
    <3>1. \A k \in 0 .. n + 1 :
             (IF k = n + 1 THEN f[n] \o Path(paths[n + 1]) ELSE f[k]) = g[k]
      OBVIOUS
    <3>2. QED
      BY <2>3, <3>1, Zenon
  <2> HIDE DEF g
  <2>5. IsTo(g, n + 1)
    BY <2>4, Zenon
  <2> HIDE DEF IsTo
  <2>6. n + 1 \in Nat
    OBVIOUS
  <2>7. QED
    BY <2>5, <2>6
<1>4. \A n \in Nat : n \in S
  <2> HIDE DEF S
  <2>1. QED
    BY <1>2, <1>3, SetInduction
<1>5. \E f : IsTo(f, N)
  BY <1>1, <1>4
<1>6. IsTo(RingsTo(paths), N)
  BY <1>5, Zenon DEF RingsTo, N
<1>7. \A k \in 0 .. N : RingsTo(paths)[k] = IF k = 0 THEN <<N>>
                                    ELSE RingsTo(paths)[k - 1] \o Path(paths[k])
  BY <1>6, Zenon
<1>8. 0 \in 0 .. N /\ \A n \in 1 .. N : n \in 0 .. N /\ n # 0
  BY <1>1
<1>9. QED
  BY <1>7, <1>8, Zenon DEF N

(* Ring by ring the body grows, and keeps what it has. *)
LEMMA RingsGrow ==
    ASSUME NEW paths \in Seq(Seq(Points)), NEW n \in Nat
    PROVE  n <= Len(paths) =>
             /\ RingsTo(paths)[n] \in Seq(Int)
             /\ Len(RingsTo(paths)[n]) >= 1
             /\ RingsTo(paths)[n][1] = Len(paths)
<1> DEFINE R == RingsTo(paths)
           S == {k \in Nat : k <= Len(paths) =>
                    R[k] \in Seq(Int) /\ Len(R[k]) >= 1 /\ R[k][1] = Len(paths)}
<1>1. 0 \in S
  <2> DEFINE N == Len(paths)
  <2>1. N \in Nat
    OBVIOUS
  <2>2. R[0] = <<N>>
    BY RingsUnfold, Zenon
  <2> HIDE DEF N, R
  <2>3. R[0] \in Seq(Int) /\ Len(R[0]) >= 1 /\ R[0][1] = N
    BY <2>1, <2>2
  <2>4. QED
    BY <2>3 DEF N
<1>2. ASSUME NEW k \in Nat, k \in S
      PROVE  k + 1 \in S
  <2> SUFFICES ASSUME k + 1 <= Len(paths)
               PROVE  R[k + 1] \in Seq(Int) /\ Len(R[k + 1]) >= 1 /\ R[k + 1][1] = Len(paths)
    OBVIOUS
  <2>1. k + 1 \in 1 .. Len(paths) /\ (k + 1) - 1 = k /\ k <= Len(paths)
    OBVIOUS
  <2>2. R[k + 1] = R[k] \o Path(paths[k + 1]) /\ paths[k + 1] \in Seq(Points)
    <3>1. paths[k + 1] \in Seq(Points)
      BY <2>1
    <3>2. R[k + 1] = R[(k + 1) - 1] \o Path(paths[k + 1])
      BY <2>1, RingsUnfold, Zenon
    <3>3. QED
      BY <2>1, <3>1, <3>2, Zenon
  <2>3. Path(paths[k + 1]) \in Seq(Int)
    BY <2>2, PathCells
  <2> DEFINE r == R[k]
             p == Path(paths[k + 1])
  <2>4. r \in Seq(Int) /\ Len(r) >= 1 /\ r[1] = Len(paths)
    BY <1>2, <2>1
  <2> HIDE DEF r, p, R
  <2>5. p \in Seq(Int)
    BY <2>3 DEF p
  <2>6. r \o p \in Seq(Int) /\ Len(r \o p) >= 1 /\ (r \o p)[1] = Len(paths)
    BY <2>4, <2>5
  <2>7. QED
    BY <2>2, <2>6 DEF r, p
<1>3. \A k \in Nat : k \in S
  <2> HIDE DEF S
  <2>1. QED
    BY <1>1, <1>2, SetInduction
<1>4. QED
  BY <1>3

LEMMA ConcatCells ==
    ASSUME NEW r \in Seq(Int), NEW p \in Seq(Int)
    PROVE  /\ Len(r \o p) = Len(r) + Len(p)
           /\ \A c \in 1 .. Len(p) : (r \o p)[Len(r) + c] = p[c]
           /\ \A c \in 1 .. Len(r) : (r \o p)[c] = r[c]
<1> DEFINE l == Len(r)
           m == Len(p)
<1>1. l \in Nat /\ m \in Nat
  OBVIOUS
<1>2. /\ Len(r \o p) = l + m
      /\ \A i \in 1 .. l + m : (r \o p)[i] = IF i <= l THEN r[i] ELSE p[i - l]
  BY ConcatProperties
<1> HIDE DEF l, m
<1>3. \A c \in 1 .. m : l + c \in 1 .. l + m /\ ~ (l + c <= l) /\ (l + c) - l = c
  BY <1>1
<1>4. \A c \in 1 .. l : c \in 1 .. l + m /\ c <= l
  BY <1>1
<1>5. /\ \A c \in 1 .. m : (r \o p)[l + c] = p[c]
      /\ \A c \in 1 .. l : (r \o p)[c] = r[c]
  BY <1>2, <1>3, <1>4, Zenon
<1>6. QED
  BY <1>2, <1>5 DEF l, m

LEMMA RingLength ==
    ASSUME NEW paths \in Seq(Seq(Points)), NEW n \in 1 .. Len(paths)
    PROVE  /\ paths[n] \in Seq(Points)
           /\ Len(RingsTo(paths)[n]) = Len(RingsTo(paths)[n - 1]) + 2 * Len(paths[n]) + 1
           /\ \A c \in 1 .. 2 * Len(paths[n]) + 1 :
                RingsTo(paths)[n][Len(RingsTo(paths)[n - 1]) + c] = Path(paths[n])[c]
           /\ \A c \in 1 .. Len(RingsTo(paths)[n - 1]) :
                RingsTo(paths)[n][c] = RingsTo(paths)[n - 1][c]
<1> DEFINE r == RingsTo(paths)[n - 1]
           p == Path(paths[n])
<1>1. paths[n] \in Seq(Points) /\ n \in Nat /\ n - 1 \in Nat /\ n - 1 <= Len(paths)
  OBVIOUS
<1>2. p \in Seq(Int) /\ Len(p) = 2 * Len(paths[n]) + 1
  BY <1>1, PathCells
<1>3. r \in Seq(Int)
  BY <1>1, RingsGrow
<1>4. RingsTo(paths)[n] = r \o p
  BY RingsUnfold
<1> HIDE DEF r, p
<1>5. /\ Len(r \o p) = Len(r) + Len(p)
      /\ \A c \in 1 .. Len(p) : (r \o p)[Len(r) + c] = p[c]
      /\ \A c \in 1 .. Len(r) : (r \o p)[c] = r[c]
  BY <1>2, <1>3, ConcatCells
<1>6. Len(RingsTo(paths)[n]) = Len(r) + (2 * Len(paths[n]) + 1)
  BY <1>2, <1>4, <1>5, Zenon
<1>7. Len(r) + (2 * Len(paths[n]) + 1) = Len(r) + 2 * Len(paths[n]) + 1
  <2>1. Len(r) \in Nat /\ Len(paths[n]) \in Nat
    BY <1>1, <1>3
  <2>2. QED
    BY <2>1
<1>8. QED
  BY <1>1, <1>2, <1>4, <1>5, <1>6, <1>7, Zenon DEF r, p

LEMMA RingsKeep ==
    ASSUME NEW paths \in Seq(Seq(Points)), NEW n \in 0 .. Len(paths), NEW m \in Nat
    PROVE  n + m <= Len(paths) =>
             /\ Len(RingsTo(paths)[n]) <= Len(RingsTo(paths)[n + m])
             /\ \A c \in 1 .. Len(RingsTo(paths)[n]) :
                   RingsTo(paths)[n + m][c] = RingsTo(paths)[n][c]
<1> DEFINE R == RingsTo(paths)
           Keeps(k) == /\ Len(R[n]) <= Len(R[n + k])
                       /\ \A c \in 1 .. Len(R[n]) : R[n + k][c] = R[n][c]
           S == {k \in Nat : n + k <= Len(paths) => Keeps(k)}
<1>0. n \in Nat /\ n <= Len(paths)
  OBVIOUS
<1>1. R[n] \in Seq(Int)
  BY <1>0, RingsGrow, Zenon
<1>2. 0 \in S
  <2>1. n + 0 = n /\ Len(R[n]) \in Nat
    BY <1>1
  <2> HIDE DEF R
  <2>2. QED
    BY <2>1
<1>3. ASSUME NEW k \in Nat, k \in S
      PROVE  k + 1 \in S
  <2> SUFFICES ASSUME n + (k + 1) <= Len(paths) PROVE Keeps(k + 1)
    <3> HIDE DEF Keeps
    <3>1. QED
      OBVIOUS
  <2>1. /\ n + (k + 1) \in 1 .. Len(paths) /\ (n + (k + 1)) - 1 = n + k
        /\ n + k \in Nat /\ n + k <= Len(paths)
    OBVIOUS
  <2>2. Keeps(k)
    BY <1>3, <2>1
  <2>3. R[n + k] \in Seq(Int) /\ paths[n + (k + 1)] \in Seq(Points)
    <3>1. R[n + k] \in Seq(Int)
      BY <2>1, RingsGrow, Zenon
    <3>2. paths[n + (k + 1)] \in Seq(Points)
      BY <2>1
    <3>3. QED
      BY <3>1, <3>2
  <2>4. /\ Len(R[n + (k + 1)]) = Len(R[n + k]) + 2 * Len(paths[n + (k + 1)]) + 1
        /\ \A c \in 1 .. Len(R[n + k]) : R[n + (k + 1)][c] = R[n + k][c]
    <3> DEFINE m1 == n + (k + 1)
    <3>1. /\ Len(R[m1]) = Len(R[m1 - 1]) + 2 * Len(paths[m1]) + 1
          /\ \A c \in 1 .. Len(R[m1 - 1]) : R[m1][c] = R[m1 - 1][c]
      BY <2>1, RingLength, Zenon
    <3>2. QED
      BY <2>1, <3>1, Zenon
  <2> HIDE DEF R
  <2>5. Len(R[n]) \in Nat /\ Len(R[n + k]) \in Nat /\ Len(paths[n + (k + 1)]) \in Nat
    BY <1>1, <2>3
  <2>6. \A c \in 1 .. Len(R[n]) : c \in 1 .. Len(R[n + k])
    BY <2>2, <2>5
  <2>7. Len(R[n]) <= Len(R[n + (k + 1)])
    <3> DEFINE a == Len(R[n])
               b == Len(R[n + k])
               d == Len(paths[n + (k + 1)])
    <3>1. a <= b /\ a \in Nat /\ b \in Nat /\ d \in Nat
      BY <2>2, <2>5, Zenon
    <3>2. Len(R[n + (k + 1)]) = b + 2 * d + 1
      BY <2>4
    <3> HIDE DEF a, b, d
    <3>3. a <= b + 2 * d + 1
      BY <3>1
    <3>4. QED
      BY <3>2, <3>3 DEF a
  <2>8. \A c \in 1 .. Len(R[n]) : R[n + (k + 1)][c] = R[n][c]
    BY <2>2, <2>4, <2>6, Zenon
  <2>9. QED
    BY <2>7, <2>8, Zenon
<1>4. \A k \in Nat : k \in S
  <2> HIDE DEF S
  <2>1. QED
    BY <1>2, <1>3, SetInduction
<1>5. QED
  BY <1>4

(* Where the cells of a path lie *)
LEMMA BodyOfLine ==
    ASSUME NEW s \in Shapes, s.type = "LINE"
    PROVE  /\ Body(s) = Path(s.paths[1])
           /\ Offset(s, 1) = 0
           /\ Len(s.paths) = 1 /\ s.paths[1] \in Seq(Points)
           /\ Len(Body(s)) = 2 * Len(s.paths[1]) + 1
<1>1. Body(s) = Path(s.paths[1])
  BY DEF Body
<1>2. QED
  BY <1>1, ShapeTyped, PathCells DEF Offset

LEMMA BodyOfPolygon ==
    ASSUME NEW s \in Shapes, s.type = "POLYGON"
    PROVE  /\ Body(s)[1] = Len(s.paths)
           /\ Offset(s, 1) = 1
           /\ Offset(s, Len(s.paths) + 1) = Len(Body(s))
           /\ Len(Body(s)) \in Nat
           /\ \A n \in 1 .. Len(s.paths) :
                 /\ Offset(s, n) \in Nat
                 /\ s.paths[n] \in Seq(Points)
                 /\ Offset(s, n + 1) = Offset(s, n) + 2 * Len(s.paths[n]) + 1
                 /\ Offset(s, n + 1) <= Len(Body(s))
                 /\ \A c \in 1 .. 2 * Len(s.paths[n]) + 1 :
                       Body(s)[Offset(s, n) + c] = Path(s.paths[n])[c]
<1> DEFINE N == Len(s.paths)
           R == RingsTo(s.paths)
<1>1. s.paths \in Seq(Seq(Points)) /\ N \in Nat
  BY ShapeTyped
<1>2. Body(s) = R[N]
  BY DEF Body
<1>3. /\ R[N] \in Seq(Int) /\ R[N][1] = N /\ Len(R[N]) \in Nat
  <2>1. N <= N
    BY <1>1
  <2>2. R[N] \in Seq(Int) /\ R[N][1] = N
    BY <1>1, <2>1, RingsGrow, Zenon
  <2>3. QED
    BY <2>2
<1>4. \A n \in Int : Offset(s, n) = Len(R[n - 1])
  BY DEF Offset
<1>5. Offset(s, 1) = 1
  <2>1. R[0] = <<N>>
    BY <1>1, RingsUnfold, Zenon
  <2>2. Len(<<N>>) = 1 /\ 1 - 1 = 0 /\ 1 \in Int
    OBVIOUS
  <2>3. QED
    BY <1>4, <2>1, <2>2, Zenon
<1>6. N + 1 \in Int /\ (N + 1) - 1 = N
  BY <1>1
<1>7. ASSUME NEW n \in 1 .. N
      PROVE  /\ Offset(s, n) \in Nat
             /\ s.paths[n] \in Seq(Points)
             /\ Offset(s, n + 1) = Offset(s, n) + 2 * Len(s.paths[n]) + 1
             /\ Offset(s, n + 1) <= Len(R[N])
             /\ \A c \in 1 .. 2 * Len(s.paths[n]) + 1 :
                   R[N][Offset(s, n) + c] = Path(s.paths[n])[c]
  <2>1. /\ n \in Int /\ n + 1 \in Int /\ (n + 1) - 1 = n
        /\ n - 1 \in Nat /\ n - 1 <= N /\ n \in 0 .. N /\ N - n \in Nat /\ n + (N - n) = N
    BY <1>1
  <2>2. Offset(s, n) = Len(R[n - 1]) /\ Offset(s, n + 1) = Len(R[n])
    BY <1>4, <2>1
  <2>3. R[n - 1] \in Seq(Int)
    BY <1>1, <2>1, RingsGrow, Zenon
  <2>4. /\ Len(R[n]) <= Len(R[N])
        /\ \A c \in 1 .. Len(R[n]) : R[N][c] = R[n][c]
    <3>1. n + (N - n) <= N
      BY <1>1, <2>1
    <3>2. /\ Len(R[n]) <= Len(R[n + (N - n)])
          /\ \A c \in 1 .. Len(R[n]) : R[n + (N - n)][c] = R[n][c]
      BY <1>1, <2>1, <3>1, RingsKeep, Zenon
    <3>3. QED
      BY <2>1, <3>2, Zenon
  <2>5. /\ s.paths[n] \in Seq(Points)
        /\ Len(R[n]) = Len(R[n - 1]) + 2 * Len(s.paths[n]) + 1
        /\ \A c \in 1 .. 2 * Len(s.paths[n]) + 1 :
              R[n][Len(R[n - 1]) + c] = Path(s.paths[n])[c]
    BY <1>1, RingLength, Zenon
  <2> HIDE DEF R, N
  <2>6. Len(R[n - 1]) \in Nat /\ Len(s.paths[n]) \in Nat
    BY <2>3, <2>5
  <2>7. \A c \in 1 .. 2 * Len(s.paths[n]) + 1 : Len(R[n - 1]) + c \in 1 .. Len(R[n])
    <3> DEFINE l == Len(R[n - 1])
               m == Len(s.paths[n])
    <3>1. Len(R[n]) = l + 2 * m + 1 /\ l \in Nat /\ m \in Nat
      BY <2>5, <2>6
    <3> HIDE DEF l, m
    <3>2. \A c \in 1 .. 2 * m + 1 : l + c \in 1 .. l + 2 * m + 1
      BY <3>1
    <3>3. QED
      BY <3>1, <3>2 DEF l, m
  <2>8. QED
    BY <2>2, <2>4, <2>5, <2>6, <2>7, Zenon
<1> HIDE DEF R, N
<1>8. Offset(s, N + 1) = Len(R[N])
  BY <1>4, <1>6
<1>9. QED
  BY <1>2, <1>3, <1>5, <1>7, <1>8 DEF N

(* For lines and polygons alike: what a walk finds at its position *)
LEMMA CellsOfPath ==
    ASSUME NEW s \in Shapes, s.type # "POINT", NEW n \in 1 .. Len(s.paths)
    PROVE  /\ s.paths[n] \in Seq(Points)
           /\ Len(s.paths[n]) \in Nat
           /\ Offset(s, n) \in Nat /\ Len(Body(s)) \in Nat
           /\ Offset(s, n) + 2 * Len(s.paths[n]) + 1 <= Len(Body(s))
           /\ Body(s)[Offset(s, n) + 1] = Len(s.paths[n])
           /\ \A k \in 1 .. Len(s.paths[n]) :
                 /\ Body(s)[Offset(s, n) + 2 * k] = Distance(s.paths[n], k, 1)
                 /\ Body(s)[Offset(s, n) + 2 * k + 1] = Distance(s.paths[n], k, 2)
<1> DEFINE path == s.paths[n]
<1>1. s.type \in {"LINE", "POLYGON"} /\ s.paths \in Seq(Seq(Points))
  BY ShapeTyped
<1>2. path \in Seq(Points) /\ Len(path) \in Nat /\ DOMAIN path = 1 .. Len(path)
  BY <1>1
<1>3. /\ Path(path)[1] = Len(path)
      /\ \A k \in 1 .. Len(path) : /\ Path(path)[2 * k] = Distance(path, k, 1)
                                   /\ Path(path)[2 * k + 1] = Distance(path, k, 2)
  BY <1>2, PathCells
<1>4. /\ Offset(s, n) \in Nat /\ Len(Body(s)) \in Nat
      /\ Offset(s, n) + 2 * Len(path) + 1 <= Len(Body(s))
      /\ \A c \in 1 .. 2 * Len(path) + 1 : Body(s)[Offset(s, n) + c] = Path(path)[c]
  <2>1. CASE s.type = "LINE"
    <3>1. n = 1
      <4>1. Len(s.paths) = 1
        BY <2>1, BodyOfLine
      <4>2. QED
        BY <4>1
    <3>2. Offset(s, n) = 0 /\ Body(s) = Path(path) /\ Len(Body(s)) = 2 * Len(path) + 1
      BY <2>1, <3>1, BodyOfLine
    <3>3. \A c \in 1 .. 2 * Len(path) + 1 : 0 + c = c
      BY <1>2
    <3> HIDE DEF path
    <3>4. QED
      BY <1>2, <3>2, <3>3
  <2>2. CASE s.type = "POLYGON"
    BY <2>2, BodyOfPolygon
  <2>3. QED
    BY <1>1, <2>1, <2>2
<1> HIDE DEF path
<1>5. 1 \in 1 .. 2 * Len(path) + 1
  BY <1>2
<1>6. \A k \in 1 .. Len(path) :
         /\ 2 * k \in 1 .. 2 * Len(path) + 1 /\ 2 * k + 1 \in 1 .. 2 * Len(path) + 1
         /\ Offset(s, n) + 2 * k + 1 = Offset(s, n) + (2 * k + 1)
  BY <1>2, <1>4
<1>7. QED
  BY <1>2, <1>3, <1>4, <1>5, <1>6 DEF path

(* The paths with points *)

LEMMA CountPaths ==
    ASSUME NEW s, NEW n \in Nat
    PROVE  /\ NumWithPoints(s, 0) = 0
           /\ NumWithPoints(s, n) \in Nat
           /\ NumWithPoints(s, n + 1) =
                 IF s.paths[n + 1] = <<>> THEN NumWithPoints(s, n) ELSE NumWithPoints(s, n) + 1
<1> DEFINE W(k) == {i \in 1 .. k : s.paths[i] # <<>>}
<1>1. NumWithPoints(s, 0) = 0
  <2>1. W(0) = {}
    OBVIOUS
  <2>2. QED
    BY <2>1, FS_EmptySet DEF NumWithPoints
<1>2. IsFiniteSet(W(n))
  <2>1. IsFiniteSet(1 .. n) /\ W(n) \subseteq 1 .. n
    BY FS_Interval
  <2>2. QED
    BY <2>1, FS_Subset
<1>3. NumWithPoints(s, n) \in Nat
  BY <1>2, FS_CardinalityType DEF NumWithPoints
<1>4. CASE s.paths[n + 1] = <<>>
  <2>1. W(n + 1) = W(n)
    BY <1>4
  <2>2. QED
    BY <1>1, <1>3, <1>4, <2>1 DEF NumWithPoints
<1>5. CASE s.paths[n + 1] # <<>>
  <2>1. W(n + 1) = W(n) \cup {n + 1} /\ n + 1 \notin W(n)
    BY <1>5
  <2> HIDE DEF W
  <2>2. Cardinality(W(n + 1)) = Cardinality(W(n)) + 1
    BY <1>2, <2>1, FS_AddElement
  <2>3. QED
    BY <1>1, <1>3, <1>5, <2>2 DEF NumWithPoints, W
<1>6. QED
  BY <1>4, <1>5

(* A path with points is counted after those before it. *)
LEMMA CountGrows ==
    ASSUME NEW s, NEW n \in Nat
    PROVE  \A k \in 1 .. n : s.paths[k] # <<>> => NumWithPoints(s, k) \in 1 .. NumWithPoints(s, n)
<1> DEFINE C(k) == NumWithPoints(s, k)
           S == {m \in Nat : \A k \in 1 .. m : s.paths[k] # <<>> => C(k) \in 1 .. C(m)}
<1>1. 0 \in S
  OBVIOUS
<1>2. ASSUME NEW m \in Nat, m \in S
      PROVE  m + 1 \in S
  <2>1. /\ C(m) \in Nat
        /\ C(m + 1) = IF s.paths[m + 1] = <<>> THEN C(m) ELSE C(m) + 1
    BY CountPaths
  <2> HIDE DEF C
  <2>2. C(m + 1) \in Nat /\ C(m) <= C(m + 1)
    BY <2>1
  <2> SUFFICES ASSUME NEW k \in 1 .. m + 1, s.paths[k] # <<>>
               PROVE  C(k) \in 1 .. C(m + 1)
    OBVIOUS
  <2>3. CASE k = m + 1
    BY <2>1, <2>3
  <2>4. CASE k # m + 1
    <3>1. k \in 1 .. m
      BY <2>4
    <3>2. C(k) \in 1 .. C(m)
      BY <1>2, <3>1
    <3>3. QED
      BY <2>1, <2>2, <3>2
  <2>5. QED
    BY <2>3, <2>4
<1>3. \A m \in Nat : m \in S
  <2> HIDE DEF S
  <2>1. QED
    BY <1>1, <1>2, SetInduction
<1>4. QED
  BY <1>3

LEMMA DrawnNone ==
    ASSUME NEW s
    PROVE  Drawn(<<>>, s, 0)
BY CountPaths DEF Drawn

LEMMA DrawnSkip ==
    ASSUME NEW s, NEW n \in Nat, NEW f, Drawn(f, s, n), s.paths[n + 1] = <<>>
    PROVE  Drawn(f, s, n + 1)
<1>1. NumWithPoints(s, n + 1) = NumWithPoints(s, n)
  BY CountPaths
<1>2. \A k \in 1 .. n + 1 : s.paths[k] # <<>> => k \in 1 .. n
  OBVIOUS
<1>3. QED
  BY <1>1, <1>2 DEF Drawn

LEMMA DrawnAppend ==
    ASSUME NEW s, NEW n \in Nat, NEW f \in Seq(Seq(Points)), Drawn(f, s, n),
           s.paths[n + 1] # <<>>, s.paths[n + 1] \in Seq(Points)
    PROVE  Drawn(Append(f, s.paths[n + 1]), s, n + 1)
<1> DEFINE C(k) == NumWithPoints(s, k)
           g == Append(f, s.paths[n + 1])
<1>1. C(n + 1) = C(n) + 1 /\ C(n) \in Nat /\ Len(f) = C(n)
  BY CountPaths DEF Drawn
<1>2. Len(g) = Len(f) + 1 /\ g[Len(f) + 1] = s.paths[n + 1]
      /\ \A i \in 1 .. Len(f) : g[i] = f[i]
  BY AppendProperties
<1>3. \A k \in 1 .. n : s.paths[k] # <<>> => C(k) \in 1 .. Len(f)
  BY <1>1, CountGrows
<1>4. \A k \in 1 .. n : s.paths[k] # <<>> => f[C(k)] = s.paths[k]
  BY DEF Drawn
<1> HIDE DEF C, g
<1>5. ASSUME NEW k \in 1 .. n + 1, s.paths[k] # <<>>
      PROVE  g[C(k)] = s.paths[k]
  <2>1. CASE k = n + 1
    BY <1>1, <1>2, <2>1
  <2>2. CASE k # n + 1
    <3>1. k \in 1 .. n
      BY <2>2
    <3>2. QED
      BY <1>2, <1>3, <1>4, <1>5, <3>1
  <2>3. QED
    BY <2>1, <2>2
<1>6. QED
  BY <1>1, <1>2, <1>5 DEF C, g, Drawn

-----------------------------------------------------------------------------
(* The points read so far *)


LEMMA PointsTypes ==
    ASSUME NEW s, NEW n, NEW k
    PROVE  PointsTo(s, n, k) \subseteq Points
BY DEF PointsTo

(* One point more *)
LEMMA PointsNext ==
    ASSUME NEW s \in Shapes, NEW n \in 1 .. Len(s.paths), NEW k \in 1 .. Len(s.paths[n])
    PROVE  /\ s.paths[n][k] \in Points
           /\ PointsTo(s, n - 1, k) = PointsTo(s, n - 1, k - 1) \cup {s.paths[n][k]}
<1>1. s.paths \in Seq(Seq(Points))
  BY ShapeTyped
<1>2. DOMAIN s.paths = 1 .. Len(s.paths) /\ s.paths[n] \in Seq(Points)
  BY <1>1
<1>3. DOMAIN s.paths[n] = 1 .. Len(s.paths[n]) /\ s.paths[n][k] \in Points
  BY <1>2
<1>4. \A i \in DOMAIN s.paths : \A j \in DOMAIN s.paths[i] :
         (i <= n - 1 \/ (i = n /\ j <= k))
           <=> (i <= n - 1 \/ (i = n /\ j <= k - 1)) \/ (i = n /\ j = k)
  <2> SUFFICES ASSUME NEW i \in 1 .. Len(s.paths), NEW j \in DOMAIN s.paths[i]
               PROVE  (i <= n - 1 \/ (i = n /\ j <= k))
           <=> (i <= n - 1 \/ (i = n /\ j <= k - 1)) \/ (i = n /\ j = k)
    BY <1>2
  <2>1. s.paths[i] \in Seq(Points)
    BY <1>1
  <2>2. j \in Nat
    BY <2>1
  <2>3. QED
    BY <2>2
<1>5. QED
  BY <1>2, <1>3, <1>4 DEF PointsTo

(* The whole path *)
LEMMA PointsOfPath ==
    ASSUME NEW s \in Shapes, NEW n \in 1 .. Len(s.paths)
    PROVE  PointsTo(s, n - 1, Len(s.paths[n])) = PointsTo(s, n, 0)
<1>1. s.paths \in Seq(Seq(Points))
  BY ShapeTyped
<1>2. DOMAIN s.paths = 1 .. Len(s.paths) /\ s.paths[n] \in Seq(Points)
  BY <1>1
<1>3. \A i \in DOMAIN s.paths : \A j \in DOMAIN s.paths[i] :
         (i <= n - 1 \/ (i = n /\ j <= Len(s.paths[n])))
           <=> (i <= n \/ (i = n + 1 /\ j <= 0))
  <2> SUFFICES ASSUME NEW i \in 1 .. Len(s.paths), NEW j \in DOMAIN s.paths[i]
               PROVE  (i <= n - 1 \/ (i = n /\ j <= Len(s.paths[n])))
                        <=> (i <= n \/ (i = n + 1 /\ j <= 0))
    BY <1>2
  <2>1. s.paths[i] \in Seq(Points)
    BY <1>1
  <2>2. j \in 1 .. Len(s.paths[i]) /\ Len(s.paths[n]) \in Nat /\ Len(s.paths[i]) \in Nat
    BY <1>2, <2>1
  <2>3. QED
    BY <2>2
<1>4. QED
  BY <1>3 DEF PointsTo

(* None, and all *)
LEMMA PointsEnds ==
    ASSUME NEW s \in Shapes
    PROVE  /\ PointsTo(s, 0, 0) = {}
           /\ PointsTo(s, Len(s.paths), 0) = PointsOf(s)
<1>1. s.paths \in Seq(Seq(Points))
  BY ShapeTyped
<1>2. DOMAIN s.paths = 1 .. Len(s.paths) /\ Len(s.paths) \in Nat
  BY <1>1
<1>3. \A i \in DOMAIN s.paths : \A j \in DOMAIN s.paths[i] : s.paths[i][j] \in Points
  <2> SUFFICES ASSUME NEW i \in 1 .. Len(s.paths), NEW j \in DOMAIN s.paths[i]
               PROVE  s.paths[i][j] \in Points
    BY <1>2
  <2>1. s.paths[i] \in Seq(Points)
    BY <1>1
  <2>2. QED
    BY <2>1
<1>4. \A i \in DOMAIN s.paths : \A j \in DOMAIN s.paths[i] :
         ~ (i <= 0 \/ (i = 0 + 1 /\ j <= 0))
  <2> SUFFICES ASSUME NEW i \in 1 .. Len(s.paths), NEW j \in DOMAIN s.paths[i]
               PROVE  ~ (i <= 0 \/ (i = 0 + 1 /\ j <= 0))
    BY <1>2
  <2>1. s.paths[i] \in Seq(Points)
    BY <1>1
  <2>2. j \in Nat /\ j > 0
    BY <2>1
  <2>3. QED
    BY <2>2
<1>5. \A i \in DOMAIN s.paths : i <= Len(s.paths)
  BY <1>2
<1>6. PointsTo(s, 0, 0) = {}
  BY <1>4 DEF PointsTo
<1>7. PointsTo(s, Len(s.paths), 0) = PointsOf(s)
  <2>1. \A p : p \in PointsOf(s)
                <=> \E i \in DOMAIN s.paths : \E j \in DOMAIN s.paths[i] : p = s.paths[i][j]
    <3>1. \A i \in DOMAIN s.paths : \A p :
             p \in ToSet(s.paths[i]) <=> \E j \in DOMAIN s.paths[i] : p = s.paths[i][j]
      BY DEF ToSet
    <3>2. \A p : p \in PointsOf(s) <=> \E i \in DOMAIN s.paths : p \in ToSet(s.paths[i])
      BY DEF PointsOf
    <3>3. ASSUME NEW p, p \in PointsOf(s)
          PROVE  \E i \in DOMAIN s.paths : \E j \in DOMAIN s.paths[i] : p = s.paths[i][j]
      <4>1. PICK i \in DOMAIN s.paths : p \in ToSet(s.paths[i])
        BY <3>2, <3>3
      <4>2. \E j \in DOMAIN s.paths[i] : p = s.paths[i][j]
        BY <3>1, <4>1
      <4>3. QED
        BY <4>2
    <3>4. ASSUME NEW i \in DOMAIN s.paths, NEW j \in DOMAIN s.paths[i]
          PROVE  s.paths[i][j] \in PointsOf(s)
      <4>1. s.paths[i][j] \in ToSet(s.paths[i])
        BY DEF ToSet
      <4>2. QED
        BY <3>2, <4>1
    <3>5. QED
      BY <3>3, <3>4
  <2>2. \A p : p \in PointsTo(s, Len(s.paths), 0)
                <=> \E i \in DOMAIN s.paths : \E j \in DOMAIN s.paths[i] : p = s.paths[i][j]
    BY <1>3, <1>5 DEF PointsTo
  <2>3. QED
    BY <2>1, <2>2
<1>8. QED
  BY <1>6, <1>7

-----------------------------------------------------------------------------
(* Boxes *)

LEMMA TightStart == Tight(EmptyEnvelope, {})
BY DEF Tight

LEMMA TightAdd ==
    ASSUME NEW S \in SUBSET Points, NEW e, Tight(e, S), NEW p \in Points
    PROVE  Tight(add(e, Kept(p[1]), Kept(p[2])), S \cup {p})
<1> DEFINE px == Kept(p[1])
           py == Kept(p[2])
           a == add(e, px, py)
           T == S \cup {p}
<1>0. \A q \in Points : Kept(q[1]) \in Int /\ Kept(q[2]) \in Int
  BY PointsTyped, KeptTyped, GeometryShapesAssumption DEF Int32
<1>1. px \in Int /\ py \in Int /\ \A q \in S : Kept(q[1]) \in Int /\ Kept(q[2]) \in Int
  BY <1>0
<1>2. CASE S = {}
  <2>1. a = [xMin |-> px, xMax |-> px, yMin |-> py, yMax |-> py]
    BY <1>2 DEF Tight, add, isValid, EmptyEnvelope
  <2>2. T = {p}
    BY <1>2
  <2> HIDE DEF a, T
  <2>3. QED
    BY <1>1, <2>1, <2>2 DEF Tight, EnvelopeType, Holds, a, T
<1>3. CASE S # {}
  <2>1. /\ e \in EnvelopeType
        /\ \A q \in S : Holds(e, Kept(q[1]), Kept(q[2]))
    BY <1>3 DEF Tight
  <2>2. isValid(e)
    BY <1>1, <1>3, <2>1 DEF EnvelopeType, Holds, isValid
  <2>3. a = [xMin |-> Smaller(e.xMin, px), xMax |-> Larger(e.xMax, px),
             yMin |-> Smaller(e.yMin, py), yMax |-> Larger(e.yMax, py)]
    BY <2>2 DEF add
  <2>4. a \in EnvelopeType
    BY <1>1, <2>1, <2>3 DEF EnvelopeType, Smaller, Larger
  <2>5. /\ a.xMin = Smaller(e.xMin, px) /\ a.xMax = Larger(e.xMax, px)
        /\ a.yMin = Smaller(e.yMin, py) /\ a.yMax = Larger(e.yMax, py)
    BY <2>3
  <2> HIDE DEF a
  <2>6. \A q \in T : Holds(a, Kept(q[1]), Kept(q[2]))
    BY <1>1, <2>1, <2>5 DEF EnvelopeType, Holds, Smaller, Larger
  <2>7. \E q \in T : Kept(q[1]) = a.xMin
    BY <1>3, <2>5 DEF Tight, Smaller
  <2>8. \E q \in T : Kept(q[1]) = a.xMax
    BY <1>3, <2>5 DEF Tight, Larger
  <2>9. \E q \in T : Kept(q[2]) = a.yMin
    BY <1>3, <2>5 DEF Tight, Smaller
  <2>10. \E q \in T : Kept(q[2]) = a.yMax
    BY <1>3, <2>5 DEF Tight, Larger
  <2>11. T # {}
    OBVIOUS
  <2> HIDE DEF T
  <2>12. Tight(a, T)
    BY <2>4, <2>6, <2>7, <2>8, <2>9, <2>10, <2>11 DEF Tight
  <2>13. QED
    BY <2>12 DEF a, T
<1>4. QED
  BY <1>2, <1>3

LEMMA LeastIsMin ==
    ASSUME NEW S \in SUBSET Int, NEW m \in S, \A n \in S : m <= n
    PROVE  Min(S) = m
<1>1. \A a \in S : (\A b \in S : a <= b) => a = m
  OBVIOUS
<1>2. m \in S /\ \A b \in S : m <= b
  OBVIOUS
<1>3. QED
  BY <1>1, <1>2, Zenon DEF Min

LEMMA GreatestIsMax ==
    ASSUME NEW S \in SUBSET Int, NEW m \in S, \A n \in S : n <= m
    PROVE  Max(S) = m
<1>1. \A a \in S : (\A b \in S : a >= b) => a = m
  OBVIOUS
<1>2. m \in S /\ \A b \in S : m >= b
  OBVIOUS
<1>3. QED
  BY <1>1, <1>2, Zenon DEF Max

LEMMA BoxOfPoints ==
    ASSUME NEW S \in SUBSET (Int \X Int), S # {}, NEW e \in EnvelopeType,
           \A p \in S : Holds(e, p[1], p[2]),
           \E p \in S : p[1] = e.xMin, \E p \in S : p[1] = e.xMax,
           \E p \in S : p[2] = e.yMin, \E p \in S : p[2] = e.yMax
    PROVE  e = BoundingBox(S)
<1> DEFINE xs == {p[1] : p \in S}
           ys == {p[2] : p \in S}
<1>1. e.xMin \in xs /\ e.xMax \in xs /\ e.yMin \in ys /\ e.yMax \in ys
  OBVIOUS
<1>2. xs \subseteq Int /\ ys \subseteq Int
  OBVIOUS
<1>3. /\ \A n \in xs : e.xMin <= n /\ n <= e.xMax
      /\ \A n \in ys : e.yMin <= n /\ n <= e.yMax
  BY DEF EnvelopeType, Holds
<1>4. BoundingBox(S) = [xMin |-> Min(xs), xMax |-> Max(xs), yMin |-> Min(ys), yMax |-> Max(ys)]
  BY DEF BoundingBox
<1> HIDE DEF xs, ys
<1>5. Min(xs) = e.xMin /\ Max(xs) = e.xMax /\ Min(ys) = e.yMin /\ Max(ys) = e.yMax
  BY <1>1, <1>2, <1>3, LeastIsMin, GreatestIsMax
<1>6. QED
  BY <1>4, <1>5 DEF EnvelopeType

LEMMA TightIsBox ==
    ASSUME NEW s \in Shapes, NEW e, Tight(e, PointsOf(s))
    PROVE  IsBoxOf(e, s)
<1> DEFINE S == PointsOf(s)
           K == KeptPoints(s)
<1>1. S \subseteq Points
  BY PointsEnds, PointsTypes
<1>2. \A p \in S : /\ p[1] \in Int /\ p[2] \in Int /\ p = <<p[1], p[2]>>
                   /\ Kept(p[1]) \in Int /\ Kept(p[2]) \in Int
  BY <1>1, PointsTyped, KeptTyped, GeometryShapesAssumption DEF Int32
<1>3. K = {<<Kept(p[1]), Kept(p[2])>> : p \in S}
  BY DEF KeptPoints
<1> HIDE DEF S, K
<1>4. e = BoundingBox(K)
  <2>1. CASE S = {}
    BY <1>3, <2>1 DEF Tight, BoundingBox, S
  <2>2. CASE S # {}
    <3>1. /\ e \in EnvelopeType
          /\ \A p \in S : Holds(e, Kept(p[1]), Kept(p[2]))
          /\ \E p \in S : Kept(p[1]) = e.xMin
          /\ \E p \in S : Kept(p[1]) = e.xMax
          /\ \E p \in S : Kept(p[2]) = e.yMin
          /\ \E p \in S : Kept(p[2]) = e.yMax
      BY <2>2 DEF Tight, S
    <3>2. K \in SUBSET (Int \X Int) /\ K # {}
      <4>1. \A p \in S : <<Kept(p[1]), Kept(p[2])>> \in Int \X Int
        BY <1>2
      <4>2. QED
        BY <1>3, <2>2, <4>1, Zenon
    <3>3. \A p \in K : Holds(e, p[1], p[2])
      BY <1>3, <3>1
    <3>4. /\ \E p \in K : p[1] = e.xMin
          /\ \E p \in K : p[1] = e.xMax
          /\ \E p \in K : p[2] = e.yMin
          /\ \E p \in K : p[2] = e.yMax
      <4>1. \A p \in S : \E q \in K : q[1] = Kept(p[1]) /\ q[2] = Kept(p[2])
        <5>1. \A p \in S : <<Kept(p[1]), Kept(p[2])>> \in K
          BY <1>3, Zenon
        <5>2. QED
          BY <5>1
      <4>2. QED
        BY <3>1, <4>1, Zenon
    <3>5. QED
      BY <3>1, <3>2, <3>3, <3>4, BoxOfPoints
  <2>3. QED
    BY <2>1, <2>2
<1>5. ASSUME Fits(s)
      PROVE  K = S
  <2>1. \A p \in S : p[1] \in Int32 /\ p[2] \in Int32
    BY <1>5 DEF Fits, S
  <2>2. \A p \in S : Kept(p[1]) = p[1] /\ Kept(p[2]) = p[2]
    BY <1>2, <2>1, KeptTyped
  <2>3. \A p \in S : <<Kept(p[1]), Kept(p[2])>> = p
    BY <1>2, <2>2
  <2>4. QED
    BY <1>3, <2>3
<1>6. QED
  BY <1>4, <1>5 DEF IsBoxOf, S, K

(***************************************************************************)
(* The walks.  What holds in a path, stated with the path and the number   *)
(* of its points read so far, and how it comes about and ends.             *)
(***************************************************************************)

StoredInv == shape \in Shapes /\ body = Body(shape) /\ box_ \in Boxes

LEMMA InPathFacts ==
    ASSUME StoredInv, InPath, NEW n, n = PathsBegun, NEW k, k = PointsRead
    PROVE  /\ n \in 1 .. Len(shape.paths)
           /\ shape.paths[n] \in Seq(Points) /\ Len(shape.paths[n]) \in Nat
           /\ k \in 0 .. Len(shape.paths[n])
           /\ numPoints = Len(shape.paths[n]) - k
           /\ Offset(shape, n) \in Nat
           /\ geoPtr = Offset(shape, n) + 2 + 2 * k
           /\ Len(body) \in Nat
           /\ Offset(shape, n) + 2 * Len(shape.paths[n]) + 1 <= Len(body)
           /\ k < Len(shape.paths[n]) =>
                 /\ body[geoPtr] = Distance(shape.paths[n], k + 1, 1)
                 /\ body[geoPtr + 1] = Distance(shape.paths[n], k + 1, 2)
<1>1. /\ shape \in Shapes /\ shape.type # "POINT" /\ body = Body(shape)
      /\ shape.paths \in Seq(Seq(Points))
  BY ShapeTyped DEF StoredInv, InPath
<1>2. Len(shape.paths) \in Nat
  BY <1>1
<1>3. numRings \in 0 .. Len(shape.paths) - 1 /\ n = Len(shape.paths) - numRings
  BY DEF InPath, PathsBegun
<1>4. n \in 1 .. Len(shape.paths)
  BY <1>2, <1>3
<1>5. /\ shape.paths[n] \in Seq(Points) /\ Len(shape.paths[n]) \in Nat
      /\ Offset(shape, n) \in Nat /\ Len(body) \in Nat
      /\ Offset(shape, n) + 2 * Len(shape.paths[n]) + 1 <= Len(body)
      /\ \A j \in 1 .. Len(shape.paths[n]) :
            /\ body[Offset(shape, n) + 2 * j] = Distance(shape.paths[n], j, 1)
            /\ body[Offset(shape, n) + 2 * j + 1] = Distance(shape.paths[n], j, 2)
  BY <1>1, <1>4, CellsOfPath, Zenon
<1>6. /\ numPoints \in 0 .. Len(shape.paths[n])
      /\ k = Len(shape.paths[n]) - numPoints
      /\ geoPtr = Offset(shape, n) + 2 + 2 * k
  BY Zenon DEF InPath, PointsRead
<1>7. k \in 0 .. Len(shape.paths[n]) /\ numPoints = Len(shape.paths[n]) - k
  BY <1>5, <1>6
<1>8. ASSUME k < Len(shape.paths[n])
      PROVE  /\ body[geoPtr] = Distance(shape.paths[n], k + 1, 1)
             /\ body[geoPtr + 1] = Distance(shape.paths[n], k + 1, 2)
  <2>1. /\ k + 1 \in 1 .. Len(shape.paths[n])
        /\ geoPtr = Offset(shape, n) + 2 * (k + 1)
        /\ geoPtr + 1 = Offset(shape, n) + 2 * (k + 1) + 1
    <3> DEFINE l == Len(shape.paths[n])
               o == Offset(shape, n)
    <3>1. /\ l \in Nat /\ o \in Nat /\ k \in 0 .. l /\ k < l
          /\ geoPtr = o + 2 + 2 * k
      BY <1>5, <1>6, <1>7, <1>8
    <3> HIDE DEF l, o
    <3>2. k + 1 \in 1 .. l /\ geoPtr = o + 2 * (k + 1) /\ geoPtr + 1 = o + 2 * (k + 1) + 1
      BY <3>1
    <3>3. QED
      BY <3>2 DEF l, o
  <2>2. QED
    BY <1>5, <2>1, Zenon
<1>9. QED
  BY <1>4, <1>5, <1>6, <1>7, <1>8, Zenon

(* The next point is read, wherever the walk was. *)
LEMMA DrawsNext ==
    ASSUME StoredInv, InPath, NEW n, n = PathsBegun, NEW k, k = PointsRead, numPoints > 0,
           Draw(shape.paths[n][k + 1][1], shape.paths[n][k + 1][2])
    PROVE  /\ InPath' /\ PathsBegun' = n /\ PointsRead' = k + 1
           /\ <<x, y>>' = shape.paths[n][k + 1]
           /\ geoPtr' <= Len(body) + 1
<1> DEFINE path == shape.paths[n]
           q == path[k + 1]
<1>1. /\ n \in 1 .. Len(shape.paths)
      /\ path \in Seq(Points) /\ Len(path) \in Nat
      /\ k \in 0 .. Len(path) /\ numPoints = Len(path) - k
      /\ Offset(shape, n) \in Nat /\ geoPtr = Offset(shape, n) + 2 + 2 * k
      /\ Len(body) \in Nat /\ Offset(shape, n) + 2 * Len(path) + 1 <= Len(body)
  BY InPathFacts, Zenon
<1>2. /\ numPoints' = numPoints - 1 /\ geoPtr' = geoPtr + 2
      /\ shape' = shape /\ numRings' = numRings
      /\ envelope' = add(envelope, Kept(q[1]), Kept(q[2]))
      /\ x' = q[1] /\ y' = q[2]
  BY DEF Draw, stored
<1>3. PathsBegun' = n
  BY <1>2 DEF PathsBegun
<1> DEFINE l == Len(path)
           o == Offset(shape, n)
<1>4. /\ l - (numPoints - 1) = k + 1 /\ numPoints - 1 \in 0 .. l
      /\ k + 1 \in 1 .. l /\ (k + 1) - 1 = k
      /\ geoPtr + 2 = o + 2 + 2 * (k + 1) /\ geoPtr + 2 <= Len(body) + 1
  <2>1. /\ l \in Nat /\ o \in Nat /\ k \in 0 .. l /\ numPoints = l - k
        /\ geoPtr = o + 2 + 2 * k /\ o + 2 * l + 1 <= Len(body) /\ Len(body) \in Nat
    BY <1>1
  <2> HIDE DEF l, o
  <2>2. QED
    BY <2>1
<1>5. PointsRead' = k + 1
  <2>1. PointsRead' = l - numPoints'
    BY <1>2, <1>3 DEF PointsRead
  <2>2. QED
    BY <1>2, <1>4, <2>1, Zenon
<1>6. q \in Points /\ PointsTo(shape, n - 1, k + 1) = PointsTo(shape, n - 1, k) \cup {q}
  <2>1. shape \in Shapes
    BY DEF StoredInv
  <2>2. /\ q \in Points
        /\ PointsTo(shape, n - 1, k + 1) = PointsTo(shape, n - 1, (k + 1) - 1) \cup {q}
    <3> DEFINE m == k + 1
    <3>1. m \in 1 .. Len(shape.paths[n]) /\ n \in 1 .. Len(shape.paths)
      BY <1>1, <1>4
    <3> HIDE DEF m
    <3>2. /\ shape.paths[n][m] \in Points
          /\ PointsTo(shape, n - 1, m) = PointsTo(shape, n - 1, m - 1) \cup {shape.paths[n][m]}
      BY <2>1, <3>1, PointsNext, Zenon
    <3>3. QED
      BY <3>2 DEF m
  <2>3. QED
    BY <1>4, <2>2
<1>7. Tight(envelope', PointsTo(shape, n - 1, k + 1))
  <2>1. Tight(envelope, PointsTo(shape, n - 1, k))
    BY Zenon DEF InPath
  <2>2. PointsTo(shape, n - 1, k) \in SUBSET Points
    BY PointsTypes
  <2> HIDE DEF q, path
  <2>3. Tight(add(envelope, Kept(q[1]), Kept(q[2])), PointsTo(shape, n - 1, k) \cup {q})
    BY <1>6, <2>1, <2>2, TightAdd, Zenon
  <2>4. QED
    BY <1>2, <1>6, <2>3, Zenon
<1>8. <<x, y>>' = q
  BY <1>2, <1>6, PointsTyped
<1>9. /\ numPoints' \in 0 .. Len(path)
      /\ geoPtr' = Offset(shape, n) + 2 + 2 * (k + 1)
      /\ geoPtr' <= Len(body) + 1
  BY <1>2, <1>4, Zenon
<1>10. InPath'
  <2>1. /\ shape.type \in {"LINE", "POLYGON"}
        /\ numRings \in 0 .. Len(shape.paths) - 1
        /\ shape.type = "LINE" => numRings = 0
    BY DEF InPath
  <2> HIDE DEF path, q
  <2>2. <<x, y>>' = path[k + 1]
    BY <1>8 DEF q
  <2>3. QED
    BY <1>2, <1>3, <1>5, <1>7, <1>9, <2>1, <2>2, Zenon DEF InPath, path
<1>11. QED
  BY <1>3, <1>5, <1>8, <1>9, <1>10

(* A path begins behind the one before. *)
LEMMA PathBegins ==
    ASSUME StoredInv, BetweenPaths, numRings > 0, numRings' = numRings - 1,
           numPoints' = body[geoPtr], geoPtr' = geoPtr + 1,
           UNCHANGED <<stored, envelope>>,
           NEW n, n = PathsBegun
    PROVE  /\ InPath' /\ PathsBegun' = n + 1 /\ PointsRead' = 0
           /\ numPoints' = Len(shape.paths[n + 1])
           /\ n \in 0 .. Len(shape.paths) - 1
<1>1. /\ shape \in Shapes /\ shape.type = "POLYGON" /\ body = Body(shape)
      /\ shape.paths \in Seq(Seq(Points))
      /\ numRings \in 0 .. Len(shape.paths)
      /\ geoPtr = Offset(shape, n + 1) + 1
      /\ Tight(envelope, PointsTo(shape, n, 0))
  BY ShapeTyped DEF StoredInv, BetweenPaths
<1>2. Len(shape.paths) \in Nat /\ n = Len(shape.paths) - numRings
  BY <1>1 DEF PathsBegun
<1>3. n + 1 \in 1 .. Len(shape.paths) /\ n \in 0 .. Len(shape.paths) - 1 /\ (n + 1) - 1 = n
  BY <1>1, <1>2
<1>4. /\ body[Offset(shape, n + 1) + 1] = Len(shape.paths[n + 1])
      /\ Len(shape.paths[n + 1]) \in Nat /\ Offset(shape, n + 1) \in Nat
  BY <1>1, <1>3, CellsOfPath
<1>5. shape' = shape /\ envelope' = envelope
  BY DEF stored
<1>6. PathsBegun' = n + 1
  <2>1. PathsBegun' = Len(shape.paths) - numRings'
    BY <1>5 DEF PathsBegun
  <2>2. QED
    BY <1>1, <1>2, <2>1
<1>7. numPoints' = Len(shape.paths[n + 1])
  BY <1>1, <1>4
<1>8. PointsRead' = 0
  BY <1>4, <1>5, <1>6, <1>7 DEF PointsRead
<1>9. /\ numRings' \in 0 .. Len(shape.paths) - 1
      /\ numPoints' \in 0 .. Len(shape.paths[n + 1])
      /\ geoPtr' = Offset(shape, n + 1) + 2 + 2 * 0
  BY <1>1, <1>2, <1>4, <1>7
<1>10. InPath'
  <2>1. ~ (0 > 0)
    OBVIOUS
  <2>2. QED
    BY <1>1, <1>3, <1>5, <1>6, <1>8, <1>9, <2>1 DEF InPath
<1>11. QED
  BY <1>3, <1>6, <1>7, <1>8, <1>10

LEMMA LineBegins ==
    ASSUME StoredInv, AtStart, shape.type = "LINE",
           numPoints' = body[geoPtr], geoPtr' = geoPtr + 1,
           UNCHANGED <<stored, numRings, envelope>>
    PROVE  /\ InPath' /\ PathsBegun' = 1 /\ PointsRead' = 0
           /\ numPoints' = Len(shape.paths[1])
<1>1. /\ shape \in Shapes /\ body = Body(shape)
      /\ geoPtr = 1 /\ numRings = 0 /\ envelope = EmptyEnvelope
  BY DEF StoredInv, AtStart
<1>2. /\ Offset(shape, 1) = 0 /\ Len(shape.paths) = 1 /\ shape.paths[1] \in Seq(Points)
      /\ body = Path(shape.paths[1])
  BY <1>1, BodyOfLine
<1>3. numPoints' = Len(shape.paths[1]) /\ Len(shape.paths[1]) \in Nat
  BY <1>1, <1>2, PathCells
<1>4. shape' = shape /\ envelope' = EmptyEnvelope /\ numRings' = 0
  BY <1>1 DEF stored
<1>5. PathsBegun' = 1
  BY <1>2, <1>4 DEF PathsBegun
<1>6. PointsRead' = 0
  BY <1>3, <1>4, <1>5 DEF PointsRead
<1>7. Tight(envelope', PointsTo(shape, 1 - 1, 0))
  <2>1. PointsTo(shape, 1 - 1, 0) = {}
    BY <1>1, PointsEnds
  <2>2. QED
    BY <1>4, <2>1, TightStart
<1>8. InPath'
  <2>1. /\ 0 \in 0 .. Len(shape.paths) - 1
        /\ numPoints' \in 0 .. Len(shape.paths[1])
        /\ geoPtr' = Offset(shape, 1) + 2 + 2 * 0
        /\ ~ (0 > 0)
    BY <1>1, <1>2, <1>3
  <2>2. QED
    BY <1>4, <1>5, <1>6, <1>7, <2>1 DEF InPath
<1>9. QED
  BY <1>3, <1>5, <1>6, <1>8

LEMMA PolygonBegins ==
    ASSUME StoredInv, AtStart, shape.type = "POLYGON",
           numRings' = body[geoPtr], geoPtr' = geoPtr + 1,
           UNCHANGED <<stored, envelope>>
    PROVE  BetweenPaths' /\ PathsBegun' = 0
<1>1. /\ shape \in Shapes /\ body = Body(shape) /\ shape.paths \in Seq(Seq(Points))
      /\ geoPtr = 1 /\ envelope = EmptyEnvelope
  BY ShapeTyped DEF StoredInv, AtStart
<1>2. Offset(shape, 1) = 1 /\ body[1] = Len(shape.paths) /\ Len(shape.paths) \in Nat
  BY <1>1, BodyOfPolygon
<1>3. shape' = shape /\ envelope' = EmptyEnvelope
  BY <1>1 DEF stored
<1>4. PathsBegun' = 0
  BY <1>1, <1>2, <1>3 DEF PathsBegun
<1>5. Tight(envelope', PointsTo(shape, 0, 0))
  BY <1>1, <1>3, PointsEnds, TightStart
<1>6. /\ numRings' \in 0 .. Len(shape.paths)
      /\ geoPtr' = Offset(shape, 0 + 1) + 1
  BY <1>1, <1>2
<1>7. QED
  BY <1>3, <1>4, <1>5, <1>6 DEF BetweenPaths

(* All of a path has been read. *)
LEMMA PathEnds ==
    ASSUME StoredInv, InPath, numPoints = 0, NEW n, n = PathsBegun
    PROVE  /\ n \in 1 .. Len(shape.paths)
           /\ PointsRead = Len(shape.paths[n])
           /\ shape.type = "POLYGON" => BetweenPaths
           /\ shape.type = "LINE" =>
                /\ n = 1 /\ Len(shape.paths) = 1
                /\ geoPtr = Len(body) + 1 /\ Tight(envelope, PointsOf(shape))
<1> DEFINE k == PointsRead
           path == shape.paths[n]
<1>1. /\ n \in 1 .. Len(shape.paths)
      /\ path \in Seq(Points) /\ Len(path) \in Nat
      /\ k \in 0 .. Len(path) /\ numPoints = Len(path) - k
      /\ Offset(shape, n) \in Nat /\ geoPtr = Offset(shape, n) + 2 + 2 * k
  BY InPathFacts, Zenon
<1>2. k = Len(path)
  BY <1>1
<1>3. shape \in Shapes /\ body = Body(shape)
  BY DEF StoredInv
<1>4. Tight(envelope, PointsTo(shape, n, 0))
  <2>1. Tight(envelope, PointsTo(shape, n - 1, k))
    BY Zenon DEF InPath
  <2>2. PointsTo(shape, n - 1, Len(path)) = PointsTo(shape, n, 0)
    BY <1>1, <1>3, PointsOfPath, Zenon
  <2>3. QED
    BY <1>2, <2>1, <2>2
<1>5. geoPtr = Offset(shape, n) + 2 * Len(path) + 2
  BY <1>1, <1>2
<1>6. ASSUME shape.type = "POLYGON"
      PROVE  BetweenPaths
  <2>1. Offset(shape, n + 1) = Offset(shape, n) + 2 * Len(path) + 1
    BY <1>1, <1>3, <1>6, BodyOfPolygon
  <2>2. geoPtr = Offset(shape, n + 1) + 1
    BY <1>1, <1>5, <2>1
  <2>3. numRings \in 0 .. Len(shape.paths)
    <3>1. Len(shape.paths) \in Nat
      BY <1>3, ShapeTyped
    <3>2. QED
      BY <3>1 DEF InPath
  <2>4. QED
    BY <1>4, <1>6, <2>2, <2>3 DEF BetweenPaths
<1>7. ASSUME shape.type = "LINE"
      PROVE  /\ n = 1 /\ Len(shape.paths) = 1
             /\ geoPtr = Len(body) + 1 /\ Tight(envelope, PointsOf(shape))
  <2>1. /\ Len(shape.paths) = 1 /\ Offset(shape, 1) = 0
        /\ Len(body) = 2 * Len(shape.paths[1]) + 1
    BY <1>3, <1>7, BodyOfLine
  <2>2. n = 1
    BY <1>1, <2>1
  <2>3. PointsTo(shape, 1, 0) = PointsOf(shape)
    BY <1>3, <2>1, PointsEnds
  <2>4. geoPtr = Len(body) + 1
    BY <1>1, <1>5, <2>1, <2>2
  <2>5. QED
    BY <1>4, <2>1, <2>2, <2>3, <2>4
<1>8. QED
  BY <1>1, <1>2, <1>6, <1>7

LEMMA PolygonEnds ==
    ASSUME StoredInv, BetweenPaths, numRings = 0
    PROVE  /\ PathsBegun = Len(shape.paths)
           /\ geoPtr = Len(body) + 1 /\ Tight(envelope, PointsOf(shape))
<1>1. /\ shape \in Shapes /\ body = Body(shape) /\ shape.type = "POLYGON"
      /\ Len(shape.paths) \in Nat
  BY ShapeTyped DEF StoredInv, BetweenPaths
<1>2. PathsBegun = Len(shape.paths)
  BY <1>1 DEF PathsBegun
<1>3. Offset(shape, Len(shape.paths) + 1) = Len(body)
  BY <1>1, BodyOfPolygon
<1>4. PointsTo(shape, Len(shape.paths), 0) = PointsOf(shape)
  BY <1>1, PointsEnds
<1>5. QED
  BY <1>2, <1>3, <1>4 DEF BetweenPaths

LEMMA FirstPoints ==
    ASSUME NEW path \in Seq(Points)
    PROVE  /\ SubSeq(path, 1, Len(path)) = path
           /\ path # <<>> => SubSeq(path, 1, 1) = <<path[1]>>
           /\ \A k \in 1 .. Len(path) - 1 :
                 SubSeq(path, 1, k + 1) = Append(SubSeq(path, 1, k), path[k + 1])
<1>1. SubSeq(path, 1, Len(path)) = path
  BY SubSeqFull
<1>2. ASSUME path # <<>>
      PROVE  SubSeq(path, 1, 1) = <<path[1]>>
  <2>1. Len(path) \in Nat \ {0}
    BY <1>2
  <2>2. 1 \in 1 .. Len(path) /\ 1 \in 1 .. Len(path)
    BY <2>1
  <2>3. SubSeq(path, 1, 1) = <<path[1]>> \o SubSeq(path, 1 + 1, 1)
    BY <2>2, SubSeqRecursiveFirst
  <2>4. SubSeq(path, 1 + 1, 1) = <<>> /\ path[1] \in Points
    BY <2>2, SubSeqEmpty
  <2>5. <<path[1]>> \in Seq(Points)
    BY <2>4
  <2>6. <<path[1]>> \o <<>> = <<path[1]>>
    BY <2>5, ConcatEmptySeq
  <2>7. QED
    BY <2>3, <2>4, <2>6, Zenon
<1>3. ASSUME NEW k \in 1 .. Len(path) - 1
      PROVE  SubSeq(path, 1, k + 1) = Append(SubSeq(path, 1, k), path[k + 1])
  <2>1. Len(path) \in Nat
    OBVIOUS
  <2>2. /\ 1 \in 1 .. Len(path) /\ k + 1 \in 1 .. Len(path) /\ (k + 1) - 1 = k
        /\ k \in 1 .. Len(path)
    BY <2>1
  <2>3. SubSeq(path, 1, k + 1) = SubSeq(path, 1, k) \o <<path[k + 1]>>
    BY <2>2, SubSeqRecursiveSecond
  <2>4. SubSeq(path, 1, k) \in Seq(Points) /\ path[k + 1] \in Points
    BY <2>2
  <2>5. SubSeq(path, 1, k) \o <<path[k + 1]>> = Append(SubSeq(path, 1, k), path[k + 1])
    BY <2>4, AppendIsConcat
  <2>6. QED
    BY <2>3, <2>5
<1>4. QED
  BY <1>1, <1>2, <1>3

LEMMA TightType ==
    ASSUME NEW S, NEW e, Tight(e, S)
    PROVE  e \in EnvelopeType
BY DEF Tight, EmptyEnvelope, EnvelopeType

LEMMA OverlapIsMeeting ==
    ASSUME NEW e \in EnvelopeType, NEW b \in EnvelopeType
    PROVE  (overlapsWith(e, b) <=> Meet(e, b)) /\ (overlapsWith(b, e) <=> Meet(e, b))
<1>1. Meet(e, b) <=> \E px, py \in Int : Holds(e, px, py) /\ Holds(b, px, py)
  BY DEF Meet, Holds, EnvelopeType
<1>2. QED
  BY <1>1, OverlapIsSharedPoint, OverlapIsSymmetric

(* A line or a polygon has been walked through by a parse function. *)
LEMMA ParsedRight ==
    ASSUME pc = "parsed", StoredInv, shape.type # "POINT", Tight(envelope, PointsOf(shape)),
           geoPtr = Len(body) + 1, Drawn(feature, shape, Len(shape.paths)),
           (accepted <=> overlapsWith(envelope, box_)) \/ (accepted <=> overlapsWith(box_, envelope))
    PROVE  DrawnAsStored /\ IsBoxOf(envelope, shape)
<1>1. IsBoxOf(envelope, shape)
  BY TightIsBox DEF StoredInv
<1>2. accepted <=> Meet(envelope, box_)
  BY TightType, OverlapIsMeeting, GeometryShapesAssumption DEF StoredInv
<1>3. Fits(shape) => (accepted <=> Meet(BoundingBox(PointsOf(shape)), box_))
  BY <1>1, <1>2 DEF IsBoxOf
<1>4. QED
  BY <1>1, <1>3 DEF DrawnAsStored

LEMMA PointBox ==
    ASSUME StoredInv, shape.type = "POINT"
    PROVE  /\ body[1] \in Int /\ body[2] \in Int
           /\ shape.paths = << << <<body[1], body[2]>> >> >>
           /\ Drawn(shape.paths, shape, 1)
           /\ Tight([xMin |-> body[1], xMax |-> body[1], yMin |-> body[2], yMax |-> body[2]],
                    PointsOf(shape))
<1>1. /\ shape \in Shapes /\ shape.paths \in Seq(Seq(Points)) /\ Len(shape.paths) = 1
      /\ shape.paths[1] \in Seq(Points) /\ Len(shape.paths[1]) = 1
  BY ShapeTyped DEF StoredInv
<1> DEFINE p == shape.paths[1][1]
<1>2. p \in Points /\ shape.paths[1] = <<p>> /\ shape.paths = << <<p>> >>
  BY <1>1
<1>3. body = p
  BY DEF StoredInv, Body
<1>4. p[1] \in Int /\ p[2] \in Int /\ p = <<p[1], p[2]>>
  BY <1>2, PointsTyped
<1>5. Drawn(shape.paths, shape, 1)
  <2>1. <<>> \in Seq(Seq(Points)) /\ shape.paths[0 + 1] # <<>> /\ shape.paths[0 + 1] \in Seq(Points)
    BY <1>1
  <2>2. Drawn(Append(<<>>, shape.paths[0 + 1]), shape, 0 + 1)
    BY <2>1, DrawnNone, DrawnAppend
  <2>3. Append(<<>>, shape.paths[0 + 1]) = shape.paths
    BY <1>2
  <2>4. QED
    BY <2>2, <2>3
<1>6. PointsOf(shape) = {} \cup {p}
  <2>1. 1 \in 1 .. Len(shape.paths) /\ 1 \in 1 .. Len(shape.paths[1]) /\ 1 - 1 = 0
    BY <1>1
  <2>2. PointsTo(shape, 0, 1) = PointsTo(shape, 0, 0) \cup {p}
    <3>1. \A n \in 1 .. Len(shape.paths) : \A k \in 1 .. Len(shape.paths[n]) :
             PointsTo(shape, n - 1, k) = PointsTo(shape, n - 1, k - 1) \cup {shape.paths[n][k]}
      BY <1>1, PointsNext, Zenon
    <3>2. PointsTo(shape, 1 - 1, 1) = PointsTo(shape, 1 - 1, 1 - 1) \cup {shape.paths[1][1]}
      BY <2>1, <3>1
    <3>3. QED
      BY <2>1, <3>2, Zenon
  <2>3. PointsTo(shape, 0, 1) = PointsTo(shape, 1, 0)
    BY <1>1, <2>1, PointsOfPath
  <2>4. QED
    BY <1>1, <2>2, <2>3, PointsEnds
<1>7. Tight(add(EmptyEnvelope, p[1], p[2]), {} \cup {p})
  <2>1. p[1] \in Int32 /\ p[2] \in Int32
    BY <1>1 DEF Shapes
  <2>2. Kept(p[1]) = p[1] /\ Kept(p[2]) = p[2]
    BY <1>4, <2>1, KeptTyped
  <2>3. Tight(add(EmptyEnvelope, Kept(p[1]), Kept(p[2])), {} \cup {p})
    BY <1>2, TightStart, TightAdd
  <2>4. QED
    BY <2>2, <2>3
<1>8. add(EmptyEnvelope, p[1], p[2]) = [xMin |-> p[1], xMax |-> p[1], yMin |-> p[2], yMax |-> p[2]]
  BY DEF add, EmptyEnvelope, isValid
<1> HIDE DEF p
<1>9. QED
  BY <1>2, <1>3, <1>4, <1>5, <1>6, <1>7, <1>8

(* The same of the next state, for a path without points, which ends with  *)
(* the step that begins it *)

LEMMA PathEnd ==
    StoredInv /\ InPath /\ numPoints = 0 =>
        /\ shape.type = "POLYGON" => BetweenPaths
        /\ shape.type = "LINE" => geoPtr = Len(body) + 1 /\ Tight(envelope, PointsOf(shape))
BY PathEnds

LEMMA PathEndNext ==
    (StoredInv /\ InPath /\ numPoints = 0)' =>
        /\ (shape.type = "POLYGON" => BetweenPaths)'
        /\ (shape.type = "LINE" => geoPtr = Len(body) + 1 /\ Tight(envelope, PointsOf(shape)))'
BY PathEnd, PTL

LEMMA ParsedRightHere ==
    /\ pc = "parsed" /\ StoredInv /\ shape.type # "POINT" /\ Tight(envelope, PointsOf(shape))
    /\ geoPtr = Len(body) + 1 /\ Drawn(feature, shape, Len(shape.paths))
    /\ (accepted <=> overlapsWith(envelope, box_)) \/ (accepted <=> overlapsWith(box_, envelope))
    => DrawnAsStored /\ IsBoxOf(envelope, shape)
BY ParsedRight

LEMMA ParsedRightNext ==
    /\ (pc = "parsed" /\ StoredInv /\ shape.type # "POINT" /\ Tight(envelope, PointsOf(shape)))'
    /\ (geoPtr = Len(body) + 1 /\ Drawn(feature, shape, Len(shape.paths)))'
    /\ ((accepted <=> overlapsWith(envelope, box_)) \/ (accepted <=> overlapsWith(box_, envelope)))'
    => (DrawnAsStored /\ IsBoxOf(envelope, shape))'
BY ParsedRightHere, PTL

-----------------------------------------------------------------------------
(* The invariant *)

LEMMA InvInit == Init => Inv
<1> SUFFICES ASSUME Init PROVE Inv
  OBVIOUS
<1>1. <<>> \in Seq(Seq(Points))
  OBVIOUS
<1>2. QED
  BY <1>1 DEF Init, Inv, WalkInv, AtStart, DrawnAsStored, BoundsAgree

LEMMA InvStutter == Inv /\ UNCHANGED vars => Inv'
<1> SUFFICES ASSUME Inv, UNCHANGED vars PROVE Inv'
  OBVIOUS
<1>1. /\ shape' = shape /\ body' = body /\ box_' = box_ /\ pc' = pc /\ geoPtr' = geoPtr
      /\ numRings' = numRings /\ numPoints' = numPoints /\ x' = x /\ y' = y
      /\ envelope' = envelope /\ line' = line /\ feature' = feature /\ accepted' = accepted
  BY Zenon DEF vars, stored
<1>2. AtStart' = AtStart
  BY <1>1, Zenon DEF AtStart
<1>3. BetweenPaths' = BetweenPaths
  BY <1>1, Zenon DEF BetweenPaths, PathsBegun
<1>4. InPath' = InPath /\ PathsBegun' = PathsBegun /\ PointsRead' = PointsRead
  BY <1>1, Zenon DEF InPath, PathsBegun, PointsRead
<1>5. WalkInv' = WalkInv
  BY <1>1, <1>2, <1>3, <1>4, Zenon DEF WalkInv
<1>6. DrawnAsStored' = DrawnAsStored /\ BoundsAgree' = BoundsAgree
  BY <1>1, Zenon DEF DrawnAsStored, BoundsAgree
<1>7. QED
  BY <1>1, <1>5, <1>6, Zenon DEF Inv

(* The parse functions *)

LEMMA ParsePointKeeps == Inv /\ ParsePoint => Inv'
<1> SUFFICES ASSUME Inv, ParsePoint PROVE Inv'
  OBVIOUS
<1>1. StoredInv /\ shape' = shape /\ body' = body /\ box_' = box_ /\ pc' = "parsed"
  BY DEF Inv, StoredInv, ParsePoint, stored
<1>2. shape.type = "POINT" /\ feature' = << << <<body[1], body[2]>> >> >> /\ accepted' = TRUE
  BY DEF ParsePoint
<1>3. feature' = shape.paths /\ Drawn(shape.paths, shape, 1)
  BY <1>1, <1>2, PointBox
<1>4. shape.paths \in Seq(Seq(Points)) /\ Len(shape.paths) = 1
  BY <1>1, <1>2, ShapeTyped DEF StoredInv
<1>5. DrawnAsStored'
  BY <1>1, <1>2, <1>3, <1>4 DEF DrawnAsStored
<1>6. QED
  BY <1>1, <1>2, <1>3, <1>4, <1>5 DEF Inv, StoredInv, WalkInv, BoundsAgree

LEMMA ParseLineKeeps == Inv /\ ParseLine => Inv'
<1> SUFFICES ASSUME Inv, ParseLine PROVE Inv'
  OBVIOUS
<1>1. StoredInv /\ AtStart /\ shape' = shape /\ body' = body /\ box_' = box_
      /\ feature' = feature /\ feature = <<>> /\ shape.type = "LINE"
  BY DEF Inv, StoredInv, ParseLine, stored, WalkInv, AtStart
<1>2. InPath' /\ PathsBegun' = 1 /\ PointsRead' = 0 /\ numPoints' = Len(shape.paths[1])
  BY <1>1, LineBegins DEF ParseLine
<1>3. /\ shape \in Shapes /\ Len(shape.paths) = 1 /\ shape.paths[1] \in Seq(Points)
  BY <1>1, BodyOfLine DEF StoredInv
<1>4. numPoints' \in Nat
  BY <1>2, <1>3
<1>5. StoredInv' /\ feature' \in Seq(Seq(Points))
  BY <1>1 DEF StoredInv
<1>6. CASE numPoints' # 0
  <2>1. pc' = "moveTo"
    BY <1>6 DEF ParseLine
  <2>2. Drawn(feature, shape, 0)
    BY <1>1, DrawnNone
  <2>3. Drawn(feature, shape, PathsBegun - 1)'
    BY <1>1, <1>2, <2>2
  <2>4. QED
    BY <1>2, <1>4, <1>5, <1>6, <2>1, <2>3 DEF Inv, StoredInv, WalkInv, DrawnAsStored, BoundsAgree
<1>7. CASE numPoints' = 0
  <2>1. pc' = "parsed"
    BY <1>7 DEF ParseLine
  <2>2. Tight(envelope', PointsOf(shape')) /\ geoPtr' = Len(body') + 1
    BY <1>1, <1>2, <1>5, <1>7, PathEndNext
  <2>3. Drawn(feature', shape', Len(shape'.paths))
    <3>1. shape.paths[0 + 1] = <<>>
      <4>1. shape.paths[1] = <<>>
        <5> DEFINE path == shape.paths[1]
        <5>1. path \in Seq(Points) /\ Len(path) = 0
          BY <1>2, <1>3, <1>7
        <5> HIDE DEF path
        <5>2. path = <<>>
          BY <5>1, EmptySeq
        <5>3. QED
          BY <5>2 DEF path
      <4>2. QED
        BY <4>1
    <3>0. Drawn(feature, shape, 0)
      BY <1>1, DrawnNone
    <3>2. Drawn(feature, shape, 0 + 1)
      BY <3>0, <3>1, DrawnSkip
    <3>3. QED
      BY <1>1, <1>3, <3>2
  <2>4. /\ accepted' = FALSE /\ envelope' = EmptyEnvelope
        /\ box_ \in EnvelopeType
    BY <1>1, GeometryShapesAssumption DEF ParseLine, AtStart, StoredInv
  <2>5. (accepted <=> overlapsWith(envelope, box_))'
    <3>1. ~ overlapsWith(envelope', box_')
      BY <1>1, <2>4, EmptyOverlapsNothing
    <3>2. QED
      BY <2>4, <3>1
  <2>6. (DrawnAsStored /\ IsBoxOf(envelope, shape))'
    BY <1>1, <1>5, <2>1, <2>2, <2>3, <2>5, ParsedRightNext
  <2>7. QED
    BY <1>5, <2>1, <2>6 DEF Inv, StoredInv, WalkInv, BoundsAgree
<1>8. QED
  BY <1>6, <1>7

LEMMA EmptyPath ==
    ASSUME NEW path \in Seq(Points), Len(path) = 0
    PROVE  path = <<>>
BY EmptySeq

LEMMA StoredStays == StoredInv /\ UNCHANGED stored => StoredInv'
BY Zenon DEF StoredInv, stored

LEMMA ParsePolygonKeeps == Inv /\ ParsePolygon => Inv'
<1> SUFFICES ASSUME Inv, ParsePolygon PROVE Inv'
  OBVIOUS
<1>1. StoredInv /\ AtStart /\ shape' = shape /\ feature' = feature /\ feature = <<>>
      /\ feature \in Seq(Seq(Points)) /\ shape.type = "POLYGON" /\ pc' = "ring"
  BY DEF Inv, StoredInv, ParsePolygon, stored, WalkInv, AtStart
<1>2. BetweenPaths' /\ PathsBegun' = 0
  BY <1>1, PolygonBegins DEF ParsePolygon
<1>3. StoredInv'
  BY <1>1, StoredStays DEF ParsePolygon
<1>4. Drawn(feature, shape, 0)
  BY <1>1, DrawnNone
<1>5. Drawn(feature, shape, PathsBegun)'
  BY <1>1, <1>2, <1>4
<1>6. QED
  BY <1>1, <1>2, <1>3, <1>5 DEF Inv, StoredInv, WalkInv, DrawnAsStored, BoundsAgree

LEMMA ParseRingKeeps == Inv /\ ParseRing => Inv'
<1> SUFFICES ASSUME Inv, ParseRing PROVE Inv'
  OBVIOUS
<1> DEFINE n == PathsBegun
<1>1. StoredInv /\ BetweenPaths /\ shape' = shape /\ feature' = feature
      /\ feature \in Seq(Seq(Points)) /\ Drawn(feature, shape, n) /\ shape.type = "POLYGON"
  BY DEF Inv, StoredInv, ParseRing, stored, WalkInv, BetweenPaths
<1>2. /\ InPath' /\ PathsBegun' = n + 1 /\ PointsRead' = 0
      /\ numPoints' = Len(shape.paths[n + 1]) /\ n \in 0 .. Len(shape.paths) - 1
  BY <1>1, PathBegins DEF ParseRing
<1>3. StoredInv'
  BY <1>1, StoredStays DEF ParseRing
<1>4. Len(shape.paths) \in Nat /\ n \in Nat /\ n + 1 \in 1 .. Len(shape.paths) /\ (n + 1) - 1 = n
  <2>1. Len(shape.paths) \in Nat
    BY <1>1, ShapeTyped DEF StoredInv
  <2> HIDE DEF n
  <2>2. QED
    BY <1>2, <2>1
<1>5. shape.paths[n + 1] \in Seq(Points)
  BY <1>1, <1>4, ShapeTyped DEF StoredInv
<1>6. numPoints' \in Nat
  BY <1>2, <1>5
<1>7. CASE numPoints' # 0 /\ ~ (numPoints' >= RingLimit)
  <2>1. pc' = "moveTo"
    BY <1>7 DEF ParseRing
  <2>2. Drawn(feature, shape, PathsBegun - 1)'
    BY <1>1, <1>2, <1>4
  <2>3. QED
    BY <1>1, <1>2, <1>3, <1>6, <1>7, <2>1, <2>2
       DEF Inv, StoredInv, WalkInv, DrawnAsStored, BoundsAgree
<1>8. CASE numPoints' = 0 /\ ~ (numPoints' >= RingLimit)
  <2>1. pc' = "ring"
    BY <1>8 DEF ParseRing
  <2>2. BetweenPaths'
    BY <1>1, <1>2, <1>3, <1>8, PathEndNext
  <2>3. shape.paths[n + 1] = <<>>
    BY <1>2, <1>5, <1>8, EmptyPath
  <2>4. Drawn(feature, shape, n + 1)
    <3> HIDE DEF n
    <3>1. QED
      BY <1>1, <1>4, <2>3, DrawnSkip
  <2>5. Drawn(feature, shape, PathsBegun)'
    BY <1>1, <1>2, <2>4
  <2>6. QED
    BY <1>1, <1>3, <2>1, <2>2, <2>5 DEF Inv, StoredInv, WalkInv, DrawnAsStored, BoundsAgree
<1>9. CASE numPoints' >= RingLimit
  <2>1. pc' = "aborted"
    BY <1>9 DEF ParseRing
  <2>2. \E i \in DOMAIN shape.paths : Len(shape.paths[i]) >= RingLimit
    <3>1. DOMAIN shape.paths = 1 .. Len(shape.paths)
      BY <1>1, ShapeTyped DEF StoredInv
    <3>2. Len(shape.paths[n + 1]) >= RingLimit
      BY <1>2, <1>9
    <3> HIDE DEF n
    <3>3. QED
      BY <1>4, <3>1, <3>2
  <2>3. QED
    BY <1>1, <1>3, <2>1, <2>2 DEF Inv, StoredInv, WalkInv, DrawnAsStored, BoundsAgree
<1>10. QED
  BY <1>7, <1>8, <1>9

LEMMA EndPolygonKeeps == Inv /\ EndPolygon => Inv'
<1> SUFFICES ASSUME Inv, EndPolygon PROVE Inv'
  OBVIOUS
<1>1. /\ StoredInv /\ BetweenPaths /\ feature \in Seq(Seq(Points)) /\ numRings = 0
      /\ Drawn(feature, shape, PathsBegun) /\ shape.type = "POLYGON" /\ pc' = "parsed"
  BY DEF Inv, StoredInv, EndPolygon, WalkInv, BetweenPaths
<1>2. /\ shape' = shape /\ body' = body /\ box_' = box_ /\ feature' = feature
      /\ geoPtr' = geoPtr /\ envelope' = envelope
      /\ accepted' = overlapsWith(box_, envelope)
  BY DEF EndPolygon, stored
<1>3. /\ PathsBegun = Len(shape.paths)
      /\ geoPtr = Len(body) + 1 /\ Tight(envelope, PointsOf(shape))
  BY <1>1, PolygonEnds
<1>4. StoredInv'
  BY <1>1, StoredStays DEF EndPolygon
<1>5. (StoredInv /\ shape.type # "POINT" /\ Tight(envelope, PointsOf(shape)))'
  BY <1>1, <1>2, <1>3, <1>4
<1>6. (geoPtr = Len(body) + 1 /\ Drawn(feature, shape, Len(shape.paths)))'
  BY <1>1, <1>2, <1>3
<1>7. (DrawnAsStored /\ IsBoxOf(envelope, shape))'
  BY <1>1, <1>2, <1>5, <1>6, ParsedRightNext
<1>8. QED
  BY <1>1, <1>2, <1>4, <1>7 DEF Inv, StoredInv, WalkInv, BoundsAgree

(* The distances of the encoding lead to the points. *)
LEMMA DistancesLead ==
    ASSUME NEW path \in Seq(Points), NEW k \in 1 .. Len(path)
    PROVE  /\ path[k] \in Points
           /\ k = 1 => Distance(path, k, 1) = path[k][1] /\ Distance(path, k, 2) = path[k][2]
           /\ k > 1 => /\ path[k - 1][1] + Distance(path, k, 1) = path[k][1]
                       /\ path[k - 1][2] + Distance(path, k, 2) = path[k][2]
<1>1. path[k] \in Points /\ path[k][1] \in Int /\ path[k][2] \in Int
  BY PointsTyped
<1>2. CASE k = 1
  <2>1. ~ (k > 1)
    BY <1>2
  <2>2. QED
    BY <1>1, <1>2, <2>1 DEF Distance
<1>3. CASE k # 1
  <2>1. k - 1 \in 1 .. Len(path)
    BY <1>3
  <2>2. path[k - 1][1] \in Int /\ path[k - 1][2] \in Int
    BY <2>1, PointsTyped
  <2>3. Distance(path, k, 1) = path[k][1] - path[k - 1][1]
        /\ Distance(path, k, 2) = path[k][2] - path[k - 1][2]
    BY <1>3 DEF Distance
  <2>4. QED
    BY <1>1, <1>3, <2>2, <2>3
<1>4. QED
  BY <1>2, <1>3

(* What is read of a path is its next point, if the position is that of    *)
(* the point before, or of none zero.                                      *)
LEMMA NextPoint ==
    ASSUME StoredInv, InPath, numPoints > 0, NEW n, n = PathsBegun, NEW k, k = PointsRead
    PROVE  /\ n \in 1 .. Len(shape.paths) /\ shape.paths[n] \in Seq(Points)
           /\ k \in 0 .. Len(shape.paths[n]) - 1
           /\ k = 0 => /\ body[geoPtr] = shape.paths[n][k + 1][1]
                       /\ body[geoPtr + 1] = shape.paths[n][k + 1][2]
           /\ k > 0 => /\ x + body[geoPtr] = shape.paths[n][k + 1][1]
                       /\ y + body[geoPtr + 1] = shape.paths[n][k + 1][2]
           /\ shape.paths[n][k + 1] \in Points
<1> DEFINE path == shape.paths[n]
<1>1. /\ n \in 1 .. Len(shape.paths)
      /\ path \in Seq(Points) /\ Len(path) \in Nat
      /\ k \in 0 .. Len(path) /\ numPoints = Len(path) - k
      /\ k < Len(path) =>
            /\ body[geoPtr] = Distance(path, k + 1, 1)
            /\ body[geoPtr + 1] = Distance(path, k + 1, 2)
  BY InPathFacts, Zenon
<1>2. k > 0 => <<x, y>> = path[k]
  BY Zenon DEF InPath
<1> HIDE DEF path
<1>3. /\ k \in 0 .. Len(path) - 1 /\ k < Len(path)
      /\ k + 1 \in 1 .. Len(path) /\ (k + 1) - 1 = k
      /\ (k = 0 => k + 1 = 1) /\ (k > 0 => k + 1 > 1)
  BY <1>1
<1>4. /\ path[k + 1] \in Points
      /\ k + 1 = 1 => /\ Distance(path, k + 1, 1) = path[k + 1][1]
                      /\ Distance(path, k + 1, 2) = path[k + 1][2]
      /\ k + 1 > 1 => /\ path[(k + 1) - 1][1] + Distance(path, k + 1, 1) = path[k + 1][1]
                      /\ path[(k + 1) - 1][2] + Distance(path, k + 1, 2) = path[k + 1][2]
  <2> DEFINE m == k + 1
  <2> SUFFICES /\ path[m] \in Points
               /\ m = 1 => /\ Distance(path, m, 1) = path[m][1]
                           /\ Distance(path, m, 2) = path[m][2]
               /\ m > 1 => /\ path[m - 1][1] + Distance(path, m, 1) = path[m][1]
                           /\ path[m - 1][2] + Distance(path, m, 2) = path[m][2]
    OBVIOUS
  <2>1. m \in 1 .. Len(path)
    BY <1>3
  <2> HIDE DEF m
  <2>2. QED
    BY <1>1, <2>1, DistancesLead, Zenon
<1>5. k > 0 => x = path[k][1] /\ y = path[k][2]
  BY <1>2
<1>6. k > 0 => /\ x + body[geoPtr] = path[k + 1][1]
               /\ y + body[geoPtr + 1] = path[k + 1][2]
  BY <1>1, <1>3, <1>4, <1>5, Zenon
<1>7. k = 0 => /\ body[geoPtr] = path[k + 1][1]
               /\ body[geoPtr + 1] = path[k + 1][2]
  BY <1>1, <1>3, <1>4, Zenon
<1>8. QED
  BY <1>1, <1>3, <1>4, <1>6, <1>7, Zenon DEF path

LEMMA MoveToKeeps == Inv /\ MoveTo => Inv'
<1> SUFFICES ASSUME Inv, MoveTo PROVE Inv'
  OBVIOUS
<1> DEFINE n == PathsBegun
           path == shape.paths[n]
<1>1. /\ StoredInv /\ InPath /\ PointsRead = 0 /\ numPoints > 0
      /\ Drawn(feature, shape, n - 1) /\ feature \in Seq(Seq(Points))
  BY DEF Inv, StoredInv, MoveTo, WalkInv
<1>2. /\ path \in Seq(Points) /\ 0 \in 0 .. Len(path) - 1
      /\ body[geoPtr] = path[0 + 1][1] /\ body[geoPtr + 1] = path[0 + 1][2]
  BY <1>1, NextPoint
<1>3. Draw(path[0 + 1][1], path[0 + 1][2])
  BY <1>2 DEF MoveTo
<1>4. /\ InPath' /\ PathsBegun' = n /\ PointsRead' = 0 + 1
      /\ <<x, y>>' = path[0 + 1]
  BY <1>1, <1>3, DrawsNext
<1>5. StoredInv' /\ shape' = shape /\ feature' = feature
  BY <1>1, StoredStays DEF MoveTo, Draw, stored
<1>6. pc' = "lineTo" /\ line' = <<path[1]>>
  BY <1>4 DEF MoveTo
<1>7. path # <<>>
  BY <1>2
<1>8. line' = SubSeq(path, 1, 1)
  BY <1>2, <1>6, <1>7, FirstPoints
<1>9. line' = SubSeq(shape.paths[PathsBegun], 1, PointsRead)'
  BY <1>4, <1>5, <1>8
<1>10. Drawn(feature, shape, PathsBegun - 1)'
  BY <1>1, <1>4, <1>5
<1>11. PointsRead' > 0
  BY <1>4
<1>12. QED
  BY <1>1, <1>4, <1>5, <1>6, <1>9, <1>10, <1>11
     DEF Inv, StoredInv, WalkInv, DrawnAsStored, BoundsAgree

LEMMA LineToKeeps == Inv /\ LineTo => Inv'
<1> SUFFICES ASSUME Inv, LineTo PROVE Inv'
  OBVIOUS
<1> DEFINE n == PathsBegun
           k == PointsRead
           path == shape.paths[n]
<1>1. /\ StoredInv /\ InPath /\ k > 0 /\ numPoints > 0
      /\ line = SubSeq(path, 1, k)
      /\ Drawn(feature, shape, n - 1) /\ feature \in Seq(Seq(Points))
  BY DEF Inv, StoredInv, LineTo, WalkInv
<1>2. /\ path \in Seq(Points) /\ k \in 0 .. Len(path) - 1
      /\ x + body[geoPtr] = path[k + 1][1] /\ y + body[geoPtr + 1] = path[k + 1][2]
  BY <1>1, NextPoint
<1>3. Draw(path[k + 1][1], path[k + 1][2])
  BY <1>2 DEF LineTo
<1>4. /\ InPath' /\ PathsBegun' = n /\ PointsRead' = k + 1
      /\ <<x, y>>' = path[k + 1]
  BY <1>1, <1>3, DrawsNext
<1>5. StoredInv' /\ shape' = shape /\ feature' = feature
  BY <1>1, StoredStays DEF LineTo, Draw, stored
<1>6. pc' = "lineTo" /\ line' = Append(SubSeq(path, 1, k), path[k + 1])
  BY <1>1, <1>4 DEF LineTo
<1>7. k \in 1 .. Len(path) - 1 /\ k + 1 > 0
  <2> HIDE DEF k
  <2>1. QED
    BY <1>1, <1>2
<1>8. line' = SubSeq(path, 1, k + 1)
  <2> HIDE DEF k
  <2>1. QED
    BY <1>2, <1>6, <1>7, FirstPoints
<1>9. line' = SubSeq(shape.paths[PathsBegun], 1, PointsRead)'
  BY <1>4, <1>5, <1>8
<1>10. Drawn(feature, shape, PathsBegun - 1)'
  BY <1>1, <1>4, <1>5
<1>11. PointsRead' > 0
  BY <1>4, <1>7
<1>12. QED
  BY <1>1, <1>4, <1>5, <1>6, <1>9, <1>10, <1>11
     DEF Inv, StoredInv, WalkInv, DrawnAsStored, BoundsAgree

LEMMA AddGeometryKeeps == Inv /\ AddGeometry => Inv'
<1> SUFFICES ASSUME Inv, AddGeometry PROVE Inv'
  OBVIOUS
<1> DEFINE n == PathsBegun
           path == shape.paths[n]
<1>1. /\ StoredInv /\ InPath /\ PointsRead > 0 /\ numPoints = 0
      /\ line = SubSeq(path, 1, PointsRead)
      /\ Drawn(feature, shape, n - 1) /\ feature \in Seq(Seq(Points))
      /\ shape.type \in {"LINE", "POLYGON"}
  BY DEF Inv, StoredInv, AddGeometry, WalkInv, InPath
<1>2. /\ shape' = shape /\ body' = body /\ box_' = box_ /\ feature' = Append(feature, line)
      /\ geoPtr' = geoPtr /\ envelope' = envelope
      /\ numRings' = numRings /\ numPoints' = numPoints
  BY DEF AddGeometry, stored
<1>3. StoredInv'
  BY <1>1, StoredStays DEF AddGeometry
<1>4. /\ n \in 1 .. Len(shape.paths) /\ PointsRead = Len(path)
      /\ shape.type = "POLYGON" => BetweenPaths
      /\ shape.type = "LINE" =>
            /\ n = 1 /\ Len(shape.paths) = 1
            /\ geoPtr = Len(body) + 1 /\ Tight(envelope, PointsOf(shape))
  BY <1>1, PathEnds
<1>5. path \in Seq(Points) /\ path # <<>>
  <2>1. path \in Seq(Points)
    BY <1>1, <1>4, ShapeTyped DEF StoredInv
  <2> HIDE DEF path
  <2>2. QED
    BY <1>1, <1>4, <2>1
<1>6. line = path
  BY <1>1, <1>4, <1>5, FirstPoints
<1>7. n - 1 \in Nat /\ (n - 1) + 1 = n
  <2> HIDE DEF n
  <2>1. QED
    BY <1>4
<1>8. Drawn(Append(feature, path), shape, n) /\ Append(feature, path) \in Seq(Seq(Points))
  <2> DEFINE m == n - 1
  <2>1. m \in Nat /\ m + 1 = n
    BY <1>7
  <2>2. /\ Drawn(feature, shape, m) /\ shape.paths[m + 1] = path
    BY <1>1, <2>1
  <2> HIDE DEF m, n, path
  <2>3. Drawn(Append(feature, shape.paths[m + 1]), shape, m + 1)
    BY <1>1, <1>5, <2>1, <2>2, DrawnAppend
  <2>4. Append(feature, path) \in Seq(Seq(Points))
    BY <1>1, <1>5, AppendProperties
  <2>5. QED
    BY <2>1, <2>2, <2>3, <2>4
<1>9. feature' \in Seq(Seq(Points)) /\ Drawn(feature', shape, n)
  BY <1>2, <1>6, <1>8
<1>10. CASE shape.type = "LINE"
  <2>1. pc' = "parsed" /\ accepted' = overlapsWith(envelope, box_)
    BY <1>10 DEF AddGeometry
  <2>2. (StoredInv /\ shape.type # "POINT" /\ Tight(envelope, PointsOf(shape)))'
    BY <1>2, <1>3, <1>4, <1>10
  <2>3. (geoPtr = Len(body) + 1 /\ Drawn(feature, shape, Len(shape.paths)))'
    BY <1>2, <1>4, <1>9, <1>10
  <2>4. (DrawnAsStored /\ IsBoxOf(envelope, shape))'
    BY <1>2, <2>1, <2>2, <2>3, ParsedRightNext
  <2>5. QED
    BY <1>3, <1>9, <2>1, <2>4 DEF Inv, StoredInv, WalkInv, BoundsAgree
<1>11. CASE shape.type = "POLYGON"
  <2>1. pc' = "ring"
    BY <1>11 DEF AddGeometry
  <2>2. PathsBegun' = n
    BY <1>2 DEF PathsBegun
  <2>3. BetweenPaths'
    BY <1>2, <1>4, <1>11, <2>2 DEF BetweenPaths
  <2>4. Drawn(feature, shape, PathsBegun)'
    BY <1>2, <1>9, <2>2
  <2>5. QED
    BY <1>3, <1>9, <2>1, <2>3, <2>4 DEF Inv, StoredInv, WalkInv, DrawnAsStored, BoundsAgree
<1>12. QED
  BY <1>1, <1>10, <1>11

(* getBounds() *)

LEMMA GetPointKeeps == Inv /\ GetPoint => Inv'
<1> SUFFICES ASSUME Inv, GetPoint PROVE Inv'
  OBVIOUS
<1>1. StoredInv /\ shape.type = "POINT" /\ feature \in Seq(Seq(Points))
  BY DEF Inv, StoredInv, GetPoint
<1>2. /\ shape' = shape /\ feature' = feature /\ pc' = "bounded"
      /\ envelope' = [xMin |-> body[1], xMax |-> body[1], yMin |-> body[2], yMax |-> body[2]]
  BY DEF GetPoint, stored
<1>3. StoredInv'
  BY <1>1, StoredStays DEF GetPoint
<1>4. Tight(envelope', PointsOf(shape)) /\ shape \in Shapes
  BY <1>1, <1>2, PointBox DEF StoredInv
<1>5. IsBoxOf(envelope', shape)
  BY <1>4, TightIsBox
<1>6. QED
  BY <1>1, <1>2, <1>3, <1>5 DEF Inv, StoredInv, WalkInv, DrawnAsStored, BoundsAgree

LEMMA GetLineKeeps == Inv /\ GetLine => Inv'
<1> SUFFICES ASSUME Inv, GetLine PROVE Inv'
  OBVIOUS
<1>1. /\ StoredInv /\ AtStart /\ shape.type = "LINE" /\ feature \in Seq(Seq(Points))
      /\ feature' = feature /\ x' = 0 /\ y' = 0 /\ pc' = "getPoints"
  BY DEF Inv, StoredInv, GetLine, WalkInv, AtStart
<1>2. InPath'
  BY <1>1, LineBegins DEF GetLine
<1>3. StoredInv'
  BY <1>1, StoredStays DEF GetLine
<1>4. QED
  BY <1>1, <1>2, <1>3 DEF Inv, StoredInv, WalkInv, DrawnAsStored, BoundsAgree

LEMMA GetPolygonKeeps == Inv /\ GetPolygon => Inv'
<1> SUFFICES ASSUME Inv, GetPolygon PROVE Inv'
  OBVIOUS
<1>1. /\ StoredInv /\ AtStart /\ shape.type = "POLYGON" /\ feature \in Seq(Seq(Points))
      /\ feature' = feature /\ pc' = "getRing"
  BY DEF Inv, StoredInv, GetPolygon, WalkInv, AtStart
<1>2. BetweenPaths'
  BY <1>1, PolygonBegins DEF GetPolygon
<1>3. StoredInv'
  BY <1>1, StoredStays DEF GetPolygon
<1>4. QED
  BY <1>1, <1>2, <1>3 DEF Inv, StoredInv, WalkInv, DrawnAsStored, BoundsAgree

LEMMA GetRingKeeps == Inv /\ GetRing => Inv'
<1> SUFFICES ASSUME Inv, GetRing PROVE Inv'
  OBVIOUS
<1>1. /\ StoredInv /\ BetweenPaths /\ feature \in Seq(Seq(Points))
      /\ feature' = feature /\ x' = 0 /\ y' = 0 /\ pc' = "getPoints"
  BY DEF Inv, StoredInv, GetRing, WalkInv
<1>2. InPath'
  BY <1>1, PathBegins DEF GetRing
<1>3. StoredInv'
  BY <1>1, StoredStays DEF GetRing
<1>4. QED
  BY <1>1, <1>2, <1>3 DEF Inv, StoredInv, WalkInv, DrawnAsStored, BoundsAgree

LEMMA GetDistanceKeeps == Inv /\ GetDistance => Inv'
<1> SUFFICES ASSUME Inv, GetDistance PROVE Inv'
  OBVIOUS
<1> DEFINE n == PathsBegun
           k == PointsRead
           path == shape.paths[n]
<1>1. /\ StoredInv /\ InPath /\ numPoints > 0 /\ (k = 0 => x = 0 /\ y = 0)
      /\ feature \in Seq(Seq(Points))
  BY DEF Inv, StoredInv, GetDistance, WalkInv
<1>2. /\ path \in Seq(Points) /\ k \in 0 .. Len(path) - 1 /\ path[k + 1] \in Points
      /\ k = 0 => body[geoPtr] = path[k + 1][1] /\ body[geoPtr + 1] = path[k + 1][2]
      /\ k > 0 => /\ x + body[geoPtr] = path[k + 1][1]
                  /\ y + body[geoPtr + 1] = path[k + 1][2]
  BY <1>1, NextPoint
<1>3. x + body[geoPtr] = path[k + 1][1] /\ y + body[geoPtr + 1] = path[k + 1][2]
  <2>1. path[k + 1][1] \in Int /\ path[k + 1][2] \in Int
    BY <1>2, PointsTyped
  <2>2. k = 0 \/ k > 0
    <3> HIDE DEF k
    <3>1. QED
      BY <1>2
  <2> HIDE DEF k, path
  <2>3. QED
    BY <1>1, <1>2, <2>1, <2>2
<1>4. Draw(path[k + 1][1], path[k + 1][2])
  BY <1>3 DEF GetDistance
<1>5. InPath' /\ PointsRead' = k + 1 /\ geoPtr' <= Len(body) + 1
  BY <1>1, <1>4, DrawsNext
<1>6. StoredInv' /\ feature' = feature
  BY <1>1, StoredStays DEF GetDistance, Draw
<1>7. pc' = "getPoints"
  BY <1>5 DEF GetDistance
<1>8. PointsRead' # 0
  <2> HIDE DEF k
  <2>1. QED
    BY <1>2, <1>5
<1>9. QED
  BY <1>1, <1>5, <1>6, <1>7, <1>8 DEF Inv, StoredInv, WalkInv, DrawnAsStored, BoundsAgree

LEMMA EndRingKeeps == Inv /\ EndRing => Inv'
<1> SUFFICES ASSUME Inv, EndRing PROVE Inv'
  OBVIOUS
<1>1. /\ StoredInv /\ InPath /\ numPoints = 0 /\ shape.type = "POLYGON"
      /\ feature \in Seq(Seq(Points))
  BY DEF Inv, StoredInv, EndRing, WalkInv
<1>2. BetweenPaths
  BY <1>1, PathEnd
<1>3. /\ shape' = shape /\ numRings' = numRings /\ geoPtr' = geoPtr /\ envelope' = envelope
      /\ feature' = feature /\ pc' = "getRing"
  BY DEF EndRing, stored
<1>4. BetweenPaths'
  BY <1>2, <1>3 DEF BetweenPaths, PathsBegun
<1>5. StoredInv'
  BY <1>1, StoredStays DEF EndRing
<1>6. QED
  BY <1>1, <1>3, <1>4, <1>5 DEF Inv, StoredInv, WalkInv, DrawnAsStored, BoundsAgree

LEMMA BoundedKeeps == Inv /\ Bounded => Inv'
<1> SUFFICES ASSUME Inv, Bounded PROVE Inv'
  OBVIOUS
<1>1. StoredInv /\ feature \in Seq(Seq(Points))
  BY DEF Inv, StoredInv
<1>2. geoPtr = Len(body) + 1 /\ Tight(envelope, PointsOf(shape))
  <2>1. CASE pc = "getPoints" /\ numPoints = 0 /\ shape.type = "LINE"
    <3>1. InPath
      BY <2>1 DEF Inv, WalkInv
    <3>2. QED
      BY <1>1, <2>1, <3>1, PathEnd
  <2>2. CASE pc = "getRing" /\ numRings = 0
    <3>1. BetweenPaths
      BY <2>2 DEF Inv, WalkInv
    <3>2. QED
      BY <1>1, <2>2, <3>1, PolygonEnds
  <2>3. QED
    BY <2>1, <2>2 DEF Bounded
<1>3. /\ shape' = shape /\ envelope' = envelope /\ feature' = feature /\ pc' = "bounded"
  BY <1>2 DEF Bounded, stored
<1>4. StoredInv'
  BY <1>1, StoredStays DEF Bounded
<1>5. IsBoxOf(envelope, shape)
  BY <1>1, <1>2, TightIsBox DEF StoredInv
<1>6. QED
  BY <1>1, <1>3, <1>4, <1>5 DEF Inv, StoredInv, WalkInv, DrawnAsStored, BoundsAgree

LEMMA InvNext == Inv /\ [Next]_vars => Inv'
BY InvStutter, ParsePointKeeps, ParseLineKeeps, ParsePolygonKeeps, ParseRingKeeps,
   EndPolygonKeeps, MoveToKeeps, LineToKeeps, AddGeometryKeeps, GetPointKeeps, GetLineKeeps,
   GetPolygonKeeps, GetRingKeeps, GetDistanceKeeps, EndRingKeeps, BoundedKeeps
   DEF Next

(* In every state of a walk its position, what it has drawn and its box    *)
(* are those of the points it has read.                                    *)
THEOREM Invariance == Spec => []Inv
<1>1. QED
  BY InvInit, InvNext, PTL DEF Spec

(* The renderer is given the paths as they were stored, and, where every   *)
(* coordinate has 32 bits, a line or a polygon just if its bounding box    *)
(* meets the query box, for shapes of any number of rings and points,      *)
(* empty ones among them; a polygon ends the process instead only where a  *)
(* ring of it has as many points as the assertion forbids.                 *)
THEOREM ShapesAreDrawn == Spec => []DrawnAsStored
<1>1. Inv => DrawnAsStored
  BY DEF Inv
<1>2. QED
  BY <1>1, Invariance, PTL

(* getBounds() finds the bounding box of what 32 bits keep of the points,  *)
(* which is that of the shape where every coordinate has 32 bits; so do    *)
(* the parse functions, and getBounds() refuses no record.                 *)
THEOREM BoundsAreExact == Spec => []BoundsAgree
<1>1. Inv => BoundsAgree
  BY DEF Inv
<1>2. QED
  BY <1>1, Invariance, PTL

-----------------------------------------------------------------------------
(* The walks stay in the body and come to an end. *)

Ended == {"parsed", "bounded", "failed", "aborted"}

(* How many cells the walk reads next. *)
CellsToCome ==
    CASE pc \in {"parse", "getBounds"} -> IF shape.type = "POINT" THEN 2 ELSE 1
      [] pc \in {"ring", "getRing"} -> IF numRings > 0 THEN 1 ELSE 0
      [] pc = "moveTo" -> 2
      [] pc \in {"lineTo", "getPoints"} -> IF numPoints > 0 THEN 2 ELSE 0
      [] pc \in Ended -> 0

Walking == {"parse", "getBounds", "ring", "getRing", "moveTo", "lineTo", "getPoints"}

ReadsInBody ==
    /\ pc \in Walking \cup Ended
    /\ geoPtr \in Nat /\ Len(body) \in Nat
    /\ geoPtr + CellsToCome <= Len(body) + 1

Rank ==
    CASE pc \in {"lineTo", "getPoints"} -> 2
      [] pc \in {"parse", "getBounds", "ring", "getRing"} -> 1
      [] pc \in {"moveTo"} \cup Ended -> 0

(* A bound on the steps a walk still takes: three for a cell. *)
StepsLeft == 3 * (Len(body) + 1 - geoPtr) + Rank

(* The invariant places a walk where the cells it reads next are. *)
LEMMA WalkIsInBody ==
    ASSUME Inv, pc \in Walking
    PROVE  ReadsInBody
<1>1. StoredInv /\ shape \in Shapes /\ body = Body(shape)
  BY DEF Inv, StoredInv
<1>2. CASE pc \in {"parse", "getBounds"}
  <2>1. geoPtr = 1
    BY <1>2 DEF Inv, WalkInv, AtStart
  <2>2. CASE shape.type = "POINT"
    <3>1. shape.paths = << << <<body[1], body[2]>> >> >>
      BY <1>1, <2>2, PointBox
    <3>2. body = shape.paths[1][1]
      BY <1>1, <2>2 DEF Body
    <3>3. body = <<body[1], body[2]>>
      BY <3>1, <3>2
    <3>4. Len(body) = 2
      BY <3>3
    <3>5. QED
      BY <1>2, <2>1, <2>2, <3>4 DEF ReadsInBody, CellsToCome, Walking, Ended
  <2>3. CASE shape.type = "LINE"
    <3>1. Len(body) = 2 * Len(shape.paths[1]) + 1 /\ Len(shape.paths[1]) \in Nat
      BY <1>1, <2>3, BodyOfLine
    <3>2. QED
      BY <1>2, <2>1, <2>3, <3>1 DEF ReadsInBody, CellsToCome, Walking, Ended
  <2>4. CASE shape.type = "POLYGON"
    <3>1. /\ Offset(shape, 1) = 1 /\ Len(body) \in Nat /\ Len(shape.paths) \in Nat
          /\ Offset(shape, Len(shape.paths) + 1) = Len(body)
      BY <1>1, <2>4, BodyOfPolygon, ShapeTyped
    <3>2. CASE Len(shape.paths) = 0
      <4>1. Len(body) = 1
        BY <3>1, <3>2
      <4>2. QED
        BY <1>2, <2>1, <2>4, <4>1 DEF ReadsInBody, CellsToCome, Walking, Ended
    <3>3. CASE Len(shape.paths) # 0
      <4>1. 1 \in 1 .. Len(shape.paths)
        BY <3>1, <3>3
      <4>2. Offset(shape, 1) + 2 * Len(shape.paths[1]) + 1 <= Len(body)
            /\ Len(shape.paths[1]) \in Nat
        BY <1>1, <2>4, <4>1, CellsOfPath
      <4>3. QED
        BY <1>2, <2>1, <2>4, <3>1, <4>2, SMTT(30) DEF ReadsInBody, CellsToCome, Walking, Ended
    <3>4. QED
      BY <3>2, <3>3
  <2>5. QED
    BY <1>1, <2>2, <2>3, <2>4, ShapeTyped
<1>3. CASE pc \in {"ring", "getRing"}
  <2>1. BetweenPaths
    BY <1>3 DEF Inv, WalkInv
  <2>2. numRings \in 0 .. Len(shape.paths) /\ shape.type = "POLYGON" /\ Len(shape.paths) \in Nat
    BY <1>1, <2>1, ShapeTyped DEF BetweenPaths
  <2>3. CASE numRings = 0
    <3>1. geoPtr = Len(body) + 1 /\ Len(body) \in Nat
      BY <1>1, <2>1, <2>2, <2>3, PolygonEnds, BodyOfPolygon
    <3>2. QED
      BY <1>3, <2>3, <3>1 DEF ReadsInBody, CellsToCome, Walking, Ended
  <2>4. CASE numRings > 0
    <3> DEFINE n == PathsBegun + 1
    <3>1. n \in 1 .. Len(shape.paths)
      BY <2>2, <2>4 DEF PathsBegun
    <3>2. geoPtr = Offset(shape, n) + 1
      BY <2>1 DEF BetweenPaths
    <3> HIDE DEF n
    <3>3. /\ Offset(shape, n) \in Nat /\ Len(body) \in Nat /\ Len(shape.paths[n]) \in Nat
          /\ Offset(shape, n) + 2 * Len(shape.paths[n]) + 1 <= Len(body)
      BY <1>1, <2>2, <3>1, CellsOfPath
    <3>4. geoPtr \in Nat /\ geoPtr + 1 <= Len(body) + 1
      BY <3>2, <3>3
    <3>5. CellsToCome = 1
      BY <1>3, <2>4 DEF CellsToCome, Ended
    <3>6. QED
      BY <1>3, <3>3, <3>4, <3>5 DEF ReadsInBody, Walking
  <2>5. QED
    BY <2>2, <2>3, <2>4
<1>4. CASE pc \in {"moveTo", "lineTo", "getPoints"}
  <2>1. InPath /\ (pc = "moveTo" => numPoints > 0)
    BY <1>4 DEF Inv, WalkInv
  <2>2. PICK l, o, k : /\ l \in Nat /\ o \in Nat /\ k \in 0 .. l /\ numPoints = l - k
                       /\ geoPtr = o + 2 + 2 * k /\ Len(body) \in Nat
                       /\ o + 2 * l + 1 <= Len(body)
    BY <1>1, <2>1, InPathFacts, Zenon
  <2>3. CellsToCome = IF numPoints > 0 THEN 2 ELSE 0
    BY <1>4, <2>1 DEF CellsToCome, Ended
  <2>4. geoPtr \in Nat /\ geoPtr + CellsToCome <= Len(body) + 1
    <3>1. CASE numPoints > 0
      BY <2>2, <2>3, <3>1
    <3>2. CASE ~ (numPoints > 0)
      BY <2>2, <2>3, <3>2
    <3>3. QED
      BY <3>1, <3>2
  <2>5. QED
    BY <1>4, <2>2, <2>4 DEF ReadsInBody, Walking
<1>5. QED
  BY <1>2, <1>3, <1>4 DEF Walking

LEMMA WalkIsInBodyNext == (Inv /\ pc \in Walking)' => ReadsInBody'
<1>1. Inv /\ pc \in Walking => ReadsInBody
  BY WalkIsInBody
<1>2. QED
  BY <1>1, PTL

(* What a step reads: the cells that are to come, or none. *)
LEMMA StepReads ==
    ASSUME Inv, Next
    PROVE  /\ UNCHANGED body
           /\ pc \in Walking /\ pc' \in Walking \cup Ended
           /\ Rank \in 0 .. 2 /\ Rank' \in 0 .. 2
           /\ \/ geoPtr' = geoPtr /\ CellsToCome \in 0 .. 2 /\ Rank' < Rank
              \/ geoPtr' = geoPtr + 1 /\ CellsToCome = 1 /\ Rank' <= Rank + 1
              \/ geoPtr' = geoPtr + 2 /\ CellsToCome = 2
<1>1. CASE ParsePoint \/ GetPoint
  BY <1>1 DEF ParsePoint, GetPoint, stored, Walking, Ended, Rank, CellsToCome
<1>2. CASE ParseLine \/ ParsePolygon \/ GetLine \/ GetPolygon
  BY <1>2 DEF ParseLine, ParsePolygon, GetLine, GetPolygon, stored, Walking, Ended, Rank, CellsToCome
<1>3. CASE ParseRing \/ GetRing
  BY <1>3 DEF ParseRing, GetRing, stored, Walking, Ended, Rank, CellsToCome
<1>4. CASE EndPolygon \/ EndRing
  BY <1>4 DEF EndPolygon, EndRing, stored, Walking, Ended, Rank, CellsToCome
<1>5. CASE MoveTo \/ LineTo \/ GetDistance
  BY <1>5 DEF MoveTo, LineTo, GetDistance, Draw, stored, Walking, Ended, Rank, CellsToCome
<1>6. CASE AddGeometry
  BY <1>6 DEF AddGeometry, stored, Walking, Ended, Rank, CellsToCome
<1>7. CASE Bounded
  BY <1>7 DEF Bounded, stored, Walking, Ended, Rank, CellsToCome
<1>8. QED
  BY <1>1, <1>2, <1>3, <1>4, <1>5, <1>6, <1>7 DEF Next

LEMMA InitReads == Init => ReadsInBody
<1>1. Init => Inv /\ pc \in Walking
  BY InvInit DEF Init, Walking
<1>2. QED
  BY <1>1, WalkIsInBody

LEMMA StepReadsInBody ==
    ASSUME Inv, ReadsInBody, [Next]_vars, Inv'
    PROVE  ReadsInBody' /\ (Next => StepsLeft' < StepsLeft)
<1>1. CASE Next
  <2>1. /\ body' = body
        /\ pc' \in Walking \cup Ended
        /\ Rank \in 0 .. 2 /\ Rank' \in 0 .. 2
        /\ \/ geoPtr' = geoPtr /\ CellsToCome \in 0 .. 2 /\ Rank' < Rank
           \/ geoPtr' = geoPtr + 1 /\ CellsToCome = 1 /\ Rank' <= Rank + 1
           \/ geoPtr' = geoPtr + 2 /\ CellsToCome = 2
    BY <1>1, StepReads
  <2>2. PICK size : size \in Nat /\ size = Len(body)
    BY DEF ReadsInBody
  <2>3. /\ geoPtr \in Nat /\ geoPtr + CellsToCome <= size + 1
        /\ StepsLeft = 3 * (size + 1 - geoPtr) + Rank
        /\ StepsLeft' = 3 * (size + 1 - geoPtr') + Rank'
    BY <2>1, <2>2 DEF ReadsInBody, StepsLeft
  <2>4. geoPtr' \in Nat /\ geoPtr' <= size + 1 /\ StepsLeft' < StepsLeft
    <3> DEFINE g == geoPtr
               h == geoPtr'
               r == Rank
               t == Rank'
    <3>1. /\ g \in Nat /\ r \in 0 .. 2 /\ t \in 0 .. 2 /\ size \in Nat
          /\ StepsLeft = 3 * (size + 1 - g) + r /\ StepsLeft' = 3 * (size + 1 - h) + t
          /\ \/ h = g /\ g <= size + 1 /\ t < r
             \/ h = g + 1 /\ g + 1 <= size + 1 /\ t <= r + 1
             \/ h = g + 2 /\ g + 2 <= size + 1
      BY <2>1, <2>2, <2>3
    <3> HIDE DEF g, h, r, t
    <3>2. h \in Nat /\ h <= size + 1 /\ StepsLeft' < StepsLeft
      BY <3>1
    <3>3. QED
      BY <3>2 DEF h
  <2>5. ReadsInBody'
    <3>1. CASE pc' \in Walking
      BY <3>1, WalkIsInBodyNext
    <3>2. CASE pc' \in Ended
      <4>1. CellsToCome' = 0
        BY <3>2 DEF CellsToCome
      <4>2. QED
        BY <2>1, <2>2, <2>4, <3>2, <4>1 DEF ReadsInBody
    <3>3. QED
      BY <2>1, <3>1, <3>2
  <2>6. QED
    BY <2>4, <2>5
<1>2. CASE UNCHANGED vars /\ ~ Next
  BY <1>2 DEF vars, stored, ReadsInBody, CellsToCome
<1>3. QED
  BY <1>1, <1>2

(* No walk reads a cell that the body does not have, although the parse    *)
(* functions never look where it ends; and every step leaves fewer of a    *)
(* number of steps that the length of the body bounds from the start.      *)
THEOREM WalksAdvance ==
    /\ Spec => []ReadsInBody
    /\ Spec => [](StepsLeft \in Nat)
    /\ Spec => [][StepsLeft' < StepsLeft]_vars
<1>1. Inv /\ ReadsInBody /\ [Next]_vars /\ Inv'
        => ReadsInBody' /\ (Next => StepsLeft' < StepsLeft)
  BY StepReadsInBody
<1>2. ReadsInBody => StepsLeft \in Nat
  <2> SUFFICES ASSUME ReadsInBody PROVE StepsLeft \in Nat
    OBVIOUS
  <2>1. PICK size : size \in Nat /\ size = Len(body)
    BY DEF ReadsInBody
  <2>2. CellsToCome \in 0 .. 2 /\ Rank \in 0 .. 2
    BY DEF ReadsInBody, CellsToCome, Rank, Walking, Ended
  <2>3. geoPtr \in Nat /\ geoPtr <= size + 1 /\ StepsLeft = 3 * (size + 1 - geoPtr) + Rank
    BY <2>1, <2>2 DEF ReadsInBody, StepsLeft
  <2>4. QED
    BY <2>1, <2>2, <2>3
<1>3. Spec => []ReadsInBody
  BY <1>1, InitReads, Invariance, PTL DEF Spec
<1>4. Spec => [](StepsLeft \in Nat)
  BY <1>2, <1>3, PTL
<1>5. Spec => [][StepsLeft' < StepsLeft]_vars
  BY <1>1, <1>3, Invariance, PTL DEF Spec
<1>6. QED
  BY <1>3, <1>4, <1>5
===============================================================================
