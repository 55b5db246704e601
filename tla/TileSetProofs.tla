---------------------------- MODULE TileSetProofs ----------------------------
(***************************************************************************)
(* Facts about the operators of TileSet that the proofs about both feature *)
(* sets rest on.                                                           *)
(***************************************************************************)
EXTENDS TileSet, SequenceTheorems, NaturalsInduction, WellFoundedInduction,
        FiniteSetTheorems, TLAPS

(* Truncation to centimetres yields integers, so box_ is an envelope. *)
LEMMA QueryEnvelopesType ==
    ASSUME NEW q \in BoxType
    PROVE  QueryEnvelopes(q) \subseteq EnvelopeType
<1>1. ASSUME NEW v \in Int PROVE ToInt32(v) \subseteq Int
  <2>1. Truncate(v) \in Int
    BY UnitsAssumption DEF Truncate
  <2>2. QED
    BY <2>1, UnitsAssumption DEF ToInt32, Int32Min
<1>2. QED
  BY <1>1 DEF QueryEnvelopes, EnvelopeType, BoxType

(* The four calls a call ends with are calls. *)
LEMMA SubcallsType ==
    ASSUME NEW c \in CallType
    PROVE  Subcalls(c) \in Seq(CallType)
<1>1. ASSUME NEW q \in Quadrants, NEW a \in Int, NEW b \in Int, NEW d \in Int, NEW e \in Int
      PROVE  Call(Append(c.path, q), Box2D(a, b, d, e)) \in CallType
  <2>1. c.path \in Seq(Quadrants)
    BY DEF CallType
  <2>2. Append(c.path, q) \in Seq(Quadrants)
    BY <2>1
  <2>3. QED
    BY <2>2 DEF Call, CallType, Box2D, BoxType
<1>2. /\ c.tileBounds.minx \in Int /\ c.tileBounds.maxx \in Int
      /\ c.tileBounds.miny \in Int /\ c.tileBounds.maxy \in Int
  BY DEF CallType, BoxType
<1>3. /\ (c.tileBounds.minx + c.tileBounds.maxx) \div 2 \in Int
      /\ (c.tileBounds.miny + c.tileBounds.maxy) \div 2 \in Int
  BY <1>2
<1>4. 0 \in Quadrants /\ 1 \in Quadrants /\ 2 \in Quadrants /\ 3 \in Quadrants
  BY DEF Quadrants
<1>5. QED
  BY <1>1, <1>2, <1>3, <1>4, SMTT(40) DEF Subcalls

(* So is the call on the whole world, which the constructors start with.   *)
LEMMA FirstCallType == <<Call(<<>>, World)>> \in Seq(CallType)
<1>1. World \in BoxType
  BY UnitsAssumption DEF World, Box2D, BoxType
<1>2. Call(<<>>, World) \in CallType
  BY <1>1 DEF Call, CallType
<1>3. QED
  BY <1>2

(* What pop_back() leaves, and what back() was. *)
LEMMA PopBack ==
    ASSUME NEW S, NEW s \in Seq(S), s # <<>>
    PROVE  LET n == Len(s)
               popped == SubSeq(s, 1, n - 1)
           IN  /\ n \in Nat \ {0}
               /\ s[n] \in S
               /\ popped \in Seq(S)
               /\ Len(popped) = n - 1
               /\ \A i \in 1 .. n - 1 : popped[i] = s[i] /\ s[i] \in S
<1>1. Len(s) \in Nat \ {0} /\ s \in [1 .. Len(s) -> S]
  BY EmptySeq, LenProperties
<1>2. SubSeq(s, 1, Len(s) - 1) = [i \in 1 .. Len(s) - 1 |-> s[i]]
  BY <1>1
<1>3. \A i \in 1 .. Len(s) - 1 : s[i] \in S
  BY <1>1
<1>4. SubSeq(s, 1, Len(s) - 1) \in Seq(S)
  BY <1>1, <1>2, <1>3, SubSeqProperties
<1>5. QED
  BY <1>1, <1>2, <1>3, <1>4

-----------------------------------------------------------------------------
(* Induction *)

(* Induction over the natural numbers, for a set instead of a predicate:   *)
(* from the least number outside of S, as Nat is well-founded.             *)
LEMMA SetInduction ==
    ASSUME NEW S, 0 \in S, \A n \in Nat : n \in S => n + 1 \in S
    PROVE  \A n \in Nat : n \in S
<1> DEFINE LessThan == {p \in Nat \X Nat : p[1] < p[2]}
           T == {n \in Nat : n \notin S}
<1>1. IsWellFoundedOn(LessThan, Nat)
  BY NatLessThanWellFounded DEF OpToRel
<1>2. SUFFICES ASSUME T # {} PROVE FALSE
  OBVIOUS
<1>3. PICK m \in T : \A n \in T : ~ (<<n, m>> \in LessThan)
  <2>1. T \subseteq Nat
    OBVIOUS
  <2> HIDE DEF LessThan, T
  <2>2. QED
    BY <1>1, <1>2, <2>1, WFMin
<1>4. m \in Nat /\ m # 0 /\ m - 1 \in Nat /\ (m - 1) + 1 = m
  OBVIOUS
<1>5. m - 1 \notin S
  BY <1>4
<1>6. m - 1 \in T /\ <<m - 1, m>> \in LessThan
  BY <1>4, <1>5
<1>7. QED
  BY <1>3, <1>6

-----------------------------------------------------------------------------
(* Regions *)

Path == Seq(Quadrants)

(* The quarter of a box, by its digit, as Region has it. *)
Quarter(whole, digit) ==
    LET half == (whole.maxx - whole.minx) \div 2
        west == whole.minx + (IF digit \in {1, 3} THEN half ELSE 0)
        south == whole.miny + (IF digit \in {0, 1} THEN half ELSE 0)
    IN  Box2D(west, south, west + half, south + half)

(* The regions of the tiles on the way to a path. *)
IsTrace(b, p) ==
    b = [k \in 0 .. Len(p) |-> IF k = 0 THEN World ELSE Quarter(b[k - 1], p[k])]

LEMMA TraceUnique ==
    ASSUME NEW p \in Path, NEW q \in Path, NEW b, NEW c, IsTrace(b, p), IsTrace(c, q),
           Under(p, q)
    PROVE  \A k \in 0 .. Len(q) : b[k] = c[k]
<1> DEFINE S == {k \in Nat : k <= Len(q) => b[k] = c[k]}
<1>1. Len(p) \in Nat /\ Len(q) \in Nat /\ Len(q) <= Len(p)
  BY DEF Path, Under
<1>2. /\ \A k \in 0 .. Len(p) : b[k] = IF k = 0 THEN World ELSE Quarter(b[k - 1], p[k])
      /\ \A k \in 0 .. Len(q) : c[k] = IF k = 0 THEN World ELSE Quarter(c[k - 1], q[k])
  BY Zenon DEF IsTrace
<1>3. 0 \in S
  BY <1>1, <1>2
<1>4. ASSUME NEW k \in Nat, k \in S
      PROVE  k + 1 \in S
  <2> SUFFICES ASSUME k + 1 <= Len(q) PROVE b[k + 1] = c[k + 1]
    OBVIOUS
  <2>1. /\ k + 1 \in 0 .. Len(p) /\ k + 1 \in 0 .. Len(q) /\ k + 1 \in 1 .. Len(q)
        /\ k + 1 # 0 /\ (k + 1) - 1 = k /\ k <= Len(q)
    BY <1>1
  <2>2. b[k + 1] = Quarter(b[k], p[k + 1]) /\ c[k + 1] = Quarter(c[k], q[k + 1])
    BY <1>2, <2>1, Zenon
  <2>3. b[k] = c[k] /\ p[k + 1] = q[k + 1]
    BY <1>4, <2>1 DEF Under
  <2>4. QED
    BY <2>2, <2>3
<1>5. \A k \in Nat : k \in S
  <2> HIDE DEF S
  <2>1. QED
    BY <1>3, <1>4, SetInduction
<1>6. QED
  BY <1>1, <1>5

(* A path without its last digit. *)
Parent(p) == SubSeq(p, 1, Len(p) - 1)

LEMMA ParentPath ==
    ASSUME NEW p \in Path, p # <<>>
    PROVE  /\ Parent(p) \in Path
           /\ Len(p) \in Nat \ {0}
           /\ Len(Parent(p)) = Len(p) - 1
           /\ p[Len(p)] \in Quadrants
           /\ p = Append(Parent(p), p[Len(p)])
           /\ Under(p, Parent(p))
<1>1. /\ Len(p) \in Nat \ {0} /\ Parent(p) \in Path /\ Len(Parent(p)) = Len(p) - 1
      /\ p[Len(p)] \in Quadrants
      /\ \A i \in 1 .. Len(p) - 1 : Parent(p)[i] = p[i]
  BY PopBack DEF Path, Parent
<1>2. p = Append(Parent(p), p[Len(p)])
  BY <1>1 DEF Path
<1>3. Under(p, Parent(p))
  BY <1>1 DEF Under
<1>4. QED
  BY <1>1, <1>2, <1>3

LEMMA TraceExists == \A p \in Path : \E b : IsTrace(b, p)
<1> DEFINE S == {n \in Nat : \A p \in Path : Len(p) = n => \E b : IsTrace(b, p)}
<1>1. 0 \in S
  <2> SUFFICES ASSUME NEW p \in Path, Len(p) = 0 PROVE \E b : IsTrace(b, p)
    OBVIOUS
  <2> DEFINE b == [k \in 0 .. 0 |-> World]
  <2>1. b = [k \in 0 .. Len(p) |-> IF k = 0 THEN World ELSE Quarter(b[k - 1], p[k])]
    OBVIOUS
  <2>2. QED
    BY <2>1 DEF IsTrace
<1>2. ASSUME NEW n \in Nat, n \in S
      PROVE  n + 1 \in S
  <2> SUFFICES ASSUME NEW p \in Path, Len(p) = n + 1 PROVE \E b : IsTrace(b, p)
    OBVIOUS
  <2>1. p # <<>>
    BY DEF Path
  <2> DEFINE q == Parent(p)
  <2>2. q \in Path /\ Len(q) = n /\ Under(p, q)
    BY <2>1, ParentPath
  <2>3. PICK c : IsTrace(c, q)
    BY <1>2, <2>2
  <2> DEFINE b == [k \in 0 .. n + 1 |-> IF k = n + 1 THEN Quarter(c[n], p[n + 1]) ELSE c[k]]
  <2>4. \A k \in 0 .. n : c[k] = IF k = 0 THEN World ELSE Quarter(c[k - 1], q[k])
    BY <2>2, <2>3, Zenon DEF IsTrace
  <2> HIDE DEF q
  <2>5. ASSUME NEW k \in 0 .. n + 1
        PROVE  b[k] = IF k = 0 THEN World ELSE Quarter(b[k - 1], p[k])
    <3>1. CASE k = n + 1
      <4>1. k - 1 = n /\ n \in 0 .. n + 1 /\ n # n + 1 /\ k # 0
        BY <3>1
      <4>2. b[n] = c[n] /\ b[k] = Quarter(c[n], p[n + 1])
        BY <3>1, <4>1
      <4>3. QED
        BY <3>1, <4>1, <4>2, Zenon
    <3>2. CASE k # n + 1 /\ k # 0
      <4>1. /\ k \in 0 .. n /\ k \in 1 .. n
            /\ k - 1 \in 0 .. n + 1 /\ k - 1 # n + 1
        BY <3>2
      <4>2. b[k] = c[k] /\ b[k - 1] = c[k - 1]
        BY <3>2, <4>1
      <4>3. p[k] = q[k]
        BY <2>2, <4>1 DEF Under
      <4>4. c[k] = Quarter(c[k - 1], q[k])
        BY <2>4, <3>2, <4>1, Zenon
      <4>5. QED
        BY <3>2, <4>2, <4>3, <4>4
    <3>3. CASE k = 0
      <4>1. 0 \in 0 .. n /\ 0 # n + 1 /\ 0 \in 0 .. n + 1
        OBVIOUS
      <4>2. b[0] = c[0]
        BY <4>1
      <4>3. QED
        BY <2>4, <3>3, <4>1, <4>2
    <3>4. QED
      BY <3>1, <3>2, <3>3
  <2>6. b = [k \in 0 .. n + 1 |-> IF k = 0 THEN World ELSE Quarter(b[k - 1], p[k])]
    <3>1. \A k \in 0 .. n + 1 :
             (IF k = n + 1 THEN Quarter(c[n], p[n + 1]) ELSE c[k]) = b[k]
      OBVIOUS
    <3>2. QED
      BY <2>5, <3>1, Zenon
  <2>7. QED
    BY <2>6, Zenon DEF IsTrace
<1>3. \A n \in Nat : n \in S
  <2> HIDE DEF S
  <2>1. QED
    BY <1>1, <1>2, SetInduction
<1>4. QED
  BY <1>3 DEF Path

(* Region is what its definition says: there is such a function. *)
LEMMA RegionUnfolds ==
    /\ Region[<<>>] = World
    /\ \A p \in Path, d \in Quadrants : Region[Append(p, d)] = Quarter(Region[p], d)
<1> DEFINE Body(f) ==
             [path \in Seq(Quadrants) |->
                IF path = <<>> THEN World
                ELSE LET last == path[Len(path)]
                         whole == f[SubSeq(path, 1, Len(path) - 1)]
                         half == (whole.maxx - whole.minx) \div 2
                         west == whole.minx + (IF last \in {1, 3} THEN half ELSE 0)
                         south == whole.miny + (IF last \in {0, 1} THEN half ELSE 0)
                     IN  Box2D(west, south, west + half, south + half)]
           Trace(p) == CHOOSE b : IsTrace(b, p)
           g == [p \in Path |-> Trace(p)[Len(p)]]
<1>1. \A p \in Path : IsTrace(Trace(p), p)
  BY TraceExists
<1>2. ASSUME NEW p \in Path
      PROVE  g[p] = IF p = <<>> THEN World ELSE Quarter(g[Parent(p)], p[Len(p)])
  <2>1. Len(p) \in Nat
    BY DEF Path
  <2>2. \A k \in 0 .. Len(p) :
           Trace(p)[k] = IF k = 0 THEN World ELSE Quarter(Trace(p)[k - 1], p[k])
    BY <1>1, ZenonT(60) DEF IsTrace
  <2>3. CASE p = <<>>
    BY <2>1, <2>2, <2>3
  <2>4. CASE p # <<>>
    <3>1. /\ Parent(p) \in Path /\ Len(Parent(p)) = Len(p) - 1 /\ Len(p) # 0
          /\ Under(p, Parent(p))
      BY <2>4, ParentPath
    <3>2. Len(p) \in 0 .. Len(p) /\ Len(p) - 1 \in 0 .. Len(Parent(p))
      BY <2>1, <3>1
    <3>3. Trace(p)[Len(p) - 1] = Trace(Parent(p))[Len(p) - 1]
      <4> HIDE DEF Trace
      <4>1. IsTrace(Trace(p), p) /\ IsTrace(Trace(Parent(p)), Parent(p))
        BY <1>1, <3>1
      <4>2. \A k \in 0 .. Len(Parent(p)) : Trace(p)[k] = Trace(Parent(p))[k]
        BY <3>1, <4>1, TraceUnique
      <4>3. QED
        BY <3>2, <4>2
    <3>4. g[Parent(p)] = Trace(Parent(p))[Len(p) - 1]
      BY <3>1
    <3>5. g[p] = Quarter(Trace(p)[Len(p) - 1], p[Len(p)])
      BY <2>2, <3>1, <3>2, Zenon
    <3>6. QED
      BY <2>4, <3>3, <3>4, <3>5
  <2>5. QED
    BY <2>3, <2>4
<1> HIDE DEF Trace
<1>3. g = Body(g)
  BY <1>2, Zenon DEF Path, Parent, Quarter
<1>4. Region = Body(Region)
  <2> HIDE DEF g
  <2>1. \E f : f = Body(f)
    BY <1>3, ZenonT(60)
  <2>2. QED
    BY <2>1, Zenon DEF Region
<1>5. \A p \in Path : Region[p] = IF p = <<>> THEN World
                                  ELSE Quarter(Region[Parent(p)], p[Len(p)])
  BY <1>4, Zenon DEF Path, Parent, Quarter
<1>6. Region[<<>>] = World
  BY <1>5, EmptySeq, Zenon DEF Path
<1>7. ASSUME NEW p \in Path, NEW d \in Quadrants
      PROVE  Region[Append(p, d)] = Quarter(Region[p], d)
  <2>1. /\ Append(p, d) \in Path /\ Append(p, d) # <<>>
        /\ Len(Append(p, d)) = Len(p) + 1 /\ Append(p, d)[Len(p) + 1] = d
    BY DEF Path
  <2>2. Parent(Append(p, d)) = p
    BY DEF Path, Parent
  <2>3. QED
    BY <1>5, <2>1, <2>2, Zenon
<1>8. QED
  BY <1>6, <1>7

(* A region is a square. *)
Square(b) ==
    /\ b \in BoxType
    /\ b.minx <= b.maxx
    /\ b.maxy - b.miny = b.maxx - b.minx

Within(a, b) ==
    /\ b.minx <= a.minx /\ a.maxx <= b.maxx
    /\ b.miny <= a.miny /\ a.maxy <= b.maxy

LEMMA WithinTransitive ==
    ASSUME NEW a \in BoxType, NEW b \in BoxType, NEW c \in BoxType,
           Within(a, b), Within(b, c)
    PROVE  Within(a, c)
BY DEF Within, BoxType

LEMMA QuarterWithin ==
    ASSUME NEW b, Square(b), NEW d \in Quadrants
    PROVE  Square(Quarter(b, d)) /\ Within(Quarter(b, d), b)
<1> DEFINE half == (b.maxx - b.minx) \div 2
           east == IF d \in {1, 3} THEN half ELSE 0
           north == IF d \in {0, 1} THEN half ELSE 0
<1>1. /\ b.minx \in Int /\ b.maxx \in Int /\ b.miny \in Int /\ b.maxy \in Int
      /\ b.minx <= b.maxx /\ b.maxy - b.miny = b.maxx - b.minx
  BY DEF Square, BoxType
<1>2. half \in Nat /\ 2 * half <= b.maxx - b.minx
  BY <1>1
<1>3. Quarter(b, d) = Box2D(b.minx + east, b.miny + north,
                            b.minx + east + half, b.miny + north + half)
  BY DEF Quarter
<1>4. east \in 0 .. half /\ north \in 0 .. half
  <2> HIDE DEF half
  <2>1. QED
    BY <1>2
<1> HIDE DEF half, east, north
<1>5. QED
  BY <1>1, <1>2, <1>3, <1>4 DEF Square, Within, BoxType, Box2D

LEMMA RegionSquare == \A p \in Path : Square(Region[p])
<1> DEFINE S == {n \in Nat : \A p \in Path : Len(p) = n => Square(Region[p])}
<1>1. 0 \in S
  <2> SUFFICES ASSUME NEW p \in Path, Len(p) = 0 PROVE Square(Region[p])
    OBVIOUS
  <2>1. Region[p] = World
    BY RegionUnfolds DEF Path
  <2>2. Square(World)
    BY UnitsAssumption DEF Square, World, Box2D, BoxType
  <2>3. QED
    BY <2>1, <2>2
<1>2. ASSUME NEW n \in Nat, n \in S
      PROVE  n + 1 \in S
  <2> SUFFICES ASSUME NEW p \in Path, Len(p) = n + 1 PROVE Square(Region[p])
    OBVIOUS
  <2>1. p # <<>>
    BY DEF Path
  <2>2. /\ Parent(p) \in Path /\ Len(Parent(p)) = n
        /\ p[Len(p)] \in Quadrants /\ p = Append(Parent(p), p[Len(p)])
    BY <2>1, ParentPath
  <2>3. Square(Region[Parent(p)])
    BY <1>2, <2>2
  <2>4. Region[p] = Quarter(Region[Parent(p)], p[Len(p)])
    BY <2>2, RegionUnfolds
  <2>5. QED
    BY <2>2, <2>3, <2>4, QuarterWithin
<1>3. \A n \in Nat : n \in S
  <2> HIDE DEF S
  <2>1. QED
    BY <1>1, <1>2, SetInduction
<1>4. QED
  BY <1>3 DEF Path

(* A subtree covers no more than its root. *)
LEMMA RegionShrinks ==
    ASSUME NEW q \in Path
    PROVE  \A p \in Path : Under(p, q) => Within(Region[p], Region[q])
<1> DEFINE S == {n \in Nat : \A p \in Path :
                    Len(p) = Len(q) + n /\ Under(p, q) => Within(Region[p], Region[q])}
<1>0. Len(q) \in Nat
  BY DEF Path
<1>1. 0 \in S
  <2> SUFFICES ASSUME NEW p \in Path, Len(p) = Len(q) + 0, Under(p, q)
               PROVE  Within(Region[p], Region[q])
    OBVIOUS
  <2>1. p = q
    BY <1>0 DEF Under, Path
  <2>2. QED
    BY <2>1, RegionSquare DEF Within, Square, BoxType
<1>2. ASSUME NEW n \in Nat, n \in S
      PROVE  n + 1 \in S
  <2> SUFFICES ASSUME NEW p \in Path, Len(p) = Len(q) + (n + 1), Under(p, q)
               PROVE  Within(Region[p], Region[q])
    OBVIOUS
  <2>1. p # <<>>
    BY <1>0 DEF Path
  <2>2. /\ Parent(p) \in Path /\ Len(Parent(p)) = Len(q) + n
        /\ p[Len(p)] \in Quadrants /\ p = Append(Parent(p), p[Len(p)])
        /\ Under(p, Parent(p))
    BY <1>0, <2>1, ParentPath
  <2>3. Under(Parent(p), q)
    BY <1>0, <2>2 DEF Under
  <2>4. Within(Region[Parent(p)], Region[q])
    BY <1>2, <2>2, <2>3
  <2>5. Region[p] = Quarter(Region[Parent(p)], p[Len(p)])
    BY <2>2, RegionUnfolds
  <2>6. Square(Region[p]) /\ Square(Region[Parent(p)]) /\ Square(Region[q])
    BY <2>2, RegionSquare
  <2>7. Within(Region[p], Region[Parent(p)])
    BY <2>2, <2>5, <2>6, QuarterWithin
  <2>8. QED
    BY <2>4, <2>6, <2>7, WithinTransitive DEF Square
<1>3. \A n \in Nat : n \in S
  <2> HIDE DEF S
  <2>1. QED
    BY <1>1, <1>2, SetInduction
<1>4. QED
  <2> SUFFICES ASSUME NEW p \in Path, Under(p, q) PROVE Within(Region[p], Region[q])
    OBVIOUS
  <2>1. Len(p) - Len(q) \in Nat /\ Len(p) = Len(q) + (Len(p) - Len(q))
    BY <1>0 DEF Under, Path
  <2>2. QED
    BY <1>3, <2>1

(* A box whose middle is a whole number of units away from its corners. *)
HalvesExactly(b) == (b.maxx - b.minx) % 2 = 0

(* The bounds that a call computes for its four calls are the regions that *)
(* their digits mean.                                                      *)
LEMMA SubcallRegions ==
    ASSUME NEW c \in CallType, c.tileBounds = Region[c.path], HalvesExactly(c.tileBounds)
    PROVE  \A i \in 1 .. 4 : Subcalls(c)[i].tileBounds = Region[Subcalls(c)[i].path]
<1> DEFINE b == c.tileBounds
           half == (b.maxx - b.minx) \div 2
           xMid == (b.minx + b.maxx) \div 2
           yMid == (b.miny + b.maxy) \div 2
<1>1. c.path \in Path /\ Square(b)
  BY RegionSquare DEF CallType, Path
<1>2. /\ b.minx \in Int /\ b.maxx \in Int /\ b.miny \in Int /\ b.maxy \in Int
      /\ b.maxy - b.miny = b.maxx - b.minx
  BY <1>1 DEF Square, BoxType
<1>3. /\ half \in Int
      /\ xMid = b.minx + half /\ b.maxx = xMid + half
      /\ yMid = b.miny + half /\ b.maxy = yMid + half
  <2>1. ASSUME NEW lo \in Int, NEW hi \in Int, (hi - lo) % 2 = 0
        PROVE  /\ (lo + hi) \div 2 = lo + (hi - lo) \div 2
               /\ hi = (lo + hi) \div 2 + (hi - lo) \div 2
    BY <2>1
  <2>2. (b.maxx - b.minx) % 2 = 0 /\ (b.maxy - b.miny) % 2 = 0
    BY <1>2 DEF HalvesExactly
  <2>3. /\ xMid = b.minx + half /\ b.maxx = xMid + half
    BY <1>2, <2>1, <2>2
  <2>4. /\ yMid = b.miny + half /\ b.maxy = yMid + half
    <3>1. half = (b.maxy - b.miny) \div 2
      BY <1>2, Zenon
    <3>2. /\ yMid = b.miny + (b.maxy - b.miny) \div 2
          /\ b.maxy = yMid + (b.maxy - b.miny) \div 2
      BY <1>2, <2>1, <2>2
    <3>3. QED
      BY <3>1, <3>2, Zenon
  <2>5. QED
    BY <1>2, <2>3, <2>4
<1>4. \A d \in Quadrants : Region[Append(c.path, d)] = Quarter(b, d)
  BY <1>1, RegionUnfolds
<1>5. /\ Subcalls(c)[1] = Call(Append(c.path, 0), Box2D(b.minx, yMid, xMid, b.maxy))
      /\ Subcalls(c)[2] = Call(Append(c.path, 1), Box2D(xMid, yMid, b.maxx, b.maxy))
      /\ Subcalls(c)[3] = Call(Append(c.path, 2), Box2D(b.minx, b.miny, xMid, yMid))
      /\ Subcalls(c)[4] = Call(Append(c.path, 3), Box2D(xMid, b.miny, b.maxx, yMid))
  BY DEF Subcalls
<1>6. \A d \in Quadrants :
         Quarter(b, d) = LET west == b.minx + (IF d \in {1, 3} THEN half ELSE 0)
                             south == b.miny + (IF d \in {0, 1} THEN half ELSE 0)
                         IN  Box2D(west, south, west + half, south + half)
  BY DEF Quarter
<1> HIDE DEF b, half, xMid, yMid
<1>7. /\ Quarter(b, 0) = Box2D(b.minx, yMid, xMid, b.maxy)
      /\ Quarter(b, 1) = Box2D(xMid, yMid, b.maxx, b.maxy)
      /\ Quarter(b, 2) = Box2D(b.minx, b.miny, xMid, yMid)
      /\ Quarter(b, 3) = Box2D(xMid, b.miny, b.maxx, yMid)
  BY <1>2, <1>3, <1>6 DEF Quadrants, Box2D
<1>8. ASSUME NEW d \in Quadrants, NEW s, s = Call(Append(c.path, d), Quarter(b, d))
      PROVE  s.tileBounds = Region[s.path]
  BY <1>4, <1>8 DEF Call
<1>9. ASSUME NEW i \in 1 .. 4
      PROVE  Subcalls(c)[i].tileBounds = Region[Subcalls(c)[i].path]
  <2>1. 0 \in Quadrants /\ 1 \in Quadrants /\ 2 \in Quadrants /\ 3 \in Quadrants
    BY DEF Quadrants
  <2>2. /\ Subcalls(c)[1].tileBounds = Region[Subcalls(c)[1].path]
        /\ Subcalls(c)[2].tileBounds = Region[Subcalls(c)[2].path]
        /\ Subcalls(c)[3].tileBounds = Region[Subcalls(c)[3].path]
        /\ Subcalls(c)[4].tileBounds = Region[Subcalls(c)[4].path]
    BY <1>5, <1>7, <1>8, <2>1, Zenon
  <2>3. i = 1 \/ i = 2 \/ i = 3 \/ i = 4
    OBVIOUS
  <2>4. QED
    BY <2>2, <2>3, Zenon
<1>10. QED
  BY <1>9

-----------------------------------------------------------------------------
(* Subtrees *)

LEMMA UnderItself ==
    ASSUME NEW p \in Path
    PROVE  Under(p, p)
BY DEF Under, Path

(* What lies below a child lies below its parent, strictly. *)
LEMMA UnderChild ==
    ASSUME NEW p \in Path, NEW q \in Path, NEW d \in Quadrants, Under(p, Append(q, d))
    PROVE  Under(p, q) /\ p # q
<1>1. /\ Len(q) \in Nat /\ Len(p) \in Nat
      /\ Len(Append(q, d)) = Len(q) + 1
      /\ \A k \in 1 .. Len(q) : Append(q, d)[k] = q[k]
  BY DEF Path
<1>2. /\ Len(q) + 1 <= Len(p)
      /\ \A k \in 1 .. Len(q) + 1 : p[k] = Append(q, d)[k]
  BY <1>1 DEF Under
<1>3. \A k \in 1 .. Len(q) : k \in 1 .. Len(q) + 1
  BY <1>1
<1>4. \A k \in 1 .. Len(q) : p[k] = q[k]
  BY <1>1, <1>2, <1>3, Zenon
<1>5. Len(q) <= Len(p) /\ p # q
  BY <1>1, <1>2
<1>6. QED
  BY <1>4, <1>5 DEF Under

(* What a child lies below its parent lies below, or is below the parent.  *)
LEMMA ChildUnder ==
    ASSUME NEW p \in Path, NEW q \in Path, NEW d \in Quadrants, Under(Append(p, d), q)
    PROVE  Under(p, q) \/ Under(q, p)
<1>1. /\ Len(q) \in Nat /\ Len(p) \in Nat
      /\ Len(Append(p, d)) = Len(p) + 1
      /\ \A k \in 1 .. Len(p) : Append(p, d)[k] = p[k]
  BY DEF Path
<1>2. /\ Len(q) <= Len(p) + 1
      /\ \A k \in 1 .. Len(q) : Append(p, d)[k] = q[k]
  BY <1>1 DEF Under
<1>3. CASE Len(q) <= Len(p)
  BY <1>1, <1>2, <1>3 DEF Under
<1>4. CASE Len(q) = Len(p) + 1
  <2>1. \A k \in 1 .. Len(p) : q[k] = p[k]
    BY <1>1, <1>2, <1>4
  <2>2. QED
    BY <1>1, <1>4, <2>1 DEF Under
<1>5. QED
  BY <1>1, <1>2, <1>3, <1>4

(* Different children are apart. *)
LEMMA ChildrenApart ==
    ASSUME NEW p \in Path, NEW d \in Quadrants, NEW e \in Quadrants,
           Under(Append(p, d), Append(p, e))
    PROVE  d = e
<1>1. /\ Len(p) \in Nat /\ Len(Append(p, e)) = Len(p) + 1
      /\ Append(p, d)[Len(p) + 1] = d /\ Append(p, e)[Len(p) + 1] = e
  BY DEF Path
<1>2. Len(p) + 1 \in 1 .. Len(p) + 1
  BY <1>1
<1>3. QED
  BY <1>1, <1>2 DEF Under

(* The calls after the innermost one has turned to its four quadrants.     *)
Descended(cs) == Subcalls(Head(cs)) \o Tail(cs)

(* No pending call is for a tile below another one's. *)
Apart(cs) == \A i, j \in 1 .. Len(cs) : Under(cs[i].path, cs[j].path) => i = j

(* The tile p is in the subtree of a pending call. *)
Reaches(cs, p) == \E i \in 1 .. Len(cs) : Under(p, cs[i].path)

LEMMA HeadPath ==
    ASSUME NEW cs \in Seq(CallType), cs # <<>>
    PROVE  /\ 1 \in 1 .. Len(cs) /\ Head(cs) = cs[1] /\ Head(cs) \in CallType
           /\ Head(cs).path \in Path
           /\ \A i \in 1 .. Len(cs) : cs[i] \in CallType /\ cs[i].path \in Path
<1>1. Len(cs) \in Nat \ {0}
  BY EmptySeq
<1>2. \A i \in 1 .. Len(cs) : cs[i] \in CallType
  OBVIOUS
<1>3. Head(cs) = cs[1]
  OBVIOUS
<1>4. \A c \in CallType : c.path \in Path
  BY DEF CallType, Path
<1>5. 1 \in 1 .. Len(cs)
  BY <1>1
<1>6. QED
  BY <1>2, <1>3, <1>4, <1>5, Zenon

(* What is left when the innermost call returns. *)
LEMMA TailCalls ==
    ASSUME NEW cs \in Seq(CallType), cs # <<>>
    PROVE  /\ Tail(cs) \in Seq(CallType)
           /\ Len(cs) \in Nat \ {0}
           /\ Len(Tail(cs)) = Len(cs) - 1
           /\ \A i \in 1 .. Len(cs) - 1 : Tail(cs)[i] = cs[i + 1] /\ i + 1 \in 1 .. Len(cs)
<1>1. Tail(cs) \in Seq(CallType) /\ Len(cs) \in Nat \ {0} /\ Len(Tail(cs)) = Len(cs) - 1
  BY EmptySeq
<1>2. \A i \in 1 .. Len(cs) - 1 : Tail(cs)[i] = cs[i + 1]
  BY EmptySeq
<1>3. QED
  BY <1>1, <1>2

(* A call at the head is replaced by four, for its children. *)
LEMMA DescendCalls ==
    ASSUME NEW cs \in Seq(CallType), cs # <<>>
    PROVE  \E n \in Nat \ {0} :
             /\ n = Len(cs)
             /\ Descended(cs) \in Seq(CallType)
             /\ Len(Descended(cs)) = n + 3
             /\ \A i \in 1 .. 4 : /\ i - 1 \in Quadrants
                                  /\ Descended(cs)[i] = Subcalls(cs[1])[i]
                                  /\ Descended(cs)[i].path = Append(cs[1].path, i - 1)
             /\ \A i \in 5 .. n + 3 : /\ Descended(cs)[i] = cs[i - 3]
                                      /\ i - 3 \in 2 .. n
<1> DEFINE n == Len(cs)
           s == Subcalls(Head(cs))
           t == Tail(cs)
<1>1. /\ n \in Nat \ {0} /\ Head(cs) = cs[1] /\ Head(cs) \in CallType
      /\ t \in Seq(CallType) /\ Len(t) = n - 1
      /\ \A i \in 1 .. n - 1 : t[i] = cs[i + 1]
  BY HeadPath, TailCalls
<1>2. /\ s \in Seq(CallType) /\ Len(s) = 4 /\ s = Subcalls(cs[1])
      /\ s[1].path = Append(cs[1].path, 0) /\ s[2].path = Append(cs[1].path, 1)
      /\ s[3].path = Append(cs[1].path, 2) /\ s[4].path = Append(cs[1].path, 3)
  <2>1. s \in Seq(CallType)
    BY <1>1, SubcallsType
  <2>2. QED
    BY <1>1, <2>1 DEF Subcalls, Call
<1> HIDE DEF s, t, n
<1>3. /\ s \o t \in Seq(CallType)
      /\ Len(s \o t) = n + 3
      /\ \A i \in 1 .. 4 : (s \o t)[i] = s[i]
      /\ \A i \in 5 .. n + 3 : (s \o t)[i] = t[i - 4]
  <2>1. /\ s \o t \in Seq(CallType)
        /\ Len(s \o t) = Len(s) + Len(t)
        /\ \A i \in 1 .. Len(s) + Len(t) :
             (s \o t)[i] = IF i <= Len(s) THEN s[i] ELSE t[i - Len(s)]
    BY <1>1, <1>2, ConcatProperties
  <2>2. Len(s) = 4 /\ Len(t) = n - 1 /\ n \in Nat \ {0}
    BY <1>1, <1>2
  <2>3. QED
    BY <2>1, <2>2
<1>4. Descended(cs) = s \o t
  BY DEF s, t, Descended
<1>5. ASSUME NEW i \in 5 .. n + 3
      PROVE  Descended(cs)[i] = cs[i - 3] /\ i - 3 \in 2 .. n
  <2>1. i - 4 \in 1 .. n - 1 /\ (i - 4) + 1 = i - 3
    BY <1>1
  <2>2. (s \o t)[i] = t[i - 4] /\ t[i - 4] = cs[i - 3]
    BY <1>1, <1>3, <2>1, Zenon
  <2>3. i - 3 \in 2 .. n
    BY <1>1
  <2>4. QED
    BY <1>4, <2>2, <2>3
<1>6. ASSUME NEW i \in 1 .. 4
      PROVE  /\ i - 1 \in Quadrants
             /\ Descended(cs)[i] = Subcalls(cs[1])[i]
             /\ Descended(cs)[i].path = Append(cs[1].path, i - 1)
  <2>1. Descended(cs)[i] = s[i]
    BY <1>3, <1>4
  <2>2. \/ i = 1 /\ i - 1 = 0
        \/ i = 2 /\ i - 1 = 1
        \/ i = 3 /\ i - 1 = 2
        \/ i = 4 /\ i - 1 = 3
    OBVIOUS
  <2>3. 0 \in Quadrants /\ 1 \in Quadrants /\ 2 \in Quadrants /\ 3 \in Quadrants
    BY DEF Quadrants
  <2>4. QED
    BY <1>2, <2>1, <2>2, <2>3, Zenon
<1>7. QED
  BY <1>1, <1>3, <1>4, <1>5, <1>6, Zenon DEF n

(* Descending keeps the subtrees of the pending calls apart; what was in   *)
(* none of them still is not, and the tile that was entered no longer is.  *)
LEMMA DescendApart ==
    ASSUME NEW cs \in Seq(CallType), cs # <<>>, Apart(cs)
    PROVE  /\ Apart(Descended(cs))
           /\ \A p \in Path : p = Head(cs).path \/ ~ Reaches(cs, p)
                              => ~ Reaches(Descended(cs), p)
<1> DEFINE h == cs[1].path
           ds == Descended(cs)
<1>1. PICK n \in Nat \ {0} :
         /\ n = Len(cs)
         /\ Len(ds) = n + 3
         /\ \A i \in 1 .. 4 : i - 1 \in Quadrants /\ ds[i].path = Append(h, i - 1)
         /\ \A i \in 5 .. n + 3 : ds[i] = cs[i - 3] /\ i - 3 \in 2 .. n
  BY DescendCalls
<1>2. /\ 1 \in 1 .. n /\ h \in Path /\ Head(cs).path = h
      /\ \A i \in 1 .. n : cs[i].path \in Path
  BY <1>1, HeadPath
<1> HIDE DEF ds
<1>3. \A i \in 1 .. n + 3 : i \in 1 .. 4 \/ i \in 5 .. n + 3
  BY <1>1
<1>4. ASSUME NEW i \in 2 .. n
      PROVE  ~ Under(h, cs[i].path) /\ ~ Under(cs[i].path, h)
  BY <1>1, <1>2 DEF Apart
<1>5. ASSUME NEW i \in 1 .. n + 3, NEW j \in 1 .. n + 3,
             Under(ds[i].path, ds[j].path)
      PROVE  i = j
  <2>1. CASE i \in 1 .. 4 /\ j \in 1 .. 4
    <3>1. i - 1 = j - 1
      BY <1>1, <1>2, <1>5, <2>1, ChildrenApart
    <3>2. QED
      BY <3>1
  <2>2. CASE i \in 1 .. 4 /\ j \in 5 .. n + 3
    <3>1. j - 3 \in 2 .. n /\ cs[j - 3].path \in Path
      BY <1>1, <1>2, <2>2
    <3>2. Under(Append(h, i - 1), cs[j - 3].path)
      BY <1>1, <1>5, <2>2
    <3>3. QED
      BY <1>1, <1>2, <1>4, <2>2, <3>1, <3>2, ChildUnder
  <2>3. CASE i \in 5 .. n + 3 /\ j \in 1 .. 4
    <3>1. i - 3 \in 2 .. n /\ cs[i - 3].path \in Path
      BY <1>1, <1>2, <2>3
    <3>2. Under(cs[i - 3].path, Append(h, j - 1))
      BY <1>1, <1>5, <2>3
    <3>3. QED
      BY <1>1, <1>2, <1>4, <2>3, <3>1, <3>2, UnderChild
  <2>4. CASE i \in 5 .. n + 3 /\ j \in 5 .. n + 3
    <3>1. /\ i - 3 \in 1 .. n /\ j - 3 \in 1 .. n
          /\ Under(cs[i - 3].path, cs[j - 3].path)
      BY <1>1, <1>5, <2>4
    <3>2. i - 3 = j - 3
      BY <1>1, <3>1 DEF Apart
    <3>3. QED
      BY <3>2
  <2>5. QED
    BY <1>3, <2>1, <2>2, <2>3, <2>4
<1>6. ASSUME NEW p \in Path, p = h \/ ~ Reaches(cs, p),
             NEW c \in 1 .. n + 3, Under(p, ds[c].path)
      PROVE  FALSE
  <2>1. CASE c \in 1 .. 4
    <3>1. Under(p, Append(h, c - 1)) /\ c - 1 \in Quadrants
      BY <1>1, <1>6, <2>1
    <3>2. Under(p, h) /\ p # h
      BY <1>2, <3>1, UnderChild
    <3>3. QED
      BY <1>1, <1>2, <1>6, <3>2 DEF Reaches
  <2>2. CASE c \in 5 .. n + 3
    <3>1. c - 3 \in 2 .. n /\ c - 3 \in 1 .. n /\ Under(p, cs[c - 3].path)
      BY <1>1, <1>6, <2>2
    <3>2. QED
      BY <1>1, <1>4, <1>6, <3>1 DEF Reaches
  <2>3. QED
    BY <1>3, <2>1, <2>2
<1>7. Apart(ds)
  BY <1>1, <1>5 DEF Apart
<1>8. ASSUME NEW p \in Path, p = h \/ ~ Reaches(cs, p)
      PROVE  ~ Reaches(ds, p)
  BY <1>1, <1>6, <1>8 DEF Reaches
<1>9. QED
  BY <1>2, <1>7, <1>8 DEF ds

(* What a child lies below, and is not, its parent lies below. *)
LEMMA ProperAncestor ==
    ASSUME NEW p \in Path, NEW q \in Path, NEW d \in Quadrants,
           Under(Append(p, d), q), q # Append(p, d)
    PROVE  Under(p, q)
<1>1. /\ Len(q) \in Nat /\ Len(p) \in Nat /\ Append(p, d) \in Path
      /\ Len(Append(p, d)) = Len(p) + 1
      /\ \A k \in 1 .. Len(p) : Append(p, d)[k] = p[k]
  BY DEF Path
<1>2. /\ Len(q) <= Len(p) + 1
      /\ \A k \in 1 .. Len(q) : Append(p, d)[k] = q[k]
  BY <1>1 DEF Under
<1>3. CASE Len(q) <= Len(p)
  BY <1>1, <1>2, <1>3 DEF Under
<1>4. CASE Len(q) = Len(p) + 1
  <2>1. q = Append(p, d)
    <3> DEFINE a == Append(p, d)
    <3>1. a \in Seq(Quadrants) /\ q \in Seq(Quadrants) /\ Len(a) = Len(q)
          /\ \A k \in 1 .. Len(q) : a[k] = q[k]
      BY <1>1, <1>2, <1>4 DEF Path
    <3> HIDE DEF a
    <3>2. a = q
      BY <3>1
    <3>3. QED
      BY <3>2 DEF a
  <2>2. QED
    BY <2>1
<1>5. QED
  BY <1>1, <1>2, <1>3, <1>4

(* What lies below a tile, and is not that tile, lies below a child of it. *)
LEMMA BelowIsBelowChild ==
    ASSUME NEW p \in Path, NEW q \in Path, Under(p, q), p # q
    PROVE  \E d \in Quadrants : Under(p, Append(q, d))
<1>1. /\ Len(q) \in Nat /\ Len(p) \in Nat /\ Len(q) <= Len(p)
      /\ \A k \in 1 .. Len(q) : p[k] = q[k]
  BY DEF Path, Under
<1>2. Len(q) # Len(p)
  BY <1>1 DEF Path
<1> DEFINE d == p[Len(q) + 1]
<1>3. d \in Quadrants
  BY <1>1, <1>2 DEF Path
<1> HIDE DEF d
<1>4. /\ Len(Append(q, d)) = Len(q) + 1
      /\ Append(q, d)[Len(q) + 1] = d
      /\ \A k \in 1 .. Len(q) : Append(q, d)[k] = q[k]
  BY <1>3 DEF Path
<1>5. \A k \in 1 .. Len(q) + 1 : k \in 1 .. Len(q) \/ k = Len(q) + 1
  BY <1>1
<1>6. \A k \in 1 .. Len(q) + 1 : p[k] = Append(q, d)[k]
  BY <1>1, <1>4, <1>5, Zenon DEF d
<1>7. Under(p, Append(q, d))
  BY <1>1, <1>2, <1>4, <1>6 DEF Under
<1>8. QED
  BY <1>3, <1>7

-----------------------------------------------------------------------------
(* The descent visits the relevant tiles *)

LEMMA AncestryIsUnder ==
    ASSUME NEW p \in Path
    PROVE  Ancestry(p) = {q \in Path : Under(p, q)}
<1>1. Len(p) \in Nat /\ p \in Seq(Quadrants)
  BY DEF Path
<1>2. ASSUME NEW n \in 0 .. Len(p)
      PROVE  SubSeq(p, 1, n) \in Path /\ Under(p, SubSeq(p, 1, n))
  <2>1. /\ SubSeq(p, 1, n) \in Seq(Quadrants) /\ Len(SubSeq(p, 1, n)) = n
        /\ \A k \in 1 .. n : SubSeq(p, 1, n)[k] = p[k]
    BY <1>1
  <2>2. QED
    BY <1>1, <2>1 DEF Path, Under
<1>3. ASSUME NEW q \in Path, Under(p, q)
      PROVE  q = SubSeq(p, 1, Len(q)) /\ Len(q) \in 0 .. Len(p)
  <2>1. Len(q) \in Nat /\ q \in Seq(Quadrants) /\ Len(q) <= Len(p)
    BY <1>3 DEF Path, Under
  <2>2. /\ SubSeq(p, 1, Len(q)) \in Seq(Quadrants) /\ Len(SubSeq(p, 1, Len(q))) = Len(q)
        /\ \A k \in 1 .. Len(q) : SubSeq(p, 1, Len(q))[k] = q[k]
    BY <1>1, <1>3, <2>1 DEF Under
  <2>3. QED
    BY <1>1, <2>1, <2>2
<1>4. QED
  BY <1>2, <1>3 DEF Ancestry

(* A pending call knows what its tile covers, and it was made because the  *)
(* tiles above its own exist.                                              *)
BoundsRight(cs) == \A i \in 1 .. Len(cs) : cs[i].tileBounds = Region[cs[i].path]

WayExists(fs, cs) ==
    \A i \in 1 .. Len(cs) : \A q \in Path :
        Under(cs[i].path, q) /\ q # cs[i].path => Exists(fs, q)

LEMMA RelevantIsReachable ==
    ASSUME NEW fs, NEW q, NEW t
    PROVE  t \in Relevant(fs, q) <=>
             /\ t \in Tiles /\ t \in Path
             /\ \A p \in Path : Under(t, p) => Exists(fs, p)
             /\ Intersects(q, Region[t])
<1>1. t \in Tiles => t \in Path
  BY TilesAssumption DEF Path
<1>2. t \in Path => Ancestry(t) = {p \in Path : Under(t, p)}
  BY AncestryIsUnder
<1>3. QED
  BY <1>1, <1>2, Zenon DEF Relevant

LEMMA FirstCallCovers ==
    ASSUME NEW fs, NEW cs, cs = <<Call(<<>>, World)>>
    PROVE  /\ BoundsRight(cs) /\ WayExists(fs, cs)
           /\ \A t \in Path : Reaches(cs, t)
<1>1. Len(cs) = 1 /\ cs[1].path = <<>> /\ cs[1].tileBounds = World
  BY DEF Call
<1>2. 1 .. Len(cs) = {1}
  BY <1>1
<1>3. BoundsRight(cs)
  BY <1>1, <1>2, RegionUnfolds DEF BoundsRight
<1>4. ASSUME NEW q \in Path, Under(<<>>, q)
      PROVE  q = <<>>
  BY <1>4 DEF Path, Under
<1>5. ASSUME NEW t \in Path
      PROVE  Under(t, <<>>)
  BY DEF Path, Under
<1>6. QED
  BY <1>1, <1>2, <1>3, <1>4, <1>5 DEF WayExists, Reaches

(* A call that returns at once leaves no relevant tile out. *)
LEMMA SkipKeeps ==
    ASSUME NEW cs \in Seq(CallType), cs # <<>>, NEW fs, NEW q \in BoxType,
           BoundsRight(cs), WayExists(fs, cs)
    PROVE  /\ BoundsRight(Tail(cs)) /\ WayExists(fs, Tail(cs))
           /\ ~ Intersects(q, Head(cs).tileBounds) \/ ~ Exists(fs, Head(cs).path)
              => \A t \in Relevant(fs, q) : Reaches(cs, t) => Reaches(Tail(cs), t)
<1> DEFINE n == Len(cs)
           tl == Tail(cs)
<1>1. /\ n \in Nat \ {0} /\ Len(tl) = n - 1
      /\ \A i \in 1 .. n - 1 : tl[i] = cs[i + 1] /\ i + 1 \in 1 .. n
  BY TailCalls
<1>2. /\ Head(cs) = cs[1] /\ cs[1].path \in Path /\ 1 \in 1 .. n
  BY HeadPath
<1> HIDE DEF tl
<1>3. BoundsRight(tl) /\ WayExists(fs, tl)
  BY <1>1, SMTT(30) DEF BoundsRight, WayExists
<1>4. ASSUME ~ Intersects(q, cs[1].tileBounds) \/ ~ Exists(fs, cs[1].path),
             NEW t \in Relevant(fs, q), Reaches(cs, t)
      PROVE  Reaches(tl, t)
  <2>1. PICK i \in 1 .. n : Under(t, cs[i].path)
    BY <1>4 DEF Reaches
  <2>2. /\ t \in Path /\ Intersects(q, Region[t])
        /\ \A p \in Path : Under(t, p) => Exists(fs, p)
    BY <1>4, RelevantIsReachable
  <2>3. CASE i = 1
    <3>1. Exists(fs, cs[1].path)
      BY <1>2, <2>1, <2>2, <2>3
    <3>2. cs[1].tileBounds = Region[cs[1].path]
      BY <1>2 DEF BoundsRight
    <3>3. Within(Region[t], Region[cs[1].path])
      BY <1>2, <2>1, <2>2, <2>3, RegionShrinks
    <3>4. Region[t] \in BoxType /\ Region[cs[1].path] \in BoxType
      BY <1>2, <2>2, RegionSquare DEF Square
    <3>5. ASSUME NEW a \in BoxType, NEW b \in BoxType, Within(a, b), Intersects(q, a)
          PROVE  Intersects(q, b)
      BY <3>5 DEF Within, Intersects, BoxType
    <3>6. QED
      BY <1>4, <2>2, <3>1, <3>2, <3>3, <3>4, <3>5
  <2>4. CASE i # 1
    <3>1. i - 1 \in 1 .. n - 1 /\ (i - 1) + 1 = i
      BY <1>1, <2>4
    <3>2. Under(t, tl[i - 1].path)
      BY <1>1, <2>1, <3>1
    <3>3. QED
      BY <1>1, <3>1, <3>2 DEF Reaches
  <2>5. QED
    BY <2>3, <2>4
<1>5. QED
  BY <1>2, <1>3, <1>4 DEF tl

(* Where a call turns to the four quadrants of its tile, every tile below  *)
(* it but its own is in the subtree of one of them.                        *)
LEMMA DescendKeeps ==
    ASSUME NEW cs \in Seq(CallType), cs # <<>>, NEW fs, Exists(fs, Head(cs).path),
           BoundsRight(cs), WayExists(fs, cs)
    PROVE  /\ BoundsRight(Descended(cs)) /\ WayExists(fs, Descended(cs))
           /\ \A t \in Path : Reaches(cs, t) => t = Head(cs).path \/ Reaches(Descended(cs), t)
<1> DEFINE h == cs[1].path
           ds == Descended(cs)
<1>1. PICK n \in Nat \ {0} :
         /\ n = Len(cs)
         /\ Len(ds) = n + 3
         /\ \A i \in 1 .. 4 : /\ i - 1 \in Quadrants
                              /\ ds[i] = Subcalls(cs[1])[i]
                              /\ ds[i].path = Append(h, i - 1)
         /\ \A i \in 5 .. n + 3 : ds[i] = cs[i - 3] /\ i - 3 \in 2 .. n
  BY DescendCalls
<1>2. /\ 1 \in 1 .. n /\ h \in Path /\ Head(cs) = cs[1] /\ cs[1] \in CallType
      /\ \A i \in 1 .. n : cs[i].path \in Path
  BY <1>1, HeadPath
<1>3. \A i \in 1 .. n + 3 : i \in 1 .. 4 \/ i \in 5 .. n + 3
  BY <1>1
<1>4. \A i \in 2 .. n : i \in 1 .. n
  BY <1>1
<1>5. Exists(fs, h) /\ h \in Tiles
  BY <1>2 DEF Exists
<1>6. \A i \in 1 .. 4 : Subcalls(cs[1])[i].tileBounds = Region[Subcalls(cs[1])[i].path]
  <2>1. cs[1].tileBounds = Region[cs[1].path]
    BY <1>1, <1>2 DEF BoundsRight
  <2>2. HalvesExactly(cs[1].tileBounds)
    BY <1>5, <2>1, HalvingAssumption DEF HalvesExactly
  <2>3. QED
    BY <1>2, <2>1, <2>2, SubcallRegions
<1> HIDE DEF ds, h
<1>7. BoundsRight(ds)
  <2> SUFFICES ASSUME NEW i \in 1 .. n + 3 PROVE ds[i].tileBounds = Region[ds[i].path]
    BY <1>1 DEF BoundsRight
  <2>1. CASE i \in 1 .. 4
    BY <1>1, <1>6, <2>1, Zenon
  <2>2. CASE i \in 5 .. n + 3
    BY <1>1, <1>4, <2>2 DEF BoundsRight
  <2>3. QED
    BY <1>3, <2>1, <2>2
<1>8. WayExists(fs, ds)
  <2> SUFFICES ASSUME NEW i \in 1 .. n + 3, NEW q \in Path,
                      Under(ds[i].path, q), q # ds[i].path
               PROVE  Exists(fs, q)
    BY <1>1, Zenon DEF WayExists
  <2>1. CASE i \in 1 .. 4
    <3>1. Under(Append(h, i - 1), q) /\ q # Append(h, i - 1) /\ i - 1 \in Quadrants
      BY <1>1, <2>1
    <3>2. Under(h, q)
      BY <1>2, <3>1, ProperAncestor
    <3>3. QED
      BY <1>1, <1>2, <1>5, <3>2 DEF WayExists, h
  <2>2. CASE i \in 5 .. n + 3
    BY <1>1, <1>4, <2>2 DEF WayExists
  <2>3. QED
    BY <1>3, <2>1, <2>2
<1>9. ASSUME NEW t \in Path, Reaches(cs, t), t # h
      PROVE  Reaches(ds, t)
  <2>1. PICK i \in 1 .. n : Under(t, cs[i].path)
    BY <1>1, <1>9 DEF Reaches
  <2>2. CASE i = 1
    <3>1. PICK d \in Quadrants : Under(t, Append(h, d))
      BY <1>2, <1>9, <2>1, <2>2, BelowIsBelowChild DEF h
    <3>2. d + 1 \in 1 .. 4 /\ (d + 1) - 1 = d /\ d + 1 \in 1 .. n + 3
      BY <1>1 DEF Quadrants
    <3>3. Under(t, ds[d + 1].path)
      BY <1>1, <3>1, <3>2
    <3>4. QED
      BY <1>1, <3>2, <3>3 DEF Reaches
  <2>3. CASE i # 1
    <3>1. i + 3 \in 5 .. n + 3 /\ i + 3 \in 1 .. n + 3 /\ (i + 3) - 3 = i
      BY <1>1, <2>3
    <3>2. Under(t, ds[i + 3].path)
      BY <1>1, <2>1, <3>1
    <3>3. QED
      BY <1>1, <3>1, <3>2 DEF Reaches
  <2>4. QED
    BY <2>2, <2>3
<1>10. QED
  BY <1>2, <1>7, <1>8, <1>9 DEF ds, h

(* A tile that is entered is relevant. *)
LEMMA EnteredIsRelevant ==
    ASSUME NEW cs \in Seq(CallType), cs # <<>>, NEW fs, NEW q,
           BoundsRight(cs), WayExists(fs, cs),
           Exists(fs, Head(cs).path), Intersects(q, Head(cs).tileBounds)
    PROVE  Head(cs).path \in Relevant(fs, q)
<1> DEFINE h == cs[1].path
<1>1. 1 \in 1 .. Len(cs) /\ Head(cs) = cs[1] /\ h \in Path
  BY HeadPath
<1>2. h \in Tiles /\ Exists(fs, h)
  BY <1>1 DEF Exists
<1>3. Intersects(q, Region[h])
  BY <1>1 DEF BoundsRight
<1>4. \A p \in Path : Under(h, p) => Exists(fs, p)
  BY <1>1, <1>2 DEF WayExists
<1>5. QED
  BY <1>1, <1>2, <1>3, <1>4, RelevantIsReachable

-----------------------------------------------------------------------------
(* The descent ends *)

(* The order in which a loop is measured: by the first place where two     *)
(* tuples of numbers differ.                                               *)
Below(a, b) ==
    \E k \in DOMAIN b : a[k] < b[k] /\ \A j \in 1 .. k - 1 : a[j] = b[j]

LEMMA BelowAt ==
    ASSUME NEW a1, NEW a2, NEW a3, NEW a4, NEW b1, NEW b2, NEW b3, NEW b4,
           \/ a1 < b1
           \/ a1 = b1 /\ a2 < b2
           \/ a1 = b1 /\ a2 = b2 /\ a3 < b3
           \/ a1 = b1 /\ a2 = b2 /\ a3 = b3 /\ a4 < b4
    PROVE  Below(<<a1, a2, a3, a4>>, <<b1, b2, b3, b4>>)
<1> DEFINE a == <<a1, a2, a3, a4>>
           b == <<b1, b2, b3, b4>>
<1>1. /\ a[1] = a1 /\ a[2] = a2 /\ a[3] = a3 /\ a[4] = a4
      /\ b[1] = b1 /\ b[2] = b2 /\ b[3] = b3 /\ b[4] = b4
      /\ DOMAIN b = 1 .. 4
  OBVIOUS
<1> HIDE DEF a, b
<1>2. PICK k \in 1 .. 4 : a[k] < b[k] /\ \A j \in 1 .. k - 1 : a[j] = b[j]
  <2>1. CASE a[1] < b[1]
    BY <2>1
  <2>2. CASE a[1] = b[1] /\ a[2] < b[2]
    BY <2>2
  <2>3. CASE a[1] = b[1] /\ a[2] = b[2] /\ a[3] < b[3]
    <3>1. \A j \in 1 .. 2 : a[j] = b[j]
      BY <2>3
    <3>2. QED
      BY <2>3, <3>1
  <2>4. CASE a[1] = b[1] /\ a[2] = b[2] /\ a[3] = b[3] /\ a[4] < b[4]
    <3>1. \A j \in 1 .. 3 : a[j] = b[j]
      BY <2>4
    <3>2. QED
      BY <2>4, <3>1
  <2>5. QED
    BY <1>1, <2>1, <2>2, <2>3, <2>4
<1>3. Below(a, b)
  BY <1>1, <1>2 DEF Below
<1>4. QED
  BY <1>3 DEF a, b

(* The files that are still to be come upon: those in the subtrees of      *)
(* pending calls.                                                          *)
Pending(fs, cs) == {t \in Tiles : Exists(fs, t) /\ Reaches(cs, t)}

(* A bound on the calls still to return: each pending one, and the four    *)
(* that every file may bring about.                                        *)
CallsLeft(fs, cs) == 5 * Cardinality(Pending(fs, cs)) + Len(cs)

LEMMA CallsLeftType ==
    ASSUME NEW fs, NEW cs \in Seq(CallType), IsFiniteSet(Pending(fs, cs))
    PROVE  CallsLeft(fs, cs) \in Nat
BY FS_CardinalityType DEF CallsLeft

(* Files that go missing leave no more to be done. *)
LEMMA FewerFiles ==
    ASSUME NEW fs, NEW gs, NEW cs \in Seq(CallType), IsFiniteSet(Pending(fs, cs)),
           \A t \in Tiles : Exists(gs, t) => Exists(fs, t)
    PROVE  IsFiniteSet(Pending(gs, cs)) /\ CallsLeft(gs, cs) <= CallsLeft(fs, cs)
<1>1. Pending(gs, cs) \subseteq Pending(fs, cs)
  BY DEF Pending
<1>2. /\ IsFiniteSet(Pending(gs, cs))
      /\ Cardinality(Pending(gs, cs)) <= Cardinality(Pending(fs, cs))
      /\ Cardinality(Pending(gs, cs)) \in Nat /\ Cardinality(Pending(fs, cs)) \in Nat
  BY <1>1, FS_Subset, FS_CardinalityType
<1>3. QED
  BY <1>2 DEF CallsLeft

(* A call that returns at once is one less. *)
LEMMA SkipAdvances ==
    ASSUME NEW fs, NEW cs \in Seq(CallType), cs # <<>>, IsFiniteSet(Pending(fs, cs))
    PROVE  /\ IsFiniteSet(Pending(fs, Tail(cs)))
           /\ CallsLeft(fs, Tail(cs)) < CallsLeft(fs, cs)
<1> DEFINE tl == Tail(cs)
<1>1. PICK n \in Nat \ {0} : /\ n = Len(cs) /\ Len(tl) = n - 1
                             /\ \A i \in 1 .. n - 1 : tl[i] = cs[i + 1] /\ i + 1 \in 1 .. n
  BY TailCalls
<1> HIDE DEF tl
<1>2. Pending(fs, tl) \subseteq Pending(fs, cs)
  BY <1>1 DEF Pending, Reaches
<1>3. /\ IsFiniteSet(Pending(fs, tl))
      /\ Cardinality(Pending(fs, tl)) <= Cardinality(Pending(fs, cs))
      /\ Cardinality(Pending(fs, tl)) \in Nat /\ Cardinality(Pending(fs, cs)) \in Nat
  BY <1>2, FS_Subset, FS_CardinalityType
<1>4. CallsLeft(fs, tl) < CallsLeft(fs, cs)
  BY <1>1, <1>3 DEF CallsLeft
<1>5. QED
  BY <1>3, <1>4 DEF tl

LEMMA TailApart ==
    ASSUME NEW cs \in Seq(CallType), cs # <<>>, Apart(cs)
    PROVE  Apart(Tail(cs))
<1> DEFINE tl == Tail(cs)
<1>1. PICK n \in Nat \ {0} : /\ n = Len(cs) /\ Len(tl) = n - 1
                             /\ \A i \in 1 .. n - 1 : tl[i] = cs[i + 1] /\ i + 1 \in 1 .. n
  BY TailCalls
<1> HIDE DEF tl
<1>2. SUFFICES ASSUME NEW i \in 1 .. n - 1, NEW j \in 1 .. n - 1,
                      Under(tl[i].path, tl[j].path)
               PROVE  i = j
  BY <1>1 DEF Apart, tl
<1>3. i + 1 = j + 1
  BY <1>1, <1>2 DEF Apart
<1>4. QED
  BY <1>3

(* A file that is come upon will not be again: its subtree is left to its  *)
(* children, and no other pending call is for a part of it.                *)
LEMMA DescendAdvances ==
    ASSUME NEW fs, NEW cs \in Seq(CallType), cs # <<>>, IsFiniteSet(Pending(fs, cs)),
           Apart(cs), Exists(fs, Head(cs).path)
    PROVE  /\ IsFiniteSet(Pending(fs, Descended(cs)))
           /\ CallsLeft(fs, Descended(cs)) < CallsLeft(fs, cs)
<1> DEFINE h == Head(cs).path
           ds == Descended(cs)
<1>1. PICK n \in Nat \ {0} : n = Len(cs) /\ Len(ds) = n + 3
  BY DescendCalls
<1>2. \A p \in Path : p = h \/ ~ Reaches(cs, p) => ~ Reaches(ds, p)
  BY DescendApart
<1>3. h \in Path /\ 1 \in 1 .. Len(cs) /\ h = cs[1].path
  BY HeadPath
<1>4. h \in Pending(fs, cs)
  BY <1>3, UnderItself DEF Pending, Reaches, Exists
<1> HIDE DEF ds, h
<1>5. \A t \in Tiles : t \in Path
  BY TilesAssumption DEF Path
<1>6. Pending(fs, ds) \subseteq Pending(fs, cs) \ {h}
  BY <1>2, <1>5 DEF Pending
<1>7. /\ IsFiniteSet(Pending(fs, cs) \ {h})
      /\ Cardinality(Pending(fs, cs) \ {h}) = Cardinality(Pending(fs, cs)) - 1
  BY <1>4, FS_RemoveElement
<1>8. /\ IsFiniteSet(Pending(fs, ds))
      /\ Cardinality(Pending(fs, ds)) <= Cardinality(Pending(fs, cs)) - 1
      /\ Cardinality(Pending(fs, ds)) \in Nat /\ Cardinality(Pending(fs, cs)) \in Nat
  BY <1>6, <1>7, FS_Subset, FS_CardinalityType
<1>9. CallsLeft(fs, ds) < CallsLeft(fs, cs)
  BY <1>1, <1>8 DEF CallsLeft
<1>10. QED
  BY <1>8, <1>9 DEF ds

-----------------------------------------------------------------------------
(* Truncating the query box: what passes it nearly meets the exact box,    *)
(* and what meets the exact box passes it.                                 *)

(* Every coordinate of the box is in the range of int32_t centimetres. *)
FitsInt32(q) ==
    \A v \in {q.minx, q.miny, q.maxx, q.maxy} : Truncate(v) \in Int32Min .. Int32Max

(* Such a box is truncated at each side, whatever the processor. *)
LEMMA TruncatedBox ==
    ASSUME NEW q, FitsInt32(q), NEW box \in QueryEnvelopes(q)
    PROVE  /\ box.xMin = Truncate(q.minx) /\ box.xMax = Truncate(q.maxx)
           /\ box.yMin = Truncate(q.miny) /\ box.yMax = Truncate(q.maxy)
<1>1. \A v \in {q.minx, q.miny, q.maxx, q.maxy} : ToInt32(v) = {Truncate(v)}
  BY DEF FitsInt32, ToInt32
<1>2. QED
  BY <1>1 DEF QueryEnvelopes

(* Truncation moves a coordinate by less than a centimetre. *)
LEMMA TruncateNear ==
    ASSUME NEW v \in Int
    PROVE  /\ Truncate(v) \in Int
           /\ v - (UnitsPerCm - 1) <= Truncate(v) * UnitsPerCm
           /\ Truncate(v) * UnitsPerCm <= v + (UnitsPerCm - 1)
<1> DEFINE u == UnitsPerCm
<1>1. u \in Nat \ {0}
  BY UnitsAssumption
<1> HIDE DEF u
<1>2. ASSUME NEW x \in Nat
      PROVE  /\ x \div u \in Nat
             /\ (x \div u) * u <= x
             /\ x - (u - 1) <= (x \div u) * u
  BY <1>1
<1>3. CASE v >= 0
  <2>1. v \in Nat /\ Truncate(v) = v \div u
    BY <1>3 DEF Truncate, u
  <2>2. QED
    BY <1>1, <1>2, <2>1 DEF u
<1>4. CASE v < 0
  <2> DEFINE m == (-v) \div u
  <2>1. -v \in Nat /\ Truncate(v) = -m
    BY <1>4 DEF Truncate, u
  <2>2. /\ m \in Nat
        /\ m * u <= -v
        /\ (-v) - (u - 1) <= m * u
    BY <1>2, <2>1
  <2> HIDE DEF m
  <2>3. (-m) * u = -(m * u) /\ m * u \in Int
    BY <1>1, <2>2
  <2>4. QED
    BY <1>1, <2>1, <2>2, <2>3 DEF u
<1>5. QED
  BY <1>3, <1>4

LEMMA ScaleMonotonic ==
    ASSUME NEW x \in Int, NEW y \in Int, x <= y, NEW u \in Nat \ {0}
    PROVE  x * u <= y * u /\ x * u \in Int /\ y * u \in Int
OBVIOUS

(* A geometry that passes the truncated box nearly meets the exact one.    *)
LEMMA AcceptedIsNear ==
    ASSUME NEW q \in BoxType, NEW box \in EnvelopeType, NEW g \in GeometryType,
           box.xMin = Truncate(q.minx), box.xMax = Truncate(q.maxx),
           box.yMin = Truncate(q.miny), box.yMax = Truncate(q.maxy),
           FeatureType(g) # "POINT", Accepts(g, box)
    PROVE  Intersects(InUnits(g.bounds), Widened(q, UnitsPerCm - 1))
<1> DEFINE e == g.bounds
           u == UnitsPerCm
<1>1. /\ e \in EnvelopeType /\ u \in Nat \ {0}
      /\ q.minx \in Int /\ q.maxx \in Int /\ q.miny \in Int /\ q.maxy \in Int
  BY UnitsAssumption DEF GeometryType, BoxType
<1>2. /\ e.xMin \in Int /\ e.xMax \in Int /\ e.yMin \in Int /\ e.yMax \in Int
      /\ box.xMin \in Int /\ box.xMax \in Int /\ box.yMin \in Int /\ box.yMax \in Int
  BY <1>1 DEF EnvelopeType
<1>3. overlapsWith(e, box) \/ overlapsWith(box, e)
  BY DEF Accepts
<1>4. /\ e.xMin <= box.xMax /\ box.xMin <= e.xMax
      /\ e.yMin <= box.yMax /\ box.yMin <= e.yMax
  BY <1>2, <1>3 DEF overlapsWith, Larger, Smaller
<1>5. /\ q.minx - (u - 1) <= box.xMin * u /\ q.miny - (u - 1) <= box.yMin * u
      /\ box.xMax * u <= q.maxx + (u - 1) /\ box.yMax * u <= q.maxy + (u - 1)
  BY <1>1, TruncateNear
<1> HIDE DEF e, u
<1>6. /\ e.xMin * u <= box.xMax * u /\ e.xMin * u \in Int /\ box.xMax * u \in Int
      /\ box.xMin * u <= e.xMax * u /\ box.xMin * u \in Int /\ e.xMax * u \in Int
      /\ e.yMin * u <= box.yMax * u /\ e.yMin * u \in Int /\ box.yMax * u \in Int
      /\ box.yMin * u <= e.yMax * u /\ box.yMin * u \in Int /\ e.yMax * u \in Int
  BY <1>1, <1>2, <1>4, ScaleMonotonic, Zenon
<1>7. /\ e.xMin * u <= q.maxx + (u - 1) /\ q.minx - (u - 1) <= e.xMax * u
      /\ e.yMin * u <= q.maxy + (u - 1) /\ q.miny - (u - 1) <= e.yMax * u
  <2> DEFINE a == e.xMin * u  b == e.xMax * u  c == e.yMin * u  d == e.yMax * u
             aa == box.xMax * u bb == box.xMin * u cc == box.yMax * u dd == box.yMin * u
  <2> HIDE DEF a, b, c, d, aa, bb, cc, dd
  <2>1. /\ a <= aa /\ a \in Int /\ aa \in Int /\ bb <= b /\ bb \in Int /\ b \in Int
        /\ c <= cc /\ c \in Int /\ cc \in Int /\ dd <= d /\ dd \in Int /\ d \in Int
    BY <1>6 DEF a, b, c, d, aa, bb, cc, dd
  <2>2. /\ q.minx - (u - 1) <= bb /\ q.miny - (u - 1) <= dd
        /\ aa <= q.maxx + (u - 1) /\ cc <= q.maxy + (u - 1)
    BY <1>5 DEF aa, bb, cc, dd
  <2>3. /\ a <= q.maxx + (u - 1) /\ q.minx - (u - 1) <= b
        /\ c <= q.maxy + (u - 1) /\ q.miny - (u - 1) <= d
    BY <1>1, <2>1, <2>2
  <2>4. QED
    BY <2>3 DEF a, b, c, d
<1>8. QED
  BY <1>7 DEF Intersects, InUnits, Widened, Box2D, e, u

(* Comparing multiples of a centimetre, up to less than one. *)
LEMMA CancelScale ==
    ASSUME NEW a \in Int, NEW b \in Int,
           a * UnitsPerCm - (UnitsPerCm - 1) <= b * UnitsPerCm
    PROVE  a <= b
<1> DEFINE u == UnitsPerCm
<1>1. u \in Nat \ {0} /\ a * u - (u - 1) <= b * u
  BY UnitsAssumption
<1> HIDE DEF u
<1>2. SUFFICES ASSUME b + 1 <= a PROVE FALSE
  OBVIOUS
<1>3. (b + 1) * u <= a * u /\ (b + 1) * u \in Int /\ a * u \in Int
  BY <1>1, <1>2, ScaleMonotonic
<1>4. (b + 1) * u = b * u + u /\ b * u \in Int
  BY <1>1
<1> DEFINE au == a * u  bu == b * u
<1>5. au - (u - 1) <= bu /\ bu + u <= au /\ au \in Int /\ bu \in Int
  BY <1>1, <1>3, <1>4
<1> HIDE DEF au, bu
<1>6. QED
  BY <1>1, <1>5

(* Truncation keeps the order of a coordinate and a whole centimetre.      *)
LEMMA TruncateWhole ==
    ASSUME NEW v \in Int, NEW x \in Int
    PROVE  /\ x * UnitsPerCm <= v => x <= Truncate(v)
           /\ v <= x * UnitsPerCm => Truncate(v) <= x
<1> DEFINE u == UnitsPerCm
           w == Truncate(v)
           xu == x * u
           wu == w * u
<1>1. u \in Nat \ {0} /\ w \in Int /\ v - (u - 1) <= wu /\ wu <= v + (u - 1)
  BY UnitsAssumption, TruncateNear
<1>2. xu \in Int /\ wu \in Int
  BY <1>1
<1>3. /\ xu - (u - 1) <= wu => x <= w
      /\ wu - (u - 1) <= xu => w <= x
  BY <1>1, CancelScale
<1> HIDE DEF u, w, xu, wu
<1>4. /\ xu <= v => x <= w
      /\ v <= xu => w <= x
  BY <1>1, <1>2, <1>3
<1>5. QED
  BY <1>4 DEF u, w, xu, wu

(* ... and the order of two coordinates. *)
LEMMA TruncateOrder ==
    ASSUME NEW v \in Int, NEW w \in Int, v <= w
    PROVE  Truncate(v) <= Truncate(w)
<1> DEFINE u == UnitsPerCm
<1>1. u \in Nat \ {0}
  BY UnitsAssumption
<1>2. ASSUME NEW x \in Nat, NEW y \in Nat, x <= y
      PROVE  x \div u <= y \div u
  <2> DEFINE a == x \div u  b == y \div u
  <2>1. a \in Nat /\ b \in Nat /\ a * u <= x /\ y - (u - 1) <= b * u
    BY <1>1, <1>2
  <2> HIDE DEF a, b
  <2>2. a * u \in Int /\ b * u \in Int
    BY <1>1, <2>1
  <2>3. a * u - (u - 1) <= b * u
    <3> DEFINE au == a * u  bu == b * u
    <3>1. au \in Int /\ bu \in Int /\ au <= x /\ y - (u - 1) <= bu
      BY <2>1, <2>2
    <3> HIDE DEF au, bu
    <3>2. au - (u - 1) <= bu
      BY <1>1, <1>2, <3>1
    <3>3. QED
      BY <3>2 DEF au, bu
  <2>4. a <= b
    BY <2>1, <2>3, CancelScale
  <2>5. QED
    BY <2>4 DEF a, b
<1>3. \A x \in Nat : x \div u \in Nat
  BY <1>1
<1> HIDE DEF u
<1>4. \A x \in Int : Truncate(x) = IF x >= 0 THEN x \div u ELSE -((-x) \div u)
  BY DEF Truncate, u
<1>5. CASE 0 <= v
  <2>1. v \in Nat /\ w \in Nat
    BY <1>5
  <2>2. Truncate(v) = v \div u /\ Truncate(w) = w \div u
    BY <1>4, <2>1
  <2>3. QED
    BY <1>2, <2>1, <2>2
<1>6. CASE v < 0 /\ 0 <= w
  <2>1. -v \in Nat /\ w \in Nat /\ ~ (v >= 0)
    BY <1>6
  <2>2. Truncate(v) = -((-v) \div u) /\ Truncate(w) = w \div u
    BY <1>4, <2>1
  <2>3. (-v) \div u \in Nat /\ w \div u \in Nat
    BY <1>3, <2>1
  <2>4. QED
    BY <2>2, <2>3
<1>7. CASE v < 0 /\ w < 0
  <2>1. -v \in Nat /\ -w \in Nat /\ ~ (v >= 0) /\ ~ (w >= 0) /\ -w <= -v
    BY <1>7
  <2>2. Truncate(v) = -((-v) \div u) /\ Truncate(w) = -((-w) \div u)
    BY <1>4, <2>1
  <2>3. (-w) \div u <= (-v) \div u
    BY <1>2, <2>1
  <2>4. (-v) \div u \in Nat /\ (-w) \div u \in Nat
    BY <1>3, <2>1
  <2>5. QED
    BY <2>2, <2>3, <2>4
<1>8. QED
  BY <1>5, <1>6, <1>7

(* A valid geometry that meets the exact box passes the truncated one.     *)
LEMMA MeetingIsAccepted ==
    ASSUME NEW q \in BoxType, NEW box \in EnvelopeType, NEW g \in GeometryType,
           q.minx <= q.maxx, q.miny <= q.maxy,
           box.xMin = Truncate(q.minx), box.xMax = Truncate(q.maxx),
           box.yMin = Truncate(q.miny), box.yMax = Truncate(q.maxy),
           isValid(g.bounds), Intersects(InUnits(g.bounds), q)
    PROVE  Accepts(g, box)
<1> DEFINE e == g.bounds
           u == UnitsPerCm
<1>1. /\ e.xMin \in Int /\ e.xMax \in Int /\ e.yMin \in Int /\ e.yMax \in Int
      /\ q.minx \in Int /\ q.maxx \in Int /\ q.miny \in Int /\ q.maxy \in Int
      /\ box.xMin \in Int /\ box.xMax \in Int /\ box.yMin \in Int /\ box.yMax \in Int
  BY DEF GeometryType, BoxType, EnvelopeType
<1>2. /\ e.xMin * u <= q.maxx /\ q.minx <= e.xMax * u
      /\ e.yMin * u <= q.maxy /\ q.miny <= e.yMax * u
  BY Zenon DEF Intersects, InUnits, Box2D
<1>3. /\ e.xMin <= box.xMax /\ box.xMin <= e.xMax
      /\ e.yMin <= box.yMax /\ box.yMin <= e.yMax
  BY <1>1, <1>2, TruncateWhole
<1>4. e.xMin <= e.xMax /\ e.yMin <= e.yMax
  BY <1>1 DEF isValid
<1>5. box.xMin <= box.xMax /\ box.yMin <= box.yMax
  BY <1>1, TruncateOrder
<1>6. overlapsWith(e, box) /\ overlapsWith(box, e)
  BY <1>1, <1>3, <1>4, <1>5 DEF overlapsWith, Larger, Smaller, isValid
<1>7. FeatureType(g) \in {"POINT", "LINE", "POLYGON"}
  BY DEF FeatureType, GeometryType, GeometryFlags
<1>8. QED
  BY <1>6, <1>7 DEF Accepts

(* A stored geometry that meets the query box is in a relevant tile.       *)
LEMMA MeetingIsRelevant ==
    ASSUME NEW fs, NEW g \in GeometryType, NEW q \in BoxType,
           q.minx <= q.maxx, q.miny <= q.maxy,
           isValid(g.bounds), Intersects(InUnits(g.bounds), q), FoundWhereItLies(fs, g)
    PROVE  \E t \in Relevant(fs, q) : \E k \in DOMAIN fs[t] : fs[t][k] = g
<1> DEFINE e == InUnits(g.bounds)
           x == Larger(e.minx, q.minx)
           y == Larger(e.miny, q.miny)
<1>1. e \in BoxType /\ e.minx <= e.maxx /\ e.miny <= e.maxy
  <2>1. /\ g.bounds.xMin \in Int /\ g.bounds.xMax \in Int
        /\ g.bounds.yMin \in Int /\ g.bounds.yMax \in Int
        /\ g.bounds.xMin <= g.bounds.xMax /\ g.bounds.yMin <= g.bounds.yMax
    BY DEF GeometryType, EnvelopeType, isValid
  <2>2. /\ g.bounds.xMin * UnitsPerCm <= g.bounds.xMax * UnitsPerCm
        /\ g.bounds.yMin * UnitsPerCm <= g.bounds.yMax * UnitsPerCm
        /\ g.bounds.xMin * UnitsPerCm \in Int /\ g.bounds.xMax * UnitsPerCm \in Int
        /\ g.bounds.yMin * UnitsPerCm \in Int /\ g.bounds.yMax * UnitsPerCm \in Int
    BY <2>1, UnitsAssumption, ScaleMonotonic
  <2>3. QED
    BY <2>2, Zenon DEF InUnits, Box2D, BoxType
<1>2. FoundWhereItLies(fs, g) <=>
        \A a \in e.minx .. e.maxx, b \in e.miny .. e.maxy :
            \E t \in Tiles :
                /\ \A p \in Ancestry(t) : Exists(fs, p)
                /\ Intersects(Box2D(a, b, a, b), Region[t])
                /\ \E k \in DOMAIN fs[t] : fs[t][k] = g
  BY Zenon DEF FoundWhereItLies
<1>3. Intersects(e, q)
  OBVIOUS
<1> HIDE DEF e
<1>4. /\ x \in e.minx .. e.maxx /\ y \in e.miny .. e.maxy
      /\ x \in q.minx .. q.maxx /\ y \in q.miny .. q.maxy
  BY <1>1, <1>3 DEF Intersects, Larger, BoxType
<1> HIDE DEF x, y
<1>5. PICK t \in Tiles : /\ \A p \in Ancestry(t) : Exists(fs, p)
                         /\ Intersects(Box2D(x, y, x, y), Region[t])
                         /\ \E k \in DOMAIN fs[t] : fs[t][k] = g
  BY <1>2, <1>4
<1>6. Region[t] \in BoxType
  BY RegionSquare, TilesAssumption DEF Square, Path
<1>7. Intersects(q, Region[t])
  BY <1>4, <1>5, <1>6 DEF Intersects, Box2D, BoxType
<1>8. QED
  BY <1>5, <1>7 DEF Relevant
=============================================================================
