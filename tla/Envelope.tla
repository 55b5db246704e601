------------------------------ MODULE Envelope ------------------------------
(***************************************************************************)
(* The integer bounding box of src/src/envelope.cc: coordinates are        *)
(* centimetres in the Mercator plane, stored in int32_t.  A box whose      *)
(* minimum exceeds its maximum is the box of no points at all.             *)
(***************************************************************************)
EXTENDS Integers

EnvelopeType == [xMin : Int, xMax : Int, yMin : Int, yMax : Int]

(* The default constructor: the box of no points. *)
EmptyEnvelope == [xMin |-> 1, xMax |-> -1, yMin |-> 1, yMax |-> -1]

isValid(e) == e.xMin <= e.xMax /\ e.yMin <= e.yMax

Smaller(a, b) == IF a < b THEN a ELSE b
Larger(a, b)  == IF a > b THEN a ELSE b

(* Grow e by one point; a box of no points becomes the box of that point. *)
add(e, x, y) ==
    IF isValid(e)
    THEN [xMin |-> Smaller(e.xMin, x), xMax |-> Larger(e.xMax, x),
          yMin |-> Smaller(e.yMin, y), yMax |-> Larger(e.yMax, y)]
    ELSE [xMin |-> x, xMax |-> x, yMin |-> y, yMax |-> y]

(* Mutant of overlapsWith: east and west are not compared. *)
overlapsInY(e, other) ==
    /\ isValid(e)
    /\ Larger(e.yMin, other.yMin) <= Smaller(e.yMax, other.yMax)

(* Only the left operand is tested for being empty. *)
overlapsWith(e, other) ==
    /\ isValid(e)
    /\ Larger(e.yMin, other.yMin) <= Smaller(e.yMax, other.yMax)
    /\ Larger(e.xMin, other.xMin) <= Smaller(e.xMax, other.xMax)

-----------------------------------------------------------------------------
(* What a box means: the points it holds. *)
Holds(e, x, y) == x \in e.xMin .. e.xMax /\ y \in e.yMin .. e.yMax
=============================================================================
