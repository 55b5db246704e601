---------------------------- MODULE FeatureQuery ----------------------------
(***************************************************************************)
(* What a feature set promises to the renderer that opens it with a query  *)
(* and calls next() until it returns null: there is an answer, a set of    *)
(* items fixed when the query is made; every next() returns one item of    *)
(* it, none twice, in the order of z-indexes where the feature set sorts;  *)
(* and null comes when, and only when, the whole answer has been returned, *)
(* and at every call after that.  The renderer may close the feature set   *)
(* between two calls, and the process may be lost before null has come.    *)
(***************************************************************************)
EXTENDS Integers

CONSTANTS
    Items,      \* what can be in an answer: records with a field zIndex
    Ordered     \* does the feature set return its items by z-index?

VARIABLES
    phase,      \* "opening", "open", "ended" (null was returned) or "closed"
    remaining,  \* the part of the answer not yet returned
    given       \* what next() has returned

vars == <<phase, remaining, given>>

Init ==
    /\ phase = "opening"
    /\ remaining \in SUBSET Items
    /\ given = {}

Open ==
    /\ phase = "opening"
    /\ phase' = "open"
    /\ UNCHANGED <<remaining, given>>

Return(i) ==
    /\ phase = "open"
    /\ i \in remaining
    /\ Ordered => \A j \in remaining : i.zIndex <= j.zIndex
    /\ remaining' = remaining \ {i}
    /\ given' = given \cup {i}
    /\ UNCHANGED phase

ReturnNull ==
    /\ phase = "open"
    /\ remaining = {}
    /\ phase' = "ended"
    /\ UNCHANGED <<remaining, given>>

Close ==
    /\ phase \in {"open", "ended"}
    /\ phase' = "closed"
    /\ remaining' = {}
    /\ UNCHANGED given

(* The process is lost, and the rest of the answer with it. *)
Lose ==
    /\ phase \in {"opening", "open"}
    /\ phase' = "closed"
    /\ remaining' = {}
    /\ UNCHANGED given

Next == Open \/ (\E i \in remaining : Return(i)) \/ ReturnNull \/ Close \/ Lose

Spec == Init /\ [][Next]_vars
=============================================================================
