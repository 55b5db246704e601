------------------------------- MODULE MCRawTags -------------------------------
(***************************************************************************)
(* Names of up to three characters, two of them symbolic, one empty.       *)
(* Numbers have two bits to the byte and a marker, so that sizes take one, *)
(* two or three bytes, and numbers of tags one or two.  All lists of up to *)
(* two tags; up to five, so that the bit array has a second byte; and some *)
(* that are too long to be allocated.                                      *)
(***************************************************************************)
EXTENDS RawTags

Byte(number) == {k \in 0 .. 7 : (number \div (2 ^ k)) % 2 = 1}

A == Byte(97)
B == Byte(98)

BothChars == {A, B}

SymbolicTable == [i \in {Byte(0), Byte(1)} |-> IF i = Byte(0) THEN <<B>> ELSE <<A, B>>]

AllNames == {<<B>>, <<A, B>>, <<>>, <<A>>, <<A, A, B>>}

AllTags == AllNames \X AllNames

FewTags == {<<<<A, B>>, <<B>>>>, <<<<A, B>>, <<A>>>>, <<<<A, A, B>>, <<B>>>>}

LongTags == {<<<<A, A, B>>, <<A, A, B>>>>}

ListsOf(set, lengths) == UNION {[1 .. len -> set] : len \in lengths}

MCTagLists == ListsOf(AllTags, 0 .. 2) \cup ListsOf(FewTags, 3 .. 5)
                 \cup ListsOf(LongTags, 4 .. 5)

Max35 == 35

VarUint[number \in 0 .. Max35] ==
    IF number < 4 THEN <<Byte(number)>>
    ELSE <<Byte((number % 4) + 4)>> \o VarUint[number \div 4]

MCBody == <<A, Byte(0), B>>
===============================================================================
