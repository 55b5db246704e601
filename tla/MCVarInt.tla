------------------------------- MODULE MCVarInt -------------------------------
(***************************************************************************)
(* Bytes are as they are; the word has 15 bits instead of 64.  Both are    *)
(* one more than a multiple of seven: the last byte of the longest number  *)
(* holds one bit, and the smallest number ends with the digit 2.           *)
(***************************************************************************)
EXTENDS VarInt

Bits15 == 2 ^ 15
MinRes15 == <<192, 128, 2>>
MinShifts15 == <<16384, 256, 2, 0>>
AllUnsigned == 0 .. Bits15 - 1
AllSigned == -(2 ^ 14) .. 2 ^ 14 - 1
===============================================================================
