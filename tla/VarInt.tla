-------------------------------- MODULE VarInt --------------------------------
(***************************************************************************)
(* The variable-length integers of src/src/varInt.cc, in which ids, sizes, *)
(* counts and coordinates are stored: one number is written into a buffer, *)
(* its length is computed separately, as the serialisers do to allocate    *)
(* the buffer, and it is read back from a buffer that goes on after it.    *)
(*                                                                         *)
(* Every byte but the last carries a marker bit; the others hold seven     *)
(* bits of the number, lowest first.  A signed number is written as its    *)
(* absolute value, with a sign bit in the first byte, which leaves six.    *)
(***************************************************************************)
EXTENDS Integers, Sequences

CONSTANTS
    Word,       \* 2^64, the number of values of a uint64_t
    MaxBytes,   \* 10, the length of the buffer
    minRes,     \* the bytes of the smallest int64_t,
    MinShifts,  \* and what is left of its absolute value after each
    Unsigned,   \* the numbers a run writes with varUintToBytes()
    Signed,     \* and those it writes with varIntToBytes()
    Beyond      \* the bytes that may follow in memory

Half == 64      \* what the first byte of a signed number holds; its sign bit
Base == 128     \* what any other byte holds; the marker bit

SmallestInt == -(Word \div 2)

Numbers(isSigned) == IF isSigned THEN Signed ELSE Unsigned

Absolute(v) == IF v < 0 THEN -v ELSE v

(* "bytes" is a complete encoding: "left", from index 1, is the number and *)
(* what is left of it after each byte; only the last leaves nothing.       *)
Encodes(bytes, left, number, isSigned) ==
    /\ Len(left) = Len(bytes) + 1
    /\ left[1] = Absolute(number)
    /\ \A k \in 1 .. Len(bytes) :
          LET radix == IF isSigned /\ k = 1 THEN Half ELSE Base
          IN  /\ left[k + 1] = left[k] \div radix
              /\ bytes[k] = (left[k] % radix)
                              + (IF isSigned /\ k = 1 /\ number < 0 THEN Half ELSE 0)
                              + (IF left[k + 1] # 0 THEN Base ELSE 0)
              /\ k > 1 => left[k] # 0

ASSUME WordAssumption == Word \in Nat /\ Word >= 2 /\ Word % 2 = 0

ASSUME NumbersAssumption ==
    /\ Unsigned \subseteq 0 .. Word - 1
    /\ Signed \subseteq SmallestInt .. -SmallestInt - 1
    /\ Beyond \subseteq 0 .. 2 * Base - 1

(* The table of the source is what the algorithm would write, if it had a  *)
(* bit more.                                                               *)
ASSUME MinResAssumption ==
    /\ minRes \in Seq(0 .. 2 * Base - 1) /\ MinShifts \in Seq(Nat)
    /\ Len(minRes) = MaxBytes /\ MaxBytes \in Nat \ {0}
    /\ Encodes(minRes, MinShifts, SmallestInt, TRUE)
    /\ MinShifts[MaxBytes + 1] = 0

VARIABLES
    value,      \* the number written
    signed,     \* by which of the two pairs of functions
    pc,
    valIn,      \* what is left to be written
    out,        \* the bytes written
    shifts,     \* history: what is left, at the start and after every byte
    val,        \* what is left to be counted, by varUintNumBytes()
    nBytes,     \* or varIntNumBytes(), and the bytes counted
    pos,        \* the number of bytes read
    res,        \* the number read so far
    weight,     \* what the next bit read is worth
    isNegative

writeVars == <<valIn, out, shifts>>
countVars == <<val, nBytes>>
readVars == <<pos, res, weight, isNegative>>
vars == <<value, signed, pc, writeVars, countVars, readVars>>

(* A 64-bit word, read as a signed number, and its negative. *)
AsSigned(word) == IF word >= Word \div 2 THEN word - Word ELSE word
Negative(word) == IF word = 0 THEN 0 ELSE Word - word

(* What the functions work on: the smallest number negated is itself. *)
Magnitude(v) == IF v < 0 THEN AsSigned(-v) ELSE v

Init ==
    /\ signed \in BOOLEAN
    /\ value \in Numbers(signed)
    /\ pc = "write"
    /\ valIn = Magnitude(value) /\ out = <<>> /\ shifts = <<Absolute(value)>>
    /\ val = Magnitude(value) /\ nBytes = 0
    /\ pos = 0 /\ res = 0 /\ weight = 1 /\ isNegative = FALSE

-----------------------------------------------------------------------------
(* Mutant of WriteByte: the bits above the radix are not masked. *)
WriteByteUnmasked(radix, signBit) ==
    /\ valIn' = valIn \div radix
    /\ out' = Append(out, (valIn % (2 * Base)) + signBit + IF valIn' # 0 THEN Base ELSE 0)
    /\ shifts' = Append(shifts, valIn')
    /\ pc' = IF valIn' = 0 THEN "count" ELSE "write"
    /\ UNCHANGED <<value, signed, countVars, readVars>>

(* varUintToBytes(), varIntToBytes(): append a byte with the lowest bits,  *)
(* as many as "radix" allows, and go on while something is left.           *)
WriteByte(radix, signBit) ==
    /\ valIn' = valIn \div radix
    /\ out' = Append(out, (valIn % radix) + signBit + IF valIn' # 0 THEN Base ELSE 0)
    /\ shifts' = Append(shifts, valIn')
    /\ pc' = IF valIn' = 0 THEN "count" ELSE "write"
    /\ UNCHANGED <<value, signed, countVars, readVars>>

WriteMin ==
    /\ pc = "write" /\ out = <<>>
    /\ signed /\ value = SmallestInt
    /\ out' = minRes /\ shifts' = MinShifts /\ valIn' = 0
    /\ pc' = "count"
    /\ UNCHANGED <<value, signed, countVars, readVars>>

(* Mutant of WriteFirst: no bit is set aside for the sign. *)
WriteFirstSevenBits ==
    /\ pc = "write" /\ out = <<>>
    /\ signed /\ value # SmallestInt
    /\ WriteByte(Base, IF value < 0 THEN Half ELSE 0)

WriteFirst ==
    /\ pc = "write" /\ out = <<>>
    /\ signed /\ value # SmallestInt
    /\ WriteByte(Half, IF value < 0 THEN Half ELSE 0)

WriteNext ==
    /\ pc = "write"
    /\ ~ signed \/ out # <<>>
    /\ WriteByte(Base, 0)

(* Mutants of CountByte: the sign bit is forgotten; and the smallest       *)
(* number, which negation leaves negative, is not set apart.               *)
CountByteUnsigned ==
    /\ pc = "count"
    /\ IF signed /\ value = SmallestInt
       THEN nBytes' = MaxBytes /\ val' = 0
       ELSE nBytes' = nBytes + 1 /\ val' = val \div Base
    /\ pc' = IF val' = 0 THEN "read" ELSE "count"
    /\ UNCHANGED <<value, signed, writeVars, readVars>>

CountByteNoEdgeCase ==
    /\ pc = "count"
    /\ nBytes' = nBytes + 1
    /\ val' = val \div IF signed /\ nBytes = 0 THEN Half ELSE Base
    /\ pc' = IF val' = 0 THEN "read" ELSE "count"
    /\ UNCHANGED <<value, signed, writeVars, readVars>>

(* varUintNumBytes(), varIntNumBytes() *)
CountByte ==
    /\ pc = "count"
    /\ IF signed /\ value = SmallestInt
       THEN nBytes' = MaxBytes /\ val' = 0
       ELSE /\ nBytes' = nBytes + 1
            /\ val' = val \div IF signed /\ nBytes = 0 THEN Half ELSE Base
    /\ pc' = IF val' = 0 THEN "read" ELSE "count"
    /\ UNCHANGED <<value, signed, writeVars, readVars>>

-----------------------------------------------------------------------------
(* varUintFromBytes(), varIntFromBytes() and, byte by byte from a file,    *)
(* varUintFromFile().  The bits of a byte are or-ed into higher places     *)
(* than any set before, which adds them; what is shifted out of the word   *)
(* is lost.                                                                *)

NextByte == IF pos < Len(out) THEN {out[pos + 1]} ELSE Beyond

ReadByte(radix) ==
    \E byte \in NextByte :
        /\ res' = res + (((byte % radix) * weight) % Word)
        /\ weight' = weight * radix
        /\ isNegative' = IF radix = Half THEN (byte \div Half) % 2 = 1 ELSE isNegative
        /\ pos' = pos + 1
        /\ pc' = IF byte >= Base THEN "read" ELSE "done"
        /\ UNCHANGED <<value, signed, writeVars, countVars>>

ReadFirst == pc = "read" /\ signed /\ pos = 0 /\ ReadByte(Half)

ReadNext == pc = "read" /\ (~ signed \/ pos > 0) /\ ReadByte(Base)

(* What is returned; negating the smallest number yields itself. *)
Result ==
    CASE ~ signed -> res
      [] signed /\ ~ isNegative -> AsSigned(res)
      [] signed /\ isNegative -> AsSigned(Negative(res))

Next == WriteMin \/ WriteFirst \/ WriteNext \/ CountByte \/ ReadFirst \/ ReadNext

Spec == Init /\ [][Next]_vars

-----------------------------------------------------------------------------
TypeOK ==
    /\ signed \in BOOLEAN
    /\ value \in Numbers(signed)
    /\ pc \in {"write", "count", "read", "done"}
    /\ valIn \in Int
    /\ out \in Seq(0 .. 2 * Base - 1)
    /\ shifts \in Seq(Nat)
    /\ val \in Int /\ nBytes \in Nat
    /\ pos \in Nat /\ res \in Nat /\ weight \in Nat \ {0}
    /\ isNegative \in BOOLEAN

(* Every number is read as it was written, the smallest one, whose         *)
(* absolute value no int64_t holds, included; and reading stops behind the *)
(* last byte written, so that what follows it can be found: no byte that   *)
(* follows is taken for part of the number.                                *)
RoundTrip ==
    /\ pos <= Len(out)
    /\ pc = "done" => Result = value /\ pos = Len(out)

(* The length computed to allocate the buffer is the length written. *)
SizeExact == pc \in {"read", "done"} => nBytes = Len(out)

(* Nothing is written behind the ten bytes the callers provide, and the    *)
(* loops end: shifting a negative number to the right would never do.      *)
BufferFits == Len(out) <= MaxBytes /\ nBytes <= MaxBytes

(* The inductive invariant: the bytes written so far are the beginning of  *)
(* the encoding; the counter is as far as the bytes it has counted; and    *)
(* the number is what was read plus what is left, at the weight of the     *)
(* next bit.                                                               *)

Smallest == signed /\ value = SmallestInt

WriteInv ==
    /\ Encodes(out, shifts, value, signed)
    /\ pc = "write" => IF Smallest THEN out = <<>>
                       ELSE /\ valIn = shifts[Len(out) + 1]
                            /\ out # <<>> => valIn # 0
    /\ pc # "write" => /\ out # <<>> /\ shifts[Len(out) + 1] = 0
                       /\ Smallest => Len(out) = MaxBytes

CountInv ==
    /\ pc = "write" => nBytes = 0 /\ val = Magnitude(value)
    /\ pc = "count" =>
          IF Smallest THEN nBytes = 0
          ELSE /\ nBytes < Len(out) /\ val = shifts[nBytes + 1]
               /\ nBytes > 0 => val # 0
    /\ SizeExact

ReadInv ==
    /\ pc \in {"write", "count"} => pos = 0 /\ res = 0 /\ weight = 1
    /\ pc = "read" => /\ pos < Len(out)
                      /\ Absolute(value) = res + shifts[pos + 1] * weight
                      /\ pos > 0 /\ signed => (isNegative <=> value < 0)
    /\ pc = "done" => /\ pos = Len(out)
                      /\ res = Absolute(value)
                      /\ signed => (isNegative <=> value < 0)

Inv == TypeOK /\ WriteInv /\ CountInv /\ ReadInv
===============================================================================
