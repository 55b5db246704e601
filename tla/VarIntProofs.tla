----------------------------- MODULE VarIntProofs -----------------------------
(***************************************************************************)
(* What VarInts.cfg checks for words of 15 bits, for words of any even     *)
(* size: every number is read as it was written, from the bytes that were  *)
(* written and no others, and its length is known beforehand.              *)
(***************************************************************************)
EXTENDS VarInt, SequenceTheorems, TLAPS

(* One byte, taken apart: the reader finds in it the digit, the sign and   *)
(* the marker that the writer put into it.                                 *)
LEMMA ByteParts ==
    ASSUME NEW radix \in {Half, Base}, NEW digit \in 0 .. radix - 1,
           NEW signBit \in {0, Half}, NEW marker \in {0, Base},
           signBit # 0 => radix = Half,
           NEW byte, byte = digit + signBit + marker
    PROVE  /\ byte \in 0 .. 2 * Base - 1
           /\ byte % radix = digit
           /\ radix = Half => ((byte \div Half) % 2 = 1 <=> signBit # 0)
           /\ byte >= Base <=> marker # 0
<1>1. CASE radix = Half
  BY <1>1, SMT DEF Half, Base
<1>2. CASE radix = Base
  BY <1>2, SMT DEF Half, Base
<1>3. QED  BY <1>1, <1>2

(* Division by the two radixes. *)
LEMMA DivMod ==
    ASSUME NEW n \in Nat, NEW radix \in {Half, Base}
    PROVE  /\ n \div radix \in Nat
           /\ n % radix \in 0 .. radix - 1
           /\ n = (n \div radix) * radix + (n % radix)
<1>1. CASE radix = Half
  BY <1>1, SMT DEF Half, Base
<1>2. CASE radix = Base
  BY <1>2, SMT DEF Half, Base
<1>3. QED  BY <1>1, <1>2

(* Where the absolute value of a number lies. *)
LEMMA AbsoluteRange ==
    ASSUME NEW s \in BOOLEAN, NEW v \in Numbers(s)
    PROVE  /\ v \in Int
           /\ Absolute(v) \in 0 .. Word - 1
           /\ ~ s => v >= 0
           /\ s => v \in SmallestInt .. -SmallestInt - 1
           /\ s => Absolute(v) \in 0 .. Word \div 2
           /\ ~ (s /\ v = SmallestInt) => Magnitude(v) = Absolute(v)
           /\ Magnitude(v) \in Int
BY WordAssumption, NumbersAssumption, SMT
   DEF Numbers, Absolute, Magnitude, AsSigned, SmallestInt

-----------------------------------------------------------------------------
(* The initial states satisfy the invariant. *)
LEMMA InitInv == Init => Inv
<1> SUFFICES ASSUME Init PROVE Inv  OBVIOUS
<1> /\ signed \in BOOLEAN
    /\ value \in Numbers(signed)
  BY DEF Init
<1> Absolute(value) \in Nat
  BY AbsoluteRange, WordAssumption
<1>1. TypeOK
  <2>1. out \in Seq(0 .. 2 * Base - 1) /\ shifts \in Seq(Nat)
    BY DEF Init
  <2>2. valIn \in Int /\ val \in Int
    BY AbsoluteRange DEF Init
  <2>3. pc \in {"write", "count", "read", "done"} /\ isNegative \in BOOLEAN
    BY Zenon DEF Init
  <2>4. nBytes \in Nat /\ pos \in Nat /\ res \in Nat /\ weight \in Nat \ {0}
    BY SMT DEF Init
  <2>5. QED  BY <2>1, <2>2, <2>3, <2>4, Zenon DEF TypeOK
<1>2. WriteInv
  BY AbsoluteRange DEF Init, WriteInv, Encodes, Smallest
<1>3. CountInv /\ ReadInv
  BY DEF Init, CountInv, ReadInv, SizeExact
<1> QED  BY <1>1, <1>2, <1>3 DEF Inv

(* The writers append one byte of the encoding, and its rest. *)
LEMMA WriteByteInv ==
    ASSUME Inv, ~ Smallest, pc = "write",
           NEW radix, radix = IF signed /\ out = <<>> THEN Half ELSE Base,
           NEW signBit,
           signBit = IF signed /\ out = <<>> /\ value < 0 THEN Half ELSE 0,
           WriteByte(radix, signBit)
    PROVE  Inv'
<1> DEFINE n == Len(out)
           next == valIn \div radix
           byte == (valIn % radix) + signBit + IF next # 0 THEN Base ELSE 0
<1>1. /\ TypeOK /\ n \in Nat /\ valIn = shifts[n + 1]
      /\ n > 0 => valIn # 0
      /\ Encodes(out, shifts, value, signed)
      /\ Len(shifts) = n + 1
  BY DEF Inv, TypeOK, WriteInv, Encodes
<1>2. valIn \in Nat /\ radix \in {Half, Base} /\ n + 1 \in 1 .. Len(shifts)
  <2>1. shifts \in Seq(Nat)
    BY <1>1, Zenon DEF TypeOK
  <2>2. n + 1 \in 1 .. Len(shifts)
    BY <1>1
  <2>3. radix \in {Half, Base}
    BY Zenon
  <2>4. QED  BY <1>1, <2>1, <2>2, <2>3
<1>3. next \in Nat /\ valIn % radix \in 0 .. radix - 1
  BY <1>2, DivMod
<1>4. byte \in 0 .. 2 * Base - 1
  BY <1>2, <1>3 DEF Half, Base
<1>5. out = <<>> <=> n = 0
  BY <1>1 DEF TypeOK
<1>6. /\ valIn' = next /\ out' = Append(out, byte) /\ shifts' = Append(shifts, next)
      /\ pc' = IF next = 0 THEN "count" ELSE "write"
      /\ UNCHANGED <<value, signed, countVars, readVars>>
  BY Zenon DEF WriteByte
<1> HIDE DEF next, byte
<1>7. /\ out' \in Seq(0 .. 2 * Base - 1) /\ shifts' \in Seq(Nat)
      /\ Len(out') = n + 1 /\ Len(shifts') = n + 2
      /\ \A k \in 1 .. n : out'[k] = out[k]
      /\ \A k \in 1 .. n + 1 : shifts'[k] = shifts[k]
      /\ out'[n + 1] = byte /\ shifts'[n + 2] = next
  <2>1. out \in Seq(0 .. 2 * Base - 1) /\ shifts \in Seq(Nat)
    BY <1>1, Zenon DEF TypeOK
  <2>2. out' = Append(out, byte) /\ shifts' = Append(shifts, next)
    BY <1>6
  <2>3. QED  BY <1>1, <1>3, <1>4, <2>1, <2>2
<1>8. TypeOK'
  <2>1. valIn' \in Int /\ pc' \in {"write", "count", "read", "done"}
    BY <1>3, <1>6
  <2>2. QED  BY <1>1, <1>6, <1>7, <2>1, Zenon DEF TypeOK, countVars, readVars
<1>9. Encodes(out, shifts, value, signed)'
  <2>1. Len(shifts') = Len(out') + 1 /\ shifts'[1] = Absolute(value')
    BY <1>1, <1>6, <1>7 DEF Encodes
  <2>2. ASSUME NEW k \in 1 .. Len(out')
        PROVE  LET r == IF signed' /\ k = 1 THEN Half ELSE Base
               IN  /\ shifts'[k + 1] = shifts'[k] \div r
                   /\ out'[k] = (shifts'[k] % r)
                                  + (IF signed' /\ k = 1 /\ value' < 0 THEN Half ELSE 0)
                                  + (IF shifts'[k + 1] # 0 THEN Base ELSE 0)
                   /\ k > 1 => shifts'[k] # 0
    <3> value' = value /\ signed' = signed
      BY <1>6
    <3>1. CASE k \in 1 .. n
      <4>1. shifts'[k + 1] = shifts[k + 1] /\ shifts'[k] = shifts[k] /\ out'[k] = out[k]
        BY <1>1, <1>7, <3>1
      <4>2. QED  BY <1>1, <3>1, <4>1, Zenon DEF Encodes
    <3>2. CASE k = n + 1
      <4>1. /\ shifts'[k + 1] = next /\ shifts'[k] = valIn /\ out'[k] = byte
            /\ k > 1 => valIn # 0
            /\ k = 1 <=> out = <<>>
        BY <1>1, <1>5, <1>7, <3>2
      <4>2. radix = IF signed /\ k = 1 THEN Half ELSE Base
        BY <4>1, Zenon
      <4>3. signBit = IF signed /\ k = 1 /\ value < 0 THEN Half ELSE 0
        BY <4>1, Zenon
      <4>4. QED  BY <4>1, <4>2, <4>3, Zenon DEF next, byte
    <3>3. QED  BY <1>1, <1>7, <3>1, <3>2
  <2>3. QED  BY <2>1, <2>2 DEF Encodes
<1>10. WriteInv'
  BY <1>1, <1>3, <1>6, <1>7, <1>9 DEF WriteInv, Smallest
<1>11. CountInv'
  BY <1>1, <1>2, <1>6, <1>7, AbsoluteRange
     DEF Inv, TypeOK, CountInv, SizeExact, Smallest, countVars, Encodes
<1>12. ReadInv'
  BY <1>6 DEF Inv, ReadInv, readVars
<1>13. QED  BY <1>8, <1>10, <1>11, <1>12 DEF Inv

(* The precomputed bytes are an encoding by assumption. *)
LEMMA WriteMinInv == Inv /\ WriteMin => Inv'
<1> SUFFICES ASSUME Inv, WriteMin PROVE Inv'  OBVIOUS
<1>1. /\ Smallest /\ pc = "write" /\ pc' = "count"
      /\ out' = minRes /\ shifts' = MinShifts /\ valIn' = 0
      /\ UNCHANGED <<value, signed, countVars, readVars>>
  BY DEF WriteMin, Smallest
<1>2. /\ minRes \in Seq(0 .. 2 * Base - 1) /\ MinShifts \in Seq(Nat)
      /\ Len(minRes) = MaxBytes /\ MaxBytes \in Nat \ {0}
      /\ MinShifts[MaxBytes + 1] = 0
      /\ Encodes(minRes, MinShifts, SmallestInt, TRUE)
  BY MinResAssumption
<1>3. TypeOK'
  <2>1. TypeOK /\ pc' \in {"write", "count", "read", "done"} /\ valIn' \in Int
    BY <1>1 DEF Inv
  <2>2. QED  BY <1>1, <1>2, <2>1, Zenon DEF TypeOK, countVars, readVars
<1>4. WriteInv'
  <2>1. Encodes(out, shifts, value, signed)'
    <3>1. signed = TRUE /\ value = SmallestInt
      <4>1. signed \in BOOLEAN
        BY DEF Inv, TypeOK
      <4>2. QED  BY <1>1, <4>1, Zenon DEF Smallest
    <3>2. QED  BY <1>1, <1>2, <3>1, Zenon DEF Encodes
  <2>2. out' # <<>> /\ shifts'[Len(out') + 1] = 0 /\ Len(out') = MaxBytes
    BY <1>1, <1>2
  <2>3. pc' # "write"
    BY <1>1
  <2>4. QED  BY <2>1, <2>2, <2>3 DEF WriteInv
<1>5. CountInv'
  BY <1>1 DEF Inv, CountInv, SizeExact, Smallest, countVars
<1>6. ReadInv'
  BY <1>1 DEF Inv, ReadInv, readVars
<1>7. QED  BY <1>3, <1>4, <1>5, <1>6 DEF Inv

(* The counter is never ahead of the bytes, and stops with the last. *)
LEMMA CountByteInv == Inv /\ CountByte => Inv'
<1> SUFFICES ASSUME Inv, CountByte PROVE Inv'  OBVIOUS
<1>1. /\ pc = "count" /\ pc' = IF val' = 0 THEN "read" ELSE "count"
      /\ UNCHANGED <<value, signed, writeVars, readVars>>
  BY DEF CountByte
<1>2. /\ TypeOK /\ WriteInv /\ CountInv /\ ReadInv
      /\ out \in Seq(0 .. 2 * Base - 1) /\ Len(out) \in Nat
  BY DEF Inv, TypeOK
<1>3. /\ nBytes' \in Nat /\ val' \in Int
      /\ pc' = "count" => ~ Smallest /\ nBytes' < Len(out) /\ val' = shifts[nBytes' + 1]
      /\ pc' = "read" => nBytes' = Len(out)
  <2>1. CASE Smallest
    <3>1. nBytes' = MaxBytes /\ val' = 0
      BY <2>1 DEF CountByte, Smallest
    <3>2. Len(out) = MaxBytes
      BY <1>1, <1>2, <2>1 DEF WriteInv
    <3>3. QED  BY <1>1, <3>1, <3>2, MinResAssumption
  <2>2. CASE ~ Smallest
    <3> DEFINE radix == IF signed /\ nBytes = 0 THEN Half ELSE Base
    <3>1. nBytes' = nBytes + 1 /\ val' = val \div radix
      BY <2>2 DEF CountByte, Smallest
    <3>2. /\ nBytes \in Nat /\ nBytes < Len(out) /\ val = shifts[nBytes + 1]
          /\ shifts \in Seq(Nat) /\ Len(shifts) = Len(out) + 1
      BY <1>1, <1>2, <2>2 DEF TypeOK, CountInv, WriteInv, Encodes
    <3>3. val \in Nat /\ nBytes + 1 \in 1 .. Len(out)
      BY <1>2, <3>2
    <3>4. val' \in Nat
      <4>1. radix \in {Half, Base}
        BY Zenon
      <4> HIDE DEF radix
      <4>2. QED  BY <3>1, <3>3, <4>1, DivMod
    <3>5. shifts[nBytes + 2] = val'
      <4>1. /\ (nBytes + 1) + 1 = nBytes + 2
            /\ nBytes + 1 = 1 <=> nBytes = 0
        BY <3>2
      <4>2. Encodes(out, shifts, value, signed)
        BY <1>2 DEF WriteInv
      <4>3. shifts[(nBytes + 1) + 1]
              = shifts[nBytes + 1] \div IF signed /\ nBytes + 1 = 1 THEN Half ELSE Base
        BY <3>3, <4>2, Zenon DEF Encodes
      <4>4. QED  BY <3>1, <3>2, <4>1, <4>3, Zenon
    <3>6. val' # 0 => nBytes' # Len(out)
      BY <1>1, <1>2, <3>1, <3>2, <3>5 DEF WriteInv
    <3>7. val' = 0 => nBytes' = Len(out)
      <4>1. \A k \in 1 .. Len(out) : k > 1 => shifts[k] # 0
        BY <1>2, Zenon DEF WriteInv, Encodes
      <4>2. QED  BY <1>2, <3>1, <3>2, <3>3, <3>5, <4>1
    <3>8. val' = shifts[nBytes' + 1]
      BY <3>1, <3>2, <3>5
    <3>9. nBytes' \in Nat /\ (val' # 0 => nBytes' < Len(out))
      BY <1>2, <3>1, <3>2, <3>6
    <3>10. QED  BY <1>1, <2>2, <3>4, <3>7, <3>8, <3>9
  <2>3. QED  BY <2>1, <2>2
<1>4. TypeOK'
  <2>1. pc' \in {"write", "count", "read", "done"}
    BY <1>1
  <2>2. QED  BY <1>1, <1>2, <1>3, <2>1, Zenon DEF TypeOK, writeVars, readVars
<1>5. WriteInv'
  BY <1>1, <1>2 DEF WriteInv, Encodes, Smallest, writeVars
<1>6. CountInv'
  BY <1>1, <1>2, <1>3 DEF CountInv, SizeExact, Smallest, writeVars
<1>7. ReadInv'
  <2>1. out # <<>> /\ shifts[1] = Absolute(value)
    BY <1>1, <1>2 DEF WriteInv, Encodes
  <2>2. Len(out) > 0 /\ Absolute(value) \in Nat
    BY <1>2, <2>1, AbsoluteRange, WordAssumption DEF TypeOK
  <2>3. pos = 0 /\ res = 0 /\ weight = 1
    BY <1>1, <1>2 DEF ReadInv
  <2>4. QED  BY <1>1, <2>1, <2>2, <2>3 DEF ReadInv, writeVars, readVars
<1>8. QED  BY <1>4, <1>5, <1>6, <1>7 DEF Inv

LEMMA ProductNat == ASSUME NEW m \in Nat, NEW n \in Nat PROVE m * n \in Nat
BY SMT

(* What is read of a byte is at most what is left of the number, and adds  *)
(* to the rest what the byte took from it.                                 *)
LEMMA WeightedDigit ==
    ASSUME NEW n \in Nat, NEW w \in Nat \ {0}, NEW radix \in {Half, Base}
    PROVE  /\ (n % radix) * w \in Nat
           /\ n * w = (n % radix) * w + (n \div radix) * (w * radix)
           /\ (n % radix) * w <= n * w
           /\ w * radix \in Nat \ {0}
<1> DEFINE d == n % radix
           q == n \div radix
<1>1. d \in Nat /\ q \in Nat /\ n = q * radix + d
  BY DivMod, SMT DEF Half, Base
<1> HIDE DEF d, q
<1>2. radix \in Nat \ {0}
  BY DEF Half, Base
<1>3. d * w \in Nat /\ w * radix \in Nat \ {0}
  BY <1>1, <1>2, SMT
<1>4. n * w = d * w + q * (w * radix)
  BY <1>1, <1>2, SMT
<1>5. q * (w * radix) \in Nat
  BY <1>1, <1>3, SMT
<1>6. n * w \in Nat
  BY SMT
<1>7. d * w <= n * w
  BY <1>3, <1>4, <1>5, <1>6, SMT
<1>8. QED  BY <1>3, <1>4, <1>7 DEF d, q

(* No bit is shifted out of the word, because no more is read than was     *)
(* written; and the last byte is the one without a marker.                 *)
LEMMA ReadByteInv ==
    ASSUME Inv, pc = "read",
           NEW radix, radix = IF signed /\ pos = 0 THEN Half ELSE Base,
           ReadByte(radix)
    PROVE  Inv'
<1> DEFINE left == shifts[pos + 1]
           next == shifts[pos + 2]
           byte == out[pos + 1]
           sign == signed /\ pos = 0 /\ value < 0
<1>1. /\ TypeOK /\ WriteInv /\ CountInv
      /\ pos \in Nat /\ res \in Nat /\ weight \in Nat \ {0}
      /\ out \in Seq(0 .. 2 * Base - 1) /\ shifts \in Seq(Nat)
  BY Zenon DEF Inv, TypeOK
<1>2. /\ pos < Len(out) /\ Absolute(value) = res + left * weight
      /\ pos > 0 /\ signed => (isNegative <=> value < 0)
  BY DEF Inv, ReadInv
<1>3. pos + 1 \in 1 .. Len(out) /\ (pos + 1) + 1 = pos + 2 /\ (pos + 1 = 1 <=> pos = 0)
  BY <1>1, <1>2
<1>4. Encodes(out, shifts, value, signed)
  BY <1>1, Zenon DEF WriteInv
<1>5. /\ next = left \div radix
      /\ byte = (left % radix) + (IF sign THEN Half ELSE 0)
                  + (IF next # 0 THEN Base ELSE 0)
      /\ \A k \in 1 .. Len(out) : k > 1 => shifts[k] # 0
      /\ Len(shifts) = Len(out) + 1
  <2>1. next = left \div radix
    BY <1>3, <1>4, Zenon DEF Encodes
  <2>2. byte = (left % radix) + (IF sign THEN Half ELSE 0) + (IF next # 0 THEN Base ELSE 0)
    BY <1>3, <1>4, Zenon DEF Encodes
  <2>3. QED  BY <1>4, <2>1, <2>2, Zenon DEF Encodes
<1>6. left \in Nat /\ next \in Nat
  BY <1>1, <1>3, <1>5
<1>7. radix \in {Half, Base} /\ (sign => radix = Half)
      /\ (signed /\ pos = 0 <=> radix = Half)
  <2>1. Half # Base
    BY DEF Half, Base
  <2>2. QED  BY <2>1, Zenon
<1>8. /\ byte % radix = left % radix
      /\ radix = Half => ((byte \div Half) % 2 = 1 <=> sign)
      /\ byte >= Base <=> next # 0
  <2> DEFINE digit == left % radix
             signBit == IF sign THEN Half ELSE 0
             marker == IF next # 0 THEN Base ELSE 0
  <2>1. digit \in 0 .. radix - 1
    BY <1>6, <1>7, DivMod
  <2>2. /\ signBit \in {0, Half} /\ marker \in {0, Base}
        /\ signBit # 0 => radix = Half
    BY <1>7, Zenon
  <2>3. (signBit # 0 <=> sign) /\ (marker # 0 <=> next # 0)
    <3>1. Half # 0 /\ Base # 0
      BY DEF Half, Base
    <3>2. QED  BY <3>1, Zenon
  <2>4. byte = digit + signBit + marker
    BY <1>5, Zenon
  <2> HIDE DEF sign, byte, left, next, digit, signBit, marker
  <2>5. /\ byte % radix = digit
        /\ radix = Half => ((byte \div Half) % 2 = 1 <=> signBit # 0)
        /\ byte >= Base <=> marker # 0
    BY <1>7, <2>1, <2>2, <2>4, ByteParts, ZenonT(60)
  <2>6. QED  BY <2>3, <2>5, Zenon DEF digit
<1>9. /\ res' = res + (((byte % radix) * weight) % Word)
      /\ weight' = weight * radix
      /\ isNegative' = IF radix = Half THEN (byte \div Half) % 2 = 1 ELSE isNegative
      /\ pos' = pos + 1
      /\ pc' = IF byte >= Base THEN "read" ELSE "done"
      /\ UNCHANGED <<value, signed, writeVars, countVars>>
  <2>1. NextByte = {byte}
    BY <1>2 DEF NextByte
  <2>2. QED  BY <2>1, Zenon DEF ReadByte
<1> HIDE DEF left, next, byte
<1>10. Absolute(value) \in 0 .. Word - 1
  BY <1>1, AbsoluteRange, Zenon DEF TypeOK
<1>11. /\ res' \in Nat /\ weight' \in Nat \ {0}
       /\ Absolute(value) = res' + next * weight'
  <2> DEFINE part == (left % radix) * weight
  <2>1. /\ part \in Nat /\ part <= left * weight
        /\ left * weight = part + next * weight'
        /\ weight' \in Nat \ {0}
    BY <1>1, <1>5, <1>6, <1>7, <1>9, WeightedDigit
  <2>2. res' = res + (part % Word)
    BY <1>8, <1>9
  <2> HIDE DEF part
  <2>3. left * weight \in Nat /\ next * weight' \in Nat
    <3>1. weight \in Nat /\ weight' \in Nat
      BY <1>1, <2>1
    <3>2. QED  BY <1>6, <3>1, ProductNat
  <2>4. part < Word
    BY <1>1, <1>2, <1>10, <2>1, <2>3, WordAssumption
  <2>5. part % Word = part
    BY <2>1, <2>4, WordAssumption
  <2>6. Absolute(value) = res + (part + next * weight') /\ res' = res + part
    BY <1>2, <2>1, <2>2, <2>5, Zenon
  <2> DEFINE rest == next * weight'
  <2>7. part \in Nat /\ rest \in Nat
    BY <2>1, <2>3
  <2> HIDE DEF rest
  <2>8. Absolute(value) = res' + rest /\ res' \in Nat
    BY <1>1, <2>6, <2>7 DEF rest
  <2>9. QED  BY <2>1, <2>8 DEF rest
<1>12. isNegative' \in BOOLEAN /\ (signed => (isNegative' <=> value < 0))
  <2>1. signed \in BOOLEAN /\ isNegative \in BOOLEAN
    BY <1>1, Zenon DEF TypeOK
  <2>2. pos = 0 \/ pos > 0
    BY <1>1
  <2>3. CASE radix = Half
    BY <1>7, <1>8, <1>9, <2>3, Zenon DEF sign
  <2>4. CASE radix # Half
    BY <1>2, <1>7, <1>9, <2>1, <2>2, <2>4, Zenon
  <2>5. QED  BY <2>3, <2>4
<1>13. TypeOK'
  <2>1. pos' \in Nat /\ pc' \in {"write", "count", "read", "done"}
    BY <1>1, <1>9
  <2>2. isNegative' \in BOOLEAN
    BY <1>12
  <2>3. QED  BY <1>1, <1>9, <1>11, <2>1, <2>2, Zenon DEF TypeOK, writeVars, countVars
<1>14. WriteInv' /\ CountInv'
  BY <1>1, <1>9 DEF WriteInv, CountInv, SizeExact, Encodes, Smallest, writeVars, countVars
<1>15. ReadInv'
  <2>1. pc' = "read" <=> next # 0
    BY <1>8, <1>9, Zenon
  <2>2. pc' \in {"read", "done"}
    BY <1>9
  <2>3. next # 0 => pos' < Len(out)
    BY <1>1, <1>3, <1>9, <1>14 DEF WriteInv, next
  <2>4. next = 0 => pos' = Len(out)
    BY <1>1, <1>3, <1>5, <1>9 DEF next
  <2>5. next = 0 => res' = Absolute(value)
    <3>1. ASSUME NEW r \in Nat, NEW w \in Nat PROVE r + 0 * w = r
      BY SMT
    <3>2. weight' \in Nat
      BY <1>11, Zenon
    <3>3. QED  BY <1>11, <3>1, <3>2, Zenon
  <2>6. next = shifts'[pos' + 1]
    BY <1>1, <1>3, <1>9 DEF next, writeVars
  <2>7. QED
    BY <1>9, <1>11, <1>12, <2>1, <2>2, <2>3, <2>4, <2>5, <2>6 DEF ReadInv, writeVars
<1>16. QED  BY <1>13, <1>14, <1>15 DEF Inv

-----------------------------------------------------------------------------
(* Inv is an inductive invariant: what has been written is the beginning   *)
(* of an encoding, and what has been read is the rest of the number.       *)
THEOREM Invariance == Spec => []Inv
<1>1. Inv /\ [Next]_vars => Inv'
  <2> SUFFICES ASSUME Inv, [Next]_vars PROVE Inv'  OBVIOUS
  <2>1. ASSUME WriteMin PROVE Inv'
    BY <2>1, WriteMinInv
  <2>2. ASSUME WriteFirst PROVE Inv'
    <3>1. /\ pc = "write" /\ signed /\ out = <<>> /\ ~ Smallest
          /\ WriteByte(Half, IF value < 0 THEN Half ELSE 0)
      BY <2>2, Zenon DEF WriteFirst, Smallest
    <3>2. Half = IF signed /\ out = <<>> THEN Half ELSE Base
      BY <3>1, Zenon
    <3>3. (IF value < 0 THEN Half ELSE 0)
              = IF signed /\ out = <<>> /\ value < 0 THEN Half ELSE 0
      BY <3>1, Zenon
    <3>4. QED  BY <3>1, <3>2, <3>3, WriteByteInv, Zenon
  <2>3. ASSUME WriteNext PROVE Inv'
    <3>1. /\ pc = "write" /\ (~ signed \/ out # <<>>) /\ WriteByte(Base, 0)
      BY <2>3, Zenon DEF WriteNext
    <3>2. ~ Smallest
      BY <3>1, Zenon DEF Inv, WriteInv, Smallest
    <3>3. /\ Base = IF signed /\ out = <<>> THEN Half ELSE Base
          /\ 0 = IF signed /\ out = <<>> /\ value < 0 THEN Half ELSE 0
      BY <3>1, Zenon
    <3>4. QED  BY <3>1, <3>2, <3>3, WriteByteInv, Zenon
  <2>4. ASSUME CountByte PROVE Inv'
    BY <2>4, CountByteInv
  <2>5. ASSUME ReadFirst PROVE Inv'
    <3>1. pc = "read" /\ signed /\ pos = 0 /\ ReadByte(Half)
      BY <2>5, Zenon DEF ReadFirst
    <3>2. Half = IF signed /\ pos = 0 THEN Half ELSE Base
      BY <3>1, Zenon
    <3>3. QED  BY <3>1, <3>2, ReadByteInv, Zenon
  <2>6. ASSUME ReadNext PROVE Inv'
    <3>1. pc = "read" /\ (~ signed \/ pos > 0) /\ ReadByte(Base)
      BY <2>6, Zenon DEF ReadNext
    <3>2. ~ (signed /\ pos = 0)
      BY <3>1
    <3>3. Base = IF signed /\ pos = 0 THEN Half ELSE Base
      BY <3>2, Zenon
    <3>4. QED  BY <3>1, <3>3, ReadByteInv, Zenon
  <2>7. CASE UNCHANGED vars
    BY <2>7, Zenon
       DEF vars, writeVars, countVars, readVars, Inv, TypeOK, WriteInv, CountInv,
           ReadInv, SizeExact, Smallest
  <2>8. QED  BY <2>1, <2>2, <2>3, <2>4, <2>5, <2>6, <2>7 DEF Next
<1>2. QED  BY InitInv, <1>1, PTL DEF Spec

(* Every variable keeps its type. *)
THEOREM TypeCorrect == Spec => []TypeOK
BY Invariance, PTL DEF Inv

(* varUintFromBytes(varUintToBytes(n)) = n for every n of the word, and    *)
(* the same of the signed pair, the smallest number included; the reader   *)
(* consumes exactly the bytes of the number.                               *)
THEOREM NumbersSurvive == Spec => []RoundTrip
<1>1. Inv => RoundTrip
  <2> SUFFICES ASSUME Inv, pc = "done" PROVE Result = value
    BY DEF Inv, TypeOK, ReadInv, RoundTrip
  <2>1. /\ signed \in BOOLEAN /\ isNegative \in BOOLEAN /\ value \in Numbers(signed)
        /\ res = Absolute(value)
        /\ signed => (isNegative <=> value < 0)
    BY DEF Inv, TypeOK, ReadInv
  <2>2. /\ value \in Int
        /\ ~ signed => value >= 0
        /\ signed => value \in SmallestInt .. -SmallestInt - 1
    BY <2>1, AbsoluteRange
  <2>3. CASE ~ signed
    BY <2>1, <2>2, <2>3 DEF Result, Absolute
  <2>4. CASE signed /\ ~ isNegative
    <3>1. res = value /\ Result = AsSigned(res)
      BY <2>1, <2>2, <2>4 DEF Result, Absolute
    <3>2. value >= 0 /\ value < Word \div 2
      BY <2>1, <2>2, <2>4, WordAssumption DEF SmallestInt
    <3>3. QED  BY <2>2, <3>1, <3>2, WordAssumption DEF AsSigned
  <2>5. CASE signed /\ isNegative
    <3>1. res = -value /\ Result = AsSigned(Negative(res))
      BY <2>1, <2>2, <2>5 DEF Result, Absolute
    <3>2. value < 0 /\ -value <= Word \div 2
      BY <2>1, <2>2, <2>5, WordAssumption DEF SmallestInt
    <3>3. QED  BY <2>2, <3>1, <3>2, WordAssumption DEF AsSigned, Negative
  <2>6. QED  BY <2>1, <2>3, <2>4, <2>5
<1>2. QED  BY Invariance, <1>1, PTL

(* varUintNumBytes() and varIntNumBytes() compute the length of what       *)
(* varUintToBytes() and varIntToBytes() write.                             *)
THEOREM SizeComputed == Spec => []SizeExact
BY Invariance, PTL DEF Inv, CountInv

-----------------------------------------------------------------------------
(* No number needs more bytes than the smallest one: after each byte, no   *)
(* more of it is left than the table leaves of the smallest number.        *)
NoLongerThanMin ==
    /\ Len(out) <= MaxBytes
    /\ \A k \in 2 .. Len(out) + 1 : shifts[k] <= MinShifts[k]

LEMMA MinShiftsHalve ==
    /\ MaxBytes \in Nat \ {0} /\ MinShifts[MaxBytes + 1] = 0
    /\ \A k \in 1 .. MaxBytes + 1 : MinShifts[k] \in Nat
    /\ MinShifts[1] = Word \div 2
    /\ MinShifts[2] = MinShifts[1] \div 64
    /\ \A k \in 2 .. MaxBytes : MinShifts[k + 1] = MinShifts[k] \div 128
<1>1. /\ MinShifts \in Seq(Nat) /\ minRes \in Seq(0 .. 2 * Base - 1)
      /\ Len(minRes) = MaxBytes /\ MaxBytes \in Nat \ {0}
      /\ Len(MinShifts) = MaxBytes + 1 /\ MinShifts[1] = Absolute(SmallestInt)
      /\ MinShifts[MaxBytes + 1] = 0
      /\ \A k \in 1 .. MaxBytes :
            MinShifts[k + 1] = MinShifts[k] \div (IF k = 1 THEN Half ELSE Base)
  BY MinResAssumption DEF Encodes
<1>2. Absolute(SmallestInt) = Word \div 2
  BY WordAssumption DEF Absolute, SmallestInt
<1>3. \A k \in 1 .. MaxBytes + 1 : MinShifts[k] \in Nat
  BY <1>1
<1>4. MinShifts[2] = MinShifts[1] \div 64
  BY <1>1 DEF Half
<1>5. ASSUME NEW k \in 2 .. MaxBytes
      PROVE  MinShifts[k + 1] = MinShifts[k] \div 128
  BY <1>1 DEF Base
<1>6. QED
  BY <1>1, <1>2, <1>3, <1>4, <1>5

LEMMA WriteByteFits ==
    ASSUME Inv, NoLongerThanMin, pc = "write", ~ Smallest, NEW signBit,
           WriteByte(IF signed /\ out = <<>> THEN Half ELSE Base, signBit)
    PROVE  NoLongerThanMin'
<1> DEFINE n == Len(out)
           radix == IF signed /\ out = <<>> THEN Half ELSE Base
<1>1. /\ out \in Seq(0 .. 2 * Base - 1) /\ shifts \in Seq(Nat) /\ n \in Nat
      /\ Len(shifts) = n + 1 /\ shifts[1] = Absolute(value)
      /\ valIn = shifts[n + 1] /\ (out # <<>> => valIn # 0)
      /\ n <= MaxBytes /\ \A k \in 2 .. n + 1 : shifts[k] <= MinShifts[k]
  BY DEF Inv, TypeOK, WriteInv, Encodes, NoLongerThanMin
<1>2. PICK b : out' = Append(out, b) /\ shifts' = Append(shifts, valIn \div radix)
  BY Zenon DEF WriteByte
<1>3. /\ Len(out') = n + 1
      /\ \A k \in 1 .. n + 1 : shifts'[k] = shifts[k]
      /\ shifts'[n + 2] = valIn \div radix
  <2>1. Len(out') = n + 1
    BY <1>1, <1>2 DEF WriteByte
  <2>2. /\ \A k \in 1 .. n + 1 : shifts'[k] = shifts[k]
        /\ shifts'[n + 2] = valIn \div radix
    BY <1>1, <1>2
  <2>3. QED
    BY <2>1, <2>2
<1> HIDE DEF n, radix
<1>4. n + 1 <= MaxBytes /\ valIn \div radix <= MinShifts[n + 2]
  <2>1. CASE out = <<>>
    <3>1. n = 0 /\ valIn = Absolute(value)
      BY <1>1, <2>1 DEF n
    <3>2. CASE signed
      <4>1. valIn \div radix = valIn \div 64
        BY <2>1, <3>2 DEF radix, Half
      <4>2. valIn \in Nat /\ valIn <= Word \div 2 /\ Word \div 2 \in Nat
        <5>1. value \in SmallestInt .. -SmallestInt - 1
          BY <3>2, NumbersAssumption DEF Inv, TypeOK, Numbers
        <5>2. QED
          BY <3>1, <5>1, WordAssumption DEF Absolute, SmallestInt
      <4>3. valIn \div 64 <= (Word \div 2) \div 64
        BY <4>2
      <4>4. QED
        BY <3>1, <4>1, <4>3, MinShiftsHalve
    <3>3. CASE ~ signed
      <4>1. valIn \div radix = valIn \div 128
        BY <3>3 DEF radix, Base
      <4>2. valIn \in Nat /\ valIn <= Word - 1 /\ Word \in Nat /\ Word % 2 = 0
        <5>1. value \in 0 .. Word - 1
          BY <3>3, NumbersAssumption DEF Inv, TypeOK, Numbers
        <5>2. QED
          BY <3>1, <5>1, WordAssumption DEF Absolute
      <4>3. valIn \div 128 <= (Word \div 2) \div 64
        BY <4>2
      <4>4. QED
        BY <3>1, <4>1, <4>3, MinShiftsHalve
    <3>4. QED
      BY <3>2, <3>3 DEF Inv, TypeOK
  <2>2. CASE out # <<>>
    <3>1. n >= 1 /\ valIn # 0 /\ valIn \in Nat /\ valIn <= MinShifts[n + 1]
      BY <1>1, <2>2 DEF n
    <3>2. n + 1 <= MaxBytes
      BY <1>1, <3>1, MinShiftsHalve
    <3>3. valIn \div radix = valIn \div 128
      BY <2>2 DEF radix, Base
    <3>4. MinShifts[n + 2] = MinShifts[n + 1] \div 128 /\ MinShifts[n + 1] \in Nat
      <4>1. n + 1 \in 2 .. MaxBytes /\ n + 1 \in 1 .. MaxBytes + 1 /\ (n + 1) + 1 = n + 2
        BY <1>1, <3>1, <3>2, MinShiftsHalve
      <4>2. QED
        BY <4>1, MinShiftsHalve
    <3>5. QED
      BY <3>1, <3>2, <3>3, <3>4
  <2>3. QED
    BY <2>1, <2>2
<1>5. ASSUME NEW k \in 2 .. (n + 1) + 1
      PROVE  shifts'[k] <= MinShifts[k]
  BY <1>1, <1>3, <1>4
<1>6. QED
  BY <1>3, <1>4, <1>5 DEF NoLongerThanMin

LEMMA NextFits == Inv /\ NoLongerThanMin /\ [Next]_vars => NoLongerThanMin'
<1> SUFFICES ASSUME Inv, NoLongerThanMin, [Next]_vars PROVE NoLongerThanMin'
  OBVIOUS
<1>1. CASE WriteMin
  <2>1. out' = minRes /\ shifts' = MinShifts
    BY <1>1 DEF WriteMin
  <2>2. Len(minRes) = MaxBytes /\ \A k \in 1 .. MaxBytes + 1 : MinShifts[k] \in Nat
    BY MinResAssumption, MinShiftsHalve
  <2>3. QED
    BY <2>1, <2>2, MinResAssumption DEF NoLongerThanMin
<1>2. CASE WriteFirst
  <2>1. /\ pc = "write" /\ signed /\ out = <<>> /\ ~ Smallest
        /\ WriteByte(Half, IF value < 0 THEN Half ELSE 0)
    BY <1>2, Zenon DEF WriteFirst, Smallest
  <2>2. Half = IF signed /\ out = <<>> THEN Half ELSE Base
    BY <2>1, Zenon
  <2>3. QED
    BY <2>1, <2>2, WriteByteFits, Zenon
<1>3. CASE WriteNext
  <2>1. pc = "write" /\ (~ signed \/ out # <<>>) /\ WriteByte(Base, 0)
    BY <1>3, Zenon DEF WriteNext
  <2>2. ~ Smallest
    BY <2>1, Zenon DEF Inv, WriteInv, Smallest
  <2>3. Base = IF signed /\ out = <<>> THEN Half ELSE Base
    BY <2>1, Zenon
  <2>4. QED
    BY <2>1, <2>2, <2>3, WriteByteFits, Zenon
<1>4. CASE CountByte \/ ReadFirst \/ ReadNext \/ UNCHANGED vars
  <2>1. out' = out /\ shifts' = shifts
    BY <1>4, Zenon DEF CountByte, ReadFirst, ReadNext, ReadByte, vars, writeVars
  <2>2. QED
    BY <2>1, Zenon DEF NoLongerThanMin
<1>5. QED
  BY <1>1, <1>2, <1>3, <1>4 DEF Next

LEMMA FitsBuffer == Inv /\ NoLongerThanMin => BufferFits
<1>1. ASSUME Inv PROVE nBytes <= Len(out)
  <2>1. /\ pc \in {"write", "count", "read", "done"}
        /\ pc = "write" => nBytes = 0
        /\ pc = "count" => nBytes = 0 \/ nBytes < Len(out)
        /\ pc \in {"read", "done"} => nBytes = Len(out)
        /\ Len(out) \in Nat /\ nBytes \in Nat
    BY <1>1 DEF Inv, TypeOK, CountInv, SizeExact
  <2>2. QED
    BY <2>1
<1>2. ASSUME Inv PROVE Len(out) \in Nat /\ nBytes \in Nat
  BY <1>2 DEF Inv, TypeOK
<1>3. QED
  BY <1>1, <1>2, MinResAssumption DEF NoLongerThanMin, BufferFits

(* The ten bytes the callers provide suffice for every number of the word. *)
THEOREM TenBytesSuffice == Spec => []BufferFits
<1>1. Init => NoLongerThanMin
  BY MinResAssumption DEF Init, NoLongerThanMin
<1>2. QED
  BY <1>1, NextFits, FitsBuffer, Invariance, PTL DEF Spec

-----------------------------------------------------------------------------
(* The advance of the loops.  What is still to be done, in bytes: to be    *)
(* written, counted and read; none of the three needs more than the buffer *)
(* of the callers holds.                                                   *)
StepsLeft ==
    CASE pc = "write" -> 3 * MaxBytes - Len(out)
      [] pc = "count" -> 2 * MaxBytes - nBytes
      [] OTHER -> MaxBytes - pos

LEMMA StepAdvances ==
    ASSUME Inv, Inv', BufferFits, BufferFits', Next
    PROVE  StepsLeft' < StepsLeft
<1>1. /\ MaxBytes \in Nat /\ MaxBytes > 0 /\ MaxBytes' = MaxBytes
      /\ Len(out) \in Nat /\ nBytes \in Nat /\ pos \in Nat
      /\ Len(out)' \in Nat /\ nBytes' \in Nat /\ pos' \in Nat
      /\ Len(out) <= MaxBytes /\ nBytes <= MaxBytes
      /\ Len(out)' <= MaxBytes /\ nBytes' <= MaxBytes
  BY MinResAssumption, SMTT(30) DEF Inv, TypeOK, BufferFits
<1>2. CASE WriteMin
  <2>1. pc = "write" /\ pc' = "count" /\ nBytes' = nBytes
    BY <1>2 DEF WriteMin, countVars
  <2>2. Len(out) = 0
    BY <1>2 DEF WriteMin
  <2>3. nBytes = 0
    BY <2>1 DEF Inv, CountInv
  <2>4. StepsLeft = 3 * MaxBytes /\ StepsLeft' = 2 * MaxBytes
    BY <1>1, <2>1, <2>2, <2>3 DEF StepsLeft
  <2>5. 2 * MaxBytes < 3 * MaxBytes
    BY <1>1
  <2>6. QED
    BY <2>4, <2>5, Zenon
<1>3. CASE WriteFirst \/ WriteNext
  <2>1. /\ pc = "write" /\ pc' \in {"write", "count"} /\ nBytes' = nBytes
        /\ \E byte : out' = Append(out, byte)
    BY <1>3, Zenon DEF WriteFirst, WriteNext, WriteByte, countVars
  <2>2. Len(out)' = Len(out) + 1
    BY <2>1 DEF Inv, TypeOK
  <2>3. /\ StepsLeft = 3 * MaxBytes - Len(out)
        /\ \/ StepsLeft' = 3 * MaxBytes - Len(out)'
           \/ StepsLeft' = 2 * MaxBytes - nBytes'
    BY <2>1, Zenon DEF StepsLeft
  <2>4. QED
    BY <1>1, <2>2, <2>3
<1>4. CASE CountByte
  <2>1. /\ pc = "count" /\ pc' \in {"count", "read"} /\ pos' = pos
        /\ nBytes' = MaxBytes \/ nBytes' = nBytes + 1
    BY <1>4, Zenon DEF CountByte, readVars
  <2>2. nBytes < MaxBytes
    BY <1>1, <2>1 DEF Inv, CountInv
  <2>3. /\ StepsLeft = 2 * MaxBytes - nBytes
        /\ \/ StepsLeft' = 2 * MaxBytes - nBytes'
           \/ StepsLeft' = MaxBytes - pos'
    BY <2>1, Zenon DEF StepsLeft
  <2>4. QED
    BY <1>1, <2>1, <2>2, <2>3
<1>5. CASE ReadFirst \/ ReadNext
  <2>1. pc = "read" /\ pc' \in {"read", "done"} /\ pos' = pos + 1
    BY <1>5, Zenon DEF ReadFirst, ReadNext, ReadByte
  <2>2. StepsLeft = MaxBytes - pos /\ StepsLeft' = MaxBytes - pos'
    BY <2>1, Zenon DEF StepsLeft
  <2>3. QED
    BY <1>1, <2>1, <2>2
<1>6. QED
  BY <1>2, <1>3, <1>4, <1>5 DEF Next

(* Writing, counting and reading a number take ten steps each at the most; *)
(* no loop fails to advance, whichever bit the shifts bring in and         *)
(* whatever bytes follow the number in memory.                             *)
THEOREM LoopsAdvance ==
    /\ Spec => [](StepsLeft \in 0 .. 3 * MaxBytes)
    /\ Spec => [][StepsLeft' < StepsLeft]_vars
<1>1. Inv /\ BufferFits => StepsLeft \in 0 .. 3 * MaxBytes
  <2> SUFFICES ASSUME Inv, BufferFits PROVE StepsLeft \in 0 .. 3 * MaxBytes
    OBVIOUS
  <2>1. /\ MaxBytes \in Nat /\ Len(out) \in Nat /\ nBytes \in Nat /\ pos \in Nat
        /\ Len(out) <= MaxBytes /\ nBytes <= MaxBytes
    BY MinResAssumption DEF Inv, TypeOK, BufferFits
  <2>2. pos <= Len(out)
    BY <2>1 DEF Inv, TypeOK, ReadInv
  <2>3. \/ StepsLeft = 3 * MaxBytes - Len(out)
        \/ StepsLeft = 2 * MaxBytes - nBytes
        \/ StepsLeft = MaxBytes - pos
    BY Zenon DEF StepsLeft
  <2>4. QED
    BY <2>1, <2>2, <2>3
<1>2. Inv /\ Inv' /\ BufferFits /\ BufferFits' /\ [Next]_vars => [StepsLeft' < StepsLeft]_vars
  BY StepAdvances
<1>3. Spec => [](StepsLeft \in 0 .. 3 * MaxBytes)
  BY <1>1, Invariance, TenBytesSuffice, PTL
<1>4. Spec => [][StepsLeft' < StepsLeft]_vars
  BY <1>2, Invariance, TenBytesSuffice, PTL DEF Spec
<1>5. QED
  BY <1>3, <1>4
===============================================================================
