----------------------------- MODULE RawTagsProofs -----------------------------
(***************************************************************************)
(* The tags of a record survive being written and read, for every list of  *)
(* tags, every table of symbolic names and every encoding of the sizes     *)
(* whose beginnings tell numbers apart.                                    *)
(***************************************************************************)
EXTENDS RawTags, SequenceTheorems, TLAPS

(* Offsets in the buffer and, behind Front bytes, addresses in memory. *)
NamesBegin == BitsBegin + BitfieldSize(Len(tags))

Front == 2 + Len(Encoding[id])

(* The key of tag i has number 2 * (i - 1), its value the next one. *)
Name(idx) == tags[(idx \div 2) + 1][(idx % 2) + 1]

Written == IF pc = "write" THEN n ELSE Len(tags)

SumsInv ==
    /\ Len(sums) = (IF pc = "measure" THEN n ELSE Len(tags)) + 1
    /\ sums[1] = 0
    /\ numTagBytes = sums[Len(sums)]
    /\ \A i \in 1 .. Len(sums) - 1 : sums[i + 1] = sums[i] + TagSize(tags[i])
    /\ \A i, j \in 1 .. Len(sums) : i < j => sums[i] < sums[j]

HoldsBytes(offset, bytes) ==
    /\ offset + Len(bytes) <= Len(out)
    /\ \A k \in 1 .. Len(bytes) : out[offset + k] = bytes[k]

HeaderInv ==
    /\ Len(tags) \in Numbers
    /\ numBytes \in Numbers
    /\ numBytes = SerializedSize(Len(tags))
    /\ HoldsBytes(0, Encoding[numBytes])
    /\ HoldsBytes(varUintNumBytes(numBytes), Encoding[Len(tags)])
    /\ Len(out) = NamesBegin + sums[Written + 1]

BitsInv ==
    \A idx \in 0 .. 2 * Len(tags) - 1 :
        7 - (idx % 8) \in out[BitsBegin + 1 + (idx \div 8)]
            <=> idx < 2 * Written /\ IsSymbolic(Name(idx))

TagsInv ==
    \A i \in 1 .. Written :
        /\ HoldsBytes(NamesBegin + sums[i], WrittenName(tags[i][1]))
        /\ HoldsBytes(NamesBegin + sums[i] + NameSize(tags[i][1]), WrittenName(tags[i][2]))

WriteInv ==
    pc \in {"write", "locate", "iterate", "done"} => HeaderInv /\ BitsInv /\ TagsInv

ReadInv ==
    pc \in {"iterate", "done"} =>
        /\ rawTags = [numTags |-> Len(tags), numTagBytes |-> numTagBytes,
                      symbolicNameBits |-> Front + BitsBegin + 1,
                      tagsStart |-> Front + NamesBegin + 1]
        /\ tagsAtPos = Front + NamesBegin + 1 + sums[pos + 1]
        /\ Len(seen) = pos /\ \A i \in 1 .. pos : seen[i] = tags[i]
        /\ pc = "done" => pos = Len(tags)

Safe == WithinBuffer /\ FieldsFound /\ CopyAlike

Before == pc \in {"measure", "outOfMemory", "write", "locate"} => pos = 0 /\ seen = <<>>

Inv == TypeOK /\ SumsInv /\ WriteInv /\ ReadInv /\ Before /\ Safe

-----------------------------------------------------------------------------
(* ConcatProperties, by the offset in either part. *)
LEMMA Concatenated ==
    ASSUME NEW S, NEW s \in Seq(S), NEW t \in Seq(S)
    PROVE  /\ s \o t \in Seq(S) /\ Len(s \o t) = Len(s) + Len(t)
           /\ \A k \in 1 .. Len(s) : (s \o t)[k] = s[k]
           /\ \A k \in 1 .. Len(t) : (s \o t)[Len(s) + k] = t[k]
<1>1. /\ s \o t \in Seq(S) /\ Len(s \o t) = Len(s) + Len(t)
      /\ \A i \in 1 .. Len(s) + Len(t) :
            (s \o t)[i] = IF i <= Len(s) THEN s[i] ELSE t[i - Len(s)]
  BY ConcatProperties
<1>2. Len(s) \in Nat /\ Len(t) \in Nat
  OBVIOUS
<1>3. ASSUME NEW k \in 1 .. Len(s) PROVE (s \o t)[k] = s[k]
  BY <1>1, <1>2
<1>4. ASSUME NEW k \in 1 .. Len(t) PROVE (s \o t)[Len(s) + k] = t[k]
  <2>1. /\ Len(s) + k \in 1 .. Len(s) + Len(t)
        /\ ~ (Len(s) + k <= Len(s)) /\ (Len(s) + k) - Len(s) = k
    BY <1>2
  <2>2. QED
    BY <1>1, <2>1
<1>5. QED
  BY <1>1, <1>3, <1>4

LEMMA SymbolicId ==
    ASSUME NEW name, IsSymbolic(name)
    PROVE  /\ symbolicNameId(name) \in DOMAIN symbolicNames
           /\ symbolicNameId(name) \in Bytes
           /\ symbolicNames[symbolicNameId(name)] = name
BY NamesAssumption DEF IsSymbolic, symbolicNameId

(* What is written of a name has the size that was measured. *)
LEMMA WrittenSize ==
    ASSUME NEW name \in Names
    PROVE  /\ WrittenName(name) \in Seq(Bytes)
           /\ Len(WrittenName(name)) = NameSize(name)
           /\ NameSize(name) \in Nat \ {0}
<1>1. CASE IsSymbolic(name)
  <2>1. symbolicNameId(name) \in Bytes
    BY <1>1, SymbolicId
  <2>2. QED
    BY <1>1, <2>1 DEF WrittenName, NameSize
<1>2. CASE ~ IsSymbolic(name)
  <2>1. name \in Seq(Bytes) /\ NUL \in Bytes
    BY NamesAssumption DEF Names, NUL, Bytes
  <2>2. QED
    BY <1>2, <2>1 DEF WrittenName, NameSize
<1>3. QED
  BY <1>1, <1>2

LEMMA TagsTyped ==
    ASSUME TypeOK, NEW i \in 1 .. Len(tags)
    PROVE  /\ tags \in Seq(Names \X Names)
           /\ tags[i][1] \in Names /\ tags[i][2] \in Names
           /\ tags[i] = <<tags[i][1], tags[i][2]>>
           /\ TagSize(tags[i]) \in Nat /\ TagSize(tags[i]) > 0
<1>1. tags \in Seq(Names \X Names)
  BY RecordAssumption DEF TypeOK
<1>2. tags[i] \in Names \X Names
  BY <1>1
<1>3. tags[i][1] \in Names /\ tags[i][2] \in Names /\ tags[i] = <<tags[i][1], tags[i][2]>>
  BY <1>2
<1>4. NameSize(tags[i][1]) \in Nat \ {0} /\ NameSize(tags[i][2]) \in Nat \ {0}
  BY <1>3, WrittenSize
<1>5. QED
  BY <1>1, <1>3, <1>4 DEF TagSize

LEMMA EncodingTyped ==
    ASSUME NEW number \in Numbers
    PROVE  /\ Encoding[number] \in Seq(Bytes)
           /\ varUintNumBytes(number) = Len(Encoding[number])
           /\ varUintNumBytes(number) \in Nat \ {0}
           /\ number \in Nat
<1>1. Encoding[number] \in Seq(Bytes) /\ Encoding[number] # <<>>
  BY EncodingAssumption
<1>2. QED
  BY <1>1, EncodingAssumption DEF varUintNumBytes, Numbers

(* A number is read as it was written. *)
LEMMA Decoded ==
    ASSUME NEW number \in Numbers, NEW addr \in Nat,
           StartsWith(addr, Encoding[number])
    PROVE  varUintFromBytes(addr) = number
<1>1. \A m \in Numbers : StartsWith(addr, Encoding[m]) => m = number
  <2> SUFFICES ASSUME NEW m \in Numbers, StartsWith(addr, Encoding[m]), m # number
               PROVE  FALSE
    OBVIOUS
  <2>1. PICK i \in 1 .. Len(Encoding[m]) :
             i \in DOMAIN Encoding[number] /\ Encoding[m][i] # Encoding[number][i]
    BY EncodingAssumption
  <2>2. i \in 1 .. Len(Encoding[number])
    BY <2>1, EncodingTyped
  <2>3. Memory[addr + i - 1] = Encoding[m][i] /\ Memory[addr + i - 1] = Encoding[number][i]
    BY <2>1, <2>2 DEF StartsWith
  <2>4. QED
    BY <2>1, <2>3
<1>2. QED
  BY <1>1 DEF varUintFromBytes

(* Where the parts of a record lie in memory. *)
LEMMA MemoryLayout ==
    ASSUME TypeOK
    PROVE  /\ Front \in Nat
           /\ Memory \in Seq(Bytes)
           /\ Len(Memory) = Front + Len(out) + Len(Body)
           /\ Len(Body) \in Nat \ {0}
           /\ \A k \in 1 .. Len(Encoding[id]) : Memory[2 + k] = Encoding[id][k]
           /\ \A k \in 1 .. Len(out) : Memory[Front + k] = out[k]
<1> DEFINE first == <<{}, {}>>
           second == first \o Encoding[id]
           third == second \o out
<1>1. /\ id \in Numbers /\ out \in Seq(Bytes)
      /\ Body \in Seq(Bytes) /\ Len(Body) \in Nat \ {0}
  BY RecordAssumption DEF TypeOK
<1>2. Encoding[id] \in Seq(Bytes)
  BY <1>1, EncodingTyped
<1>3. first \in Seq(Bytes) /\ Len(first) = 2
  BY DEF Bytes
<1>6. Memory = third \o Body
  BY DEF Memory
<1> HIDE DEF first
<1>4. /\ second \in Seq(Bytes) /\ Len(second) = Len(first) + Len(Encoding[id])
      /\ \A k \in 1 .. Len(Encoding[id]) : second[Len(first) + k] = Encoding[id][k]
  BY <1>2, <1>3, Concatenated
<1> HIDE DEF second
<1>13. second \in Seq(Bytes) /\ out \in Seq(Bytes) /\ Body \in Seq(Bytes)
  BY <1>1, <1>4
<1>5. /\ third \in Seq(Bytes) /\ Len(third) = Len(second) + Len(out)
      /\ \A k \in 1 .. Len(second) : third[k] = second[k]
      /\ \A k \in 1 .. Len(out) : third[Len(second) + k] = out[k]
  BY <1>13, Concatenated
<1> HIDE DEF third
<1> DEFINE whole == third \o Body
<1>14. third \in Seq(Bytes)
  BY <1>5
<1>7. /\ whole \in Seq(Bytes) /\ Len(whole) = Len(third) + Len(Body)
      /\ \A k \in 1 .. Len(third) : whole[k] = third[k]
  BY <1>13, <1>14, Concatenated
<1> HIDE DEF whole
<1>12. Memory = whole
  BY <1>6 DEF whole
<1>8. Front \in Nat /\ Front = Len(second)
  BY <1>2, <1>3, <1>4 DEF Front
<1>9. ASSUME NEW k \in 1 .. Len(Encoding[id])
      PROVE  Memory[2 + k] = Encoding[id][k]
  <2>1. 2 + k \in 1 .. Len(second) /\ 2 + k \in 1 .. Len(third)
    BY <1>1, <1>2, <1>3, <1>4, <1>5
  <2>2. QED
    BY <1>3, <1>4, <1>5, <1>7, <1>12, <2>1
<1>10. ASSUME NEW k \in 1 .. Len(out)
       PROVE  Memory[Front + k] = out[k]
  <2>1. Front + k \in 1 .. Len(third)
    BY <1>1, <1>5, <1>8
  <2>2. QED
    BY <1>5, <1>7, <1>8, <1>12, <2>1
<1>11. QED
  BY <1>1, <1>5, <1>7, <1>8, <1>9, <1>10, <1>12

-----------------------------------------------------------------------------
(* The bits of the bit array: none is used for two names. *)
LEMMA BitArithmetic ==
    ASSUME NEW i \in Nat, NEW idx \in Nat
    PROVE  /\ idx % 8 \in 0 .. 7 /\ idx \div 8 \in Nat
           /\ (2 * i) % 8 \in 0 .. 6
           /\ (2 * i + 1) \div 8 = (2 * i) \div 8
           /\ (2 * i + 1) % 8 = ((2 * i) % 8) + 1
           /\ (idx \div 8 = (2 * i) \div 8 /\ idx % 8 = (2 * i) % 8) => idx = 2 * i
           /\ (idx \div 8 = (2 * i) \div 8 /\ idx % 8 = ((2 * i) % 8) + 1) => idx = 2 * i + 1
           /\ BitfieldSize(i) \in Nat
           /\ idx < 2 * i => idx \div 8 < BitfieldSize(i)
BY DEF BitfieldSize

(* strlen() finds the end of a name that a NUL follows. *)
LEMMA Strlen ==
    ASSUME Memory \in Seq(Bytes), NEW addr \in Nat \ {0}, NEW name \in Names,
           addr + Len(name) \in 1 .. Len(Memory),
           \A k \in 1 .. Len(name) : Memory[addr + k - 1] = name[k],
           Memory[addr + Len(name)] = NUL
    PROVE  /\ strlen(addr) = Len(name)
           /\ SubSeq(Memory, addr, addr + strlen(addr) - 1) = name
<1>1. name \in Seq(Chars) /\ Len(name) \in Nat
  BY DEF Names
<1>2. \A k \in 1 .. Len(name) : Memory[addr + k - 1] # NUL
  <2> SUFFICES ASSUME NEW k \in 1 .. Len(name) PROVE name[k] # NUL
    OBVIOUS
  <2>1. name[k] \in Chars
    BY <1>1
  <2>2. QED
    BY <2>1, NamesAssumption
<1>3. \A i \in 0 .. Len(name) - 1 : Memory[addr + i] # NUL
  <2> SUFFICES ASSUME NEW i \in 0 .. Len(name) - 1 PROVE Memory[addr + i] # NUL
    OBVIOUS
  <2>1. i + 1 \in 1 .. Len(name) /\ addr + (i + 1) - 1 = addr + i
    BY <1>1
  <2>2. QED
    BY <1>2, <2>1
<1> DEFINE Ends(len) == /\ Memory[addr + len] = NUL
                        /\ \A i \in 0 .. len - 1 : Memory[addr + i] # NUL
<1>4. Len(name) \in 0 .. Len(Memory) - addr /\ Ends(Len(name))
  BY <1>1, <1>3
<1>5. \A len \in 0 .. Len(Memory) - addr : Ends(len) => len = Len(name)
  <2> SUFFICES ASSUME NEW len \in 0 .. Len(Memory) - addr, Ends(len) PROVE len = Len(name)
    OBVIOUS
  <2>1. ~ (len < Len(name))
    BY <1>1, <1>3
  <2>2. ~ (Len(name) < len)
    BY <1>1
  <2>3. QED
    BY <1>1, <2>1, <2>2
<1>6. strlen(addr) = CHOOSE len \in 0 .. Len(Memory) - addr : Ends(len)
  BY DEF strlen
<1> HIDE DEF Ends
<1>7. strlen(addr) = Len(name)
  BY <1>4, <1>5, <1>6
<1>8. SubSeq(Memory, addr, addr + Len(name) - 1) = name
  <2> DEFINE sub == SubSeq(Memory, addr, addr + Len(name) - 1)
  <2>1. /\ sub \in Seq(Bytes) /\ Len(sub) = Len(name)
        /\ \A k \in 1 .. Len(name) : sub[k] = Memory[addr + k - 1]
    BY <1>1
  <2>2. name \in Seq(Bytes)
    BY <1>1, NamesAssumption
  <2> HIDE DEF sub
  <2>3. \A k \in 1 .. Len(sub) : sub[k] = name[k]
    BY <2>1
  <2>4. sub = name
    BY <2>1, <2>2, <2>3, SeqEqual
  <2>5. QED
    BY <2>4 DEF sub
<1>9. QED
  BY <1>7, <1>8

(* A name that was written is read, and its end is found. *)
LEMMA ReadName ==
    ASSUME TypeOK, NEW offset \in Nat, NEW name \in Names, NEW idx,
           HoldsBytes(offset, WrittenName(name)),
           isSymbolicName(idx) <=> IsSymbolic(name)
    PROVE  /\ NameAt(Front + offset + 1, idx) = name
           /\ Behind(Front + offset + 1, idx) = Front + offset + 1 + NameSize(name)
<1> DEFINE addr == Front + offset + 1
           written == WrittenName(name)
<1>1. /\ Front \in Nat /\ Len(out) \in Nat /\ offset + Len(written) <= Len(out)
      /\ Memory \in Seq(Bytes) /\ Len(Memory) >= Front + Len(out)
      /\ Len(written) = NameSize(name) /\ NameSize(name) \in Nat \ {0}
  BY MemoryLayout, WrittenSize, SMTT(30) DEF HoldsBytes, TypeOK
<1>2. \A k \in 1 .. Len(written) : Memory[addr + k - 1] = written[k]
  <2> SUFFICES ASSUME NEW k \in 1 .. Len(written) PROVE Memory[addr + k - 1] = written[k]
    OBVIOUS
  <2>1. offset + k \in 1 .. Len(out) /\ addr + k - 1 = Front + (offset + k)
    BY <1>1
  <2>2. Memory[Front + (offset + k)] = out[offset + k] /\ out[offset + k] = written[k]
    BY <2>1, MemoryLayout DEF HoldsBytes
  <2>3. QED
    BY <2>1, <2>2
<1>3. CASE IsSymbolic(name)
  <2>1. written = <<symbolicNameId(name)>> /\ NameSize(name) = 1
    BY <1>3 DEF WrittenName, NameSize
  <2>2. Memory[addr] = symbolicNameId(name)
    <3>1. 1 \in 1 .. Len(written) /\ addr + 1 - 1 = addr /\ written[1] = symbolicNameId(name)
      BY <1>1, <2>1
    <3>2. QED
      BY <1>2, <3>1
  <2>3. QED
    BY <1>3, <2>1, <2>2, SymbolicId DEF NameAt, Behind
<1>4. CASE ~ IsSymbolic(name)
  <2>1. /\ written = Append(name, NUL) /\ NameSize(name) = Len(name) + 1
        /\ name \in Seq(Chars) /\ Len(name) \in Nat
    BY <1>4 DEF WrittenName, NameSize, Names
  <2>2. written[Len(name) + 1] = NUL /\ \A k \in 1 .. Len(name) : written[k] = name[k]
    BY <2>1
  <2>3. addr \in Nat \ {0} /\ addr + Len(name) \in 1 .. Len(Memory)
    BY <1>1, <2>1
  <2>4. Memory[addr + Len(name)] = NUL
    <3>1. /\ Len(name) + 1 \in 1 .. Len(written)
          /\ addr + (Len(name) + 1) - 1 = addr + Len(name)
      BY <1>1, <2>1
    <3>2. QED
      BY <1>2, <2>2, <3>1
  <2>5. \A k \in 1 .. Len(name) : Memory[addr + k - 1] = name[k]
    BY <1>1, <1>2, <2>1, <2>2
  <2>6. /\ strlen(addr) = Len(name)
        /\ SubSeq(Memory, addr, addr + strlen(addr) - 1) = name
    BY <1>1, <2>3, <2>4, <2>5, Strlen
  <2>7. QED
    BY <1>1, <1>4, <2>1, <2>3, <2>6 DEF NameAt, Behind
<1>5. QED
  BY <1>3, <1>4

(* Bytes in the buffer are the bytes in memory behind Front. *)
LEMMA HeldInMemory ==
    ASSUME TypeOK, NEW offset \in Nat, NEW number \in Numbers,
           HoldsBytes(offset, Encoding[number])
    PROVE  /\ varUintFromBytes(Front + offset + 1) = number
           /\ After(Front + offset + 1) = Front + offset + 1 + varUintNumBytes(number)
<1> DEFINE addr == Front + offset + 1
           bytes == Encoding[number]
<1>1. /\ Front \in Nat /\ Len(out) \in Nat /\ offset + Len(bytes) <= Len(out)
      /\ Memory \in Seq(Bytes) /\ Len(Memory) >= Front + Len(out) /\ bytes \in Seq(Bytes)
  BY MemoryLayout, EncodingTyped, SMTT(30) DEF HoldsBytes, TypeOK
<1>2. ASSUME NEW i \in 1 .. Len(bytes)
      PROVE  addr + i - 1 \in DOMAIN Memory /\ Memory[addr + i - 1] = bytes[i]
  <2>1. /\ offset + i \in 1 .. Len(out) /\ addr + i - 1 = Front + (offset + i)
        /\ addr + i - 1 \in 1 .. Len(Memory)
    BY <1>1
  <2>2. Memory[Front + (offset + i)] = out[offset + i] /\ out[offset + i] = bytes[i]
    BY <2>1, MemoryLayout DEF HoldsBytes
  <2>3. QED
    BY <1>1, <2>1, <2>2
<1>3. StartsWith(addr, bytes)
  BY <1>2 DEF StartsWith
<1>4. addr \in Nat
  BY <1>1
<1>5. varUintFromBytes(addr) = number
  BY <1>3, <1>4, Decoded
<1>6. QED
  BY <1>5 DEF After

(* The fields before the names are found where they were written. *)
LEMMA HeaderRead ==
    ASSUME TypeOK, HeaderInv
    PROVE  /\ varUintFromBytes(IdAddr) = id
           /\ TagsAddr = Front + 1
           /\ varUintFromBytes(TagsAddr) = numBytes
           /\ After(TagsAddr) = Front + 1 + varUintNumBytes(numBytes)
           /\ varUintFromBytes(After(TagsAddr)) = Len(tags)
           /\ After(After(TagsAddr)) = Front + BitsBegin + 1
<1>1. id \in Numbers /\ numBytes \in Numbers /\ Len(tags) \in Numbers
  BY RecordAssumption DEF TypeOK, HeaderInv
<1>2. /\ varUintNumBytes(id) = Len(Encoding[id]) /\ Len(Encoding[id]) \in Nat
      /\ varUintNumBytes(numBytes) \in Nat /\ varUintNumBytes(Len(tags)) \in Nat
      /\ Front \in Nat /\ Memory \in Seq(Bytes) /\ Len(Memory) >= Front
  <2>1. out \in Seq(Bytes) /\ Len(out) \in Nat
    BY DEF TypeOK
  <2>2. /\ Front \in Nat /\ Memory \in Seq(Bytes) /\ Len(Memory) = Front + Len(out) + Len(Body)
        /\ Len(Body) \in Nat
    BY MemoryLayout
  <2>3. Len(Memory) >= Front
    BY <2>1, <2>2
  <2>4. QED
    BY <1>1, <2>2, <2>3, EncodingTyped
<1>3. StartsWith(IdAddr, Encoding[id])
  <2> SUFFICES ASSUME NEW i \in 1 .. Len(Encoding[id])
               PROVE  3 + i - 1 \in DOMAIN Memory /\ Memory[3 + i - 1] = Encoding[id][i]
    BY DEF StartsWith, IdAddr
  <2>1. 3 + i - 1 = 2 + i /\ 2 + i \in 1 .. Len(Memory)
    BY <1>2 DEF Front
  <2>2. QED
    BY <1>2, <2>1, MemoryLayout
<1>4. varUintFromBytes(IdAddr) = id
  BY <1>1, <1>3, Decoded DEF IdAddr
<1>5. TagsAddr = Front + 0 + 1 /\ TagsAddr = Front + 1
  BY <1>2, <1>4 DEF TagsAddr, After, IdAddr, Front
<1>6. varUintFromBytes(TagsAddr) = numBytes /\ After(TagsAddr) = TagsAddr + varUintNumBytes(numBytes)
  <2>1. HoldsBytes(0, Encoding[numBytes])
    BY DEF HeaderInv
  <2>2. QED
    BY <1>1, <1>5, <2>1, HeldInMemory
<1>7. After(TagsAddr) = Front + varUintNumBytes(numBytes) + 1
  BY <1>2, <1>5, <1>6
<1>8. /\ varUintFromBytes(After(TagsAddr)) = Len(tags)
      /\ After(After(TagsAddr)) = After(TagsAddr) + varUintNumBytes(Len(tags))
  <2>1. HoldsBytes(varUintNumBytes(numBytes), Encoding[Len(tags)])
    BY DEF HeaderInv
  <2>2. QED
    BY <1>1, <1>2, <1>7, <2>1, HeldInMemory
<1>9. QED
  BY <1>2, <1>4, <1>5, <1>6, <1>7, <1>8 DEF BitsBegin

(* Sizes and offsets are numbers. *)
LEMMA OffsetsTyped ==
    ASSUME TypeOK, SumsInv, Len(tags) \in Numbers
    PROVE  /\ Len(tags) \in Nat
           /\ varUintNumBytes(numBytes) \in Nat /\ varUintNumBytes(Len(tags)) \in Nat
           /\ BitsBegin \in Nat /\ BitfieldSize(Len(tags)) \in Nat /\ NamesBegin \in Nat
           /\ NamesBegin = BitsBegin + BitfieldSize(Len(tags))
           /\ \A i \in 1 .. Len(sums) : sums[i] \in Nat
           /\ SerializedSize(Len(tags)) = varUintNumBytes(Len(tags)) + BitfieldSize(Len(tags)) + numTagBytes
<1>1. numBytes \in Numbers /\ sums \in Seq(Nat)
  BY DEF TypeOK
<1>2. /\ Len(tags) \in Nat
      /\ varUintNumBytes(numBytes) \in Nat /\ varUintNumBytes(Len(tags)) \in Nat
  BY <1>1, EncodingTyped
<1>3. BitfieldSize(Len(tags)) \in Nat
  BY <1>2, BitArithmetic
<1>4. \A i \in 1 .. Len(sums) : sums[i] \in Nat
  BY <1>1
<1>5. QED
  BY <1>2, <1>3, <1>4 DEF BitsBegin, NamesBegin, SerializedSize

(* The bits say which of the names written are symbolic. *)
LEMMA BitRead ==
    ASSUME TypeOK, SumsInv, HeaderInv, BitsInv, pc # "measure", NEW idx \in 0 .. 2 * Len(tags) - 1,
           rawTags.symbolicNameBits = Front + BitsBegin + 1
    PROVE  isSymbolicName(idx) <=> idx < 2 * Written /\ IsSymbolic(Name(idx))
<1>1. /\ Len(tags) \in Nat /\ BitsBegin \in Nat
      /\ NamesBegin = BitsBegin + BitfieldSize(Len(tags))
      /\ BitfieldSize(Len(tags)) \in Nat
      /\ Len(tags) \in Numbers
  BY OffsetsTyped DEF HeaderInv
<1>2. idx \in Nat /\ idx < 2 * Len(tags)
  BY <1>1
<1>3. idx \div 8 \in Nat /\ idx \div 8 < BitfieldSize(Len(tags))
  BY <1>1, <1>2, BitArithmetic
<1>4. Len(out) >= NamesBegin /\ Len(out) \in Nat
  <2>1. Written + 1 \in 1 .. Len(sums)
    <3>1. n \in 0 .. Len(tags)
      BY DEF TypeOK
    <3>2. Len(sums) = Len(tags) + 1
      BY DEF SumsInv
    <3>3. Written \in 0 .. Len(tags)
      BY <1>1, <3>1 DEF Written
    <3>4. QED
      BY <1>1, <3>2, <3>3
  <2>2. sums[Written + 1] \in Nat
    BY <1>1, <2>1, OffsetsTyped
  <2>3. Len(out) = NamesBegin + sums[Written + 1] /\ Len(out) \in Nat
    BY DEF HeaderInv, TypeOK
  <2>4. QED
    BY <1>1, <2>2, <2>3
<1> DEFINE quot == idx \div 8
<1> HIDE DEF quot
<1>5. /\ BitsBegin + 1 + quot \in 1 .. Len(out)
      /\ Front + BitsBegin + 1 + quot = Front + (BitsBegin + 1 + quot)
  BY <1>1, <1>3, <1>4, MemoryLayout DEF quot
<1>6. Memory[Front + BitsBegin + 1 + quot] = out[BitsBegin + 1 + quot]
  BY <1>5, MemoryLayout
<1>7. QED
  BY <1>6 DEF isSymbolicName, BitsInv, quot

-----------------------------------------------------------------------------
LEMMA InitInv == Init => Inv
<1> SUFFICES ASSUME Init PROVE Inv
  OBVIOUS
<1>1. tags \in Seq(Names \X Names) /\ Len(tags) \in Nat /\ 0 \in Numbers
  BY RecordAssumption, EncodingAssumption DEF Init, Numbers
<1>2. TypeOK
  BY <1>1 DEF Init, TypeOK
<1>3. SumsInv
  BY DEF Init, SumsInv
<1>4. WriteInv /\ ReadInv /\ Before /\ Safe
  BY DEF Init, WriteInv, ReadInv, Before, Safe, WithinBuffer, FieldsFound, CopyAlike
<1>5. QED
  BY <1>2, <1>3, <1>4 DEF Inv

LEMMA MeasureInv == Inv /\ Measure => Inv'
<1> SUFFICES ASSUME Inv, Measure PROVE Inv'
  OBVIOUS
<1>1. TypeOK /\ SumsInv /\ Before
  BY DEF Inv
<1>2. /\ pc = "measure" /\ n \in Nat /\ Len(tags) \in Nat /\ n < Len(tags)
      /\ n + 1 \in 1 .. Len(tags)
  BY <1>1 DEF TypeOK, Measure
<1> DEFINE size == TagSize(tags[n + 1])
<1>3. size \in Nat /\ size > 0
  BY <1>1, <1>2, TagsTyped
<1>4. /\ numTagBytes' = numTagBytes + size /\ n' = n + 1
      /\ sums' = Append(sums, numTagBytes')
      /\ UNCHANGED <<inputVars, pc, numBytes, out, readVars>>
  BY DEF Measure
<1> HIDE DEF size
<1>5. /\ numTagBytes \in Nat /\ sums \in Seq(Nat) /\ numTagBytes' \in Nat
  BY <1>1, <1>3, <1>4 DEF TypeOK
<1>6. /\ sums' \in Seq(Nat) /\ Len(sums') = Len(sums) + 1
      /\ sums'[Len(sums) + 1] = numTagBytes'
      /\ \A i \in 1 .. Len(sums) : sums'[i] = sums[i]
  BY <1>4, <1>5, AppendProperties
<1>7. TypeOK'
  BY <1>1, <1>2, <1>4, <1>5, <1>6 DEF TypeOK, inputVars, readVars
<1>8. SumsInv'
  <2>1. /\ Len(sums) = n + 1 /\ sums[1] = 0 /\ numTagBytes = sums[Len(sums)]
        /\ \A i \in 1 .. Len(sums) - 1 : sums[i + 1] = sums[i] + TagSize(tags[i])
        /\ \A i, j \in 1 .. Len(sums) : i < j => sums[i] < sums[j]
    BY <1>1, <1>2 DEF SumsInv
  <2>2. /\ Len(sums') = n + 2 /\ sums'[n + 2] = sums[n + 1] + size
        /\ sums'[n + 1] = sums[n + 1] /\ sums'[1] = 0
        /\ numTagBytes' = sums'[n + 2]
    BY <1>2, <1>4, <1>5, <1>6, <2>1
  <2>3. \A i \in 1 .. n + 1 : sums'[i + 1] = sums'[i] + TagSize(tags[i])
    <3> SUFFICES ASSUME NEW i \in 1 .. n + 1
                 PROVE  sums'[i + 1] = sums'[i] + TagSize(tags[i])
      OBVIOUS
    <3>1. CASE i = n + 1
      BY <1>2, <2>2, <3>1 DEF size
    <3>2. CASE i # n + 1
      <4>1. i \in 1 .. Len(sums) - 1 /\ i \in 1 .. Len(sums) /\ i + 1 \in 1 .. Len(sums)
        BY <1>2, <2>1, <3>2
      <4>2. QED
        BY <1>6, <2>1, <4>1
    <3>3. QED
      BY <3>1, <3>2
  <2>4. \A i, j \in 1 .. n + 2 : i < j => sums'[i] < sums'[j]
    <3> SUFFICES ASSUME NEW i \in 1 .. n + 2, NEW j \in 1 .. n + 2, i < j
                 PROVE  sums'[i] < sums'[j]
      OBVIOUS
    <3>1. i \in 1 .. Len(sums) /\ sums'[i] = sums[i] /\ sums[i] \in Nat
      BY <1>2, <1>5, <1>6, <2>1
    <3>2. CASE j = n + 2
      <4>1. sums[i] <= sums[n + 1] /\ sums[n + 1] \in Nat
        BY <1>2, <1>5, <2>1, <3>1
      <4>2. QED
        BY <1>3, <2>2, <3>1, <3>2, <4>1
    <3>3. CASE j # n + 2
      <4>1. j \in 1 .. Len(sums) /\ sums'[j] = sums[j]
        BY <1>2, <1>6, <2>1, <3>3
      <4>2. QED
        BY <2>1, <3>1, <4>1
    <3>4. QED
      BY <3>2, <3>3
  <2>5. tags' = tags /\ pc' = "measure" /\ n' + 1 = n + 2 /\ Len(sums') - 1 = n + 1
    BY <1>2, <1>4, <2>2 DEF inputVars
  <2>6. \A i \in 1 .. Len(sums') - 1 : sums'[i + 1] = sums'[i] + TagSize(tags'[i])
    BY <2>3, <2>5
  <2>7. QED
    BY <2>2, <2>4, <2>5, <2>6 DEF SumsInv, TagSize, NameSize, IsSymbolic
<1>9. WriteInv' /\ ReadInv' /\ Before' /\ Safe'
  BY <1>1, <1>2, <1>4
  DEF WriteInv, ReadInv, Before, Safe, WithinBuffer, FieldsFound, CopyAlike, readVars
<1>10. QED
  BY <1>7, <1>8, <1>9 DEF Inv

(* The lists of tags that are too long. *)
LEMMA AllocationFailsInv == Inv /\ AllocationFails => Inv'
<1> SUFFICES ASSUME Inv, AllocationFails PROVE Inv'
  OBVIOUS
<1>1. TypeOK /\ SumsInv /\ Before
  BY DEF Inv
<1>2. /\ pc = "measure" /\ n = Len(tags) /\ pc' = "outOfMemory"
      /\ UNCHANGED <<inputVars, n, writeVars, readVars>>
  BY DEF AllocationFails
<1>3. TypeOK'
  BY <1>1, <1>2 DEF TypeOK, inputVars, writeVars, readVars
<1>4. SumsInv'
  BY <1>1, <1>2 DEF SumsInv, inputVars, writeVars, TagSize, NameSize, IsSymbolic
<1>5. WriteInv' /\ ReadInv' /\ Before' /\ Safe'
  BY <1>1, <1>2
  DEF WriteInv, ReadInv, Before, Safe, WithinBuffer, FieldsFound, CopyAlike, readVars
<1>6. QED
  BY <1>3, <1>4, <1>5 DEF Inv

(* Three parts, one behind the other. *)
LEMMA ThreeParts ==
    ASSUME NEW S, NEW r \in Seq(S), NEW s \in Seq(S), NEW t \in Seq(S)
    PROVE  /\ r \o s \o t \in Seq(S)
           /\ Len(r \o s \o t) = Len(r) + Len(s) + Len(t)
           /\ \A k \in 1 .. Len(r) : (r \o s \o t)[k] = r[k]
           /\ \A k \in 1 .. Len(s) : (r \o s \o t)[Len(r) + k] = s[k]
           /\ \A k \in 1 .. Len(t) : (r \o s \o t)[Len(r) + Len(s) + k] = t[k]
<1> DEFINE u == r \o s
           v == u \o t
<1>1. /\ u \in Seq(S) /\ Len(u) = Len(r) + Len(s)
      /\ \A k \in 1 .. Len(r) : u[k] = r[k]
      /\ \A k \in 1 .. Len(s) : u[Len(r) + k] = s[k]
  BY Concatenated
<1> HIDE DEF u
<1>2. u \in Seq(S)
  BY <1>1
<1>3. /\ v \in Seq(S) /\ Len(v) = Len(u) + Len(t)
      /\ \A k \in 1 .. Len(u) : v[k] = u[k]
      /\ \A k \in 1 .. Len(t) : v[Len(u) + k] = t[k]
  BY <1>2, Concatenated
<1> HIDE DEF v
<1>4. Len(r) \in Nat /\ Len(s) \in Nat /\ Len(t) \in Nat
  OBVIOUS
<1>5. \A k \in 1 .. Len(r) : v[k] = r[k]
  BY <1>1, <1>3, <1>4
<1>6. \A k \in 1 .. Len(s) : v[Len(r) + k] = s[k]
  BY <1>1, <1>3, <1>4
<1>7. \A k \in 1 .. Len(t) : v[Len(r) + Len(s) + k] = t[k]
  BY <1>1, <1>3, <1>4
<1>8. v = r \o s \o t
  BY DEF v, u
<1>9. v \in Seq(S) /\ Len(v) = Len(r) + Len(s) + Len(t)
  BY <1>1, <1>3
<1>10. QED
  BY <1>5, <1>6, <1>7, <1>8, <1>9

LEMMA AllocateInv == Inv /\ Allocate => Inv'
<1> SUFFICES ASSUME Inv, Allocate PROVE Inv'
  OBVIOUS
<1>1. TypeOK /\ SumsInv /\ Before
  BY DEF Inv
<1>2. /\ pc = "measure" /\ n = Len(tags) /\ pc' = "write" /\ n' = 0
      /\ numBytes' = SerializedSize(Len(tags))
      /\ Len(tags) \in Numbers /\ numBytes' \in Numbers
      /\ UNCHANGED <<inputVars, numTagBytes, sums, readVars>>
  BY DEF Allocate, Allocatable
<1>3. tags' = tags /\ numTagBytes' = numTagBytes /\ sums' = sums
  BY <1>2 DEF inputVars
<1> DEFINE size == Encoding[numBytes']
           count == Encoding[Len(tags)]
           bits == BitfieldSize(Len(tags))
           zeros == [k \in 1 .. bits |-> {}]
<1>4. /\ size \in Seq(Bytes) /\ count \in Seq(Bytes)
      /\ varUintNumBytes(numBytes') = Len(size) /\ varUintNumBytes(Len(tags)) = Len(count)
      /\ Len(tags) \in Nat
  BY <1>2, EncodingTyped
<1>5. bits \in Nat
  BY <1>4, BitArithmetic
<1>6. out' = size \o count \o zeros
  BY DEF Allocate
<1> HIDE DEF size, count, bits
<1>7. /\ zeros \in Seq(Bytes) /\ Len(zeros) = bits /\ \A k \in 1 .. bits : zeros[k] = {}
  <2>1. {} \in Bytes
    BY DEF Bytes
  <2>2. QED
    BY <1>5, <2>1
<1> HIDE DEF zeros
<1>15. zeros \in Seq(Bytes) /\ size \in Seq(Bytes) /\ count \in Seq(Bytes)
  BY <1>4, <1>7
<1> DEFINE record == size \o count \o zeros
<1>8. /\ record \in Seq(Bytes) /\ Len(record) = Len(size) + Len(count) + Len(zeros)
      /\ \A k \in 1 .. Len(size) : record[k] = size[k]
      /\ \A k \in 1 .. Len(count) : record[Len(size) + k] = count[k]
      /\ \A k \in 1 .. Len(zeros) : record[Len(size) + Len(count) + k] = zeros[k]
  BY <1>15, ThreeParts
<1>16. out' = record
  BY <1>6
<1> HIDE DEF record
<1>9. /\ BitsBegin' = Len(size) + Len(count)
      /\ NamesBegin' = Len(size) + Len(count) + bits
      /\ numBytes' = Len(count) + bits + numTagBytes
      /\ Written' = 0 /\ Len(size) \in Nat /\ Len(count) \in Nat
  <2>1. BitsBegin' = Len(size) + Len(count)
    BY <1>3, <1>4 DEF BitsBegin, varUintNumBytes
  <2>2. NamesBegin' = BitsBegin' + bits
    BY <1>3 DEF NamesBegin, BitfieldSize, bits
  <2>3. Written' = 0
    BY <1>2 DEF Written
  <2>4. QED
    BY <1>2, <1>4, <2>1, <2>2, <2>3 DEF SerializedSize, bits
<1>10. TypeOK'
  BY <1>1, <1>2, <1>3, <1>4, <1>8, <1>16 DEF TypeOK, inputVars, readVars
<1>11. SumsInv'
  BY <1>1, <1>2, <1>3 DEF SumsInv, TagSize, NameSize, IsSymbolic
<1>12. WriteInv'
  <2>1. HeaderInv'
    <3>1. HoldsBytes(0, Encoding[numBytes])'
      BY <1>7, <1>8, <1>9, <1>16 DEF HoldsBytes, size
    <3>2. HoldsBytes(varUintNumBytes(numBytes), Encoding[Len(tags)])'
      <4>1. /\ Len(size) + Len(count) <= Len(record)
            /\ \A k \in 1 .. Len(count) : record[Len(size) + k] = count[k]
        BY <1>5, <1>7, <1>8, <1>9
      <4>2. QED
        BY <1>3, <1>4, <1>16, <4>1 DEF HoldsBytes, count, varUintNumBytes
    <3>3. Len(out') = NamesBegin' + sums'[Written' + 1]
      <4>1. sums'[Written' + 1] = 0
        BY <1>1, <1>3, <1>9 DEF SumsInv
      <4>2. QED
        BY <1>5, <1>7, <1>8, <1>9, <1>16, <4>1
    <3>4. (numBytes = SerializedSize(Len(tags)))'
      BY <1>2, <1>3 DEF SerializedSize, BitfieldSize, varUintNumBytes
    <3>5. QED
      BY <1>2, <1>3, <3>1, <3>2, <3>3, <3>4 DEF HeaderInv
  <2>2. BitsInv'
    <3> SUFFICES ASSUME NEW idx \in 0 .. 2 * Len(tags) - 1
                 PROVE  /\ ~ (idx < 2 * Written')
                        /\ ~ (7 - (idx % 8) \in out'[BitsBegin' + 1 + (idx \div 8)])
      BY <1>3 DEF BitsInv
    <3>1. idx \in Nat /\ idx < 2 * Len(tags) /\ ~ (idx < 2 * Written')
      BY <1>4, <1>9
    <3> DEFINE quot == idx \div 8
    <3>2. quot \in Nat /\ quot < bits
      BY <1>4, <3>1, BitArithmetic DEF bits
    <3> HIDE DEF quot
    <3>3. quot + 1 \in 1 .. Len(zeros) /\ BitsBegin' + 1 + quot = Len(size) + Len(count) + (quot + 1)
      BY <1>5, <1>7, <1>9, <3>2
    <3>4. out'[BitsBegin' + 1 + quot] = {}
      BY <1>7, <1>8, <1>16, <3>3
    <3>5. QED
      BY <3>1, <3>4 DEF quot
  <2>3. TagsInv'
    BY <1>9 DEF TagsInv
  <2>4. QED
    BY <2>1, <2>2, <2>3 DEF WriteInv
<1>13. ReadInv' /\ Before'
  BY <1>1, <1>2 DEF ReadInv, Before, readVars
<1>14. Safe'
  <2>1. numTagBytes \in Nat
    BY <1>1 DEF TypeOK
  <2>2. Len(out') <= varUintNumBytes(numBytes') + numBytes'
    BY <1>4, <1>5, <1>7, <1>8, <1>9, <1>16, <2>1
  <2>3. QED
    BY <1>2, <2>2 DEF Safe, WithinBuffer, FieldsFound, CopyAlike, varUintNumBytes
<1>17. QED
  BY <1>10, <1>11, <1>12, <1>13, <1>14 DEF Inv

(* What is written stays as it is when nothing more is written. *)
LEMMA WrittenStays ==
    ASSUME UNCHANGED <<inputVars, writeVars>>, Written' = Written,
           HeaderInv /\ BitsInv /\ TagsInv
    PROVE  (HeaderInv /\ BitsInv /\ TagsInv)'
<1>1. tags' = tags /\ out' = out /\ numBytes' = numBytes /\ sums' = sums /\ numTagBytes' = numTagBytes
  BY DEF inputVars, writeVars
<1>2. HeaderInv'
  BY <1>1 DEF HeaderInv, HoldsBytes, NamesBegin, BitsBegin, BitfieldSize, varUintNumBytes,
              SerializedSize
<1>3. BitsInv'
  BY <1>1 DEF BitsInv, BitsBegin, varUintNumBytes, Name, IsSymbolic
<1>4. TagsInv'
  <2>1. \A i, j \in Nat :
           /\ (WrittenName(tags[i][j]))' = WrittenName(tags[i][j])
           /\ (NameSize(tags[i][j]))' = NameSize(tags[i][j])
    BY <1>1 DEF NameSize, WrittenName, IsSymbolic, symbolicNameId
  <2>2. NamesBegin' = NamesBegin
    BY <1>1 DEF NamesBegin, BitsBegin, BitfieldSize, varUintNumBytes
  <2>3. QED
    BY <1>1, <2>1, <2>2 DEF TagsInv, HoldsBytes
<1>5. QED
  BY <1>2, <1>3, <1>4

LEMMA SumsStay ==
    ASSUME UNCHANGED <<inputVars, writeVars>>, SumsInv, pc # "measure", pc' # "measure"
    PROVE  SumsInv'
BY DEF SumsInv, inputVars, writeVars, TagSize, NameSize, IsSymbolic

(* When all has been written, the size is as measured. *)
LEMMA AllWritten ==
    ASSUME TypeOK, SumsInv, HeaderInv, pc # "measure", Written = Len(tags)
    PROVE  /\ sums[Len(tags) + 1] = numTagBytes
           /\ Len(out) = NamesBegin + numTagBytes
           /\ Len(out) = varUintNumBytes(numBytes) + numBytes
<1>1. Len(sums) = Len(tags) + 1 /\ numTagBytes = sums[Len(sums)]
  BY DEF SumsInv
<1>2. Len(out) = NamesBegin + sums[Written + 1] /\ numBytes = SerializedSize(Len(tags))
  BY DEF HeaderInv
<1>3. /\ NamesBegin = BitsBegin + BitfieldSize(Len(tags)) /\ BitfieldSize(Len(tags)) \in Nat
      /\ BitsBegin = varUintNumBytes(numBytes) + varUintNumBytes(Len(tags))
      /\ varUintNumBytes(numBytes) \in Nat /\ varUintNumBytes(Len(tags)) \in Nat
      /\ SerializedSize(Len(tags)) = varUintNumBytes(Len(tags)) + BitfieldSize(Len(tags)) + numTagBytes
  BY OffsetsTyped DEF HeaderInv, BitsBegin
<1>4. numTagBytes \in Nat
  BY DEF TypeOK
<1>5. QED
  BY <1>1, <1>2, <1>3, <1>4

LEMMA FinishWritingInv == Inv /\ FinishWriting => Inv'
<1> SUFFICES ASSUME Inv, FinishWriting PROVE Inv'
  OBVIOUS
<1>1. TypeOK /\ SumsInv /\ Before /\ WriteInv
  BY DEF Inv
<1>2. /\ pc = "write" /\ n = Len(tags)
      /\ pc' = IF Len(out) - varUintNumBytes(numBytes) = numBytes THEN "locate" ELSE "crashed"
      /\ UNCHANGED <<inputVars, n, writeVars, readVars>>
  BY DEF FinishWriting
<1>3. HeaderInv /\ BitsInv /\ TagsInv /\ Written = Len(tags) /\ n \in Nat
  BY <1>1, <1>2 DEF WriteInv, Written, TypeOK
<1>4. Len(out) = varUintNumBytes(numBytes) + numBytes
  BY <1>1, <1>2, <1>3, AllWritten
<1>5. numBytes \in Nat /\ varUintNumBytes(numBytes) \in Nat
  BY <1>1, EncodingTyped DEF TypeOK
<1>6. pc' = "locate"
  BY <1>2, <1>4, <1>5
<1>7. TypeOK'
  BY <1>1, <1>2, <1>6 DEF TypeOK, inputVars, writeVars, readVars
<1>8. SumsInv'
  BY <1>1, <1>2, <1>6, SumsStay
<1>9. WriteInv'
  <2>1. Written' = Written
    BY <1>2, <1>3, <1>6 DEF Written, inputVars
  <2>2. QED
    BY <1>2, <1>3, <2>1, WrittenStays DEF WriteInv
<1>10. ReadInv' /\ Before'
  BY <1>1, <1>2, <1>6 DEF ReadInv, Before, readVars
<1>11. Safe'
  <2>1. out' = out /\ numBytes' = numBytes /\ Len(out) <= varUintNumBytes(numBytes) + numBytes
    BY <1>2, <1>4, <1>5 DEF writeVars
  <2>2. QED
    BY <1>6, <2>1 DEF Safe, WithinBuffer, FieldsFound, CopyAlike, varUintNumBytes
<1>12. QED
  BY <1>7, <1>8, <1>9, <1>10, <1>11 DEF Inv

LEMMA LocateInv == Inv /\ Locate => Inv'
<1> SUFFICES ASSUME Inv, Locate PROVE Inv'
  OBVIOUS
<1>1. TypeOK /\ SumsInv /\ Before /\ WriteInv
  BY DEF Inv
<1>2. /\ pc = "locate"
      /\ found' = [id |-> varUintFromBytes(IdAddr), geometry |-> GeometryPtr]
      /\ rawTags' = Located /\ tagsAtPos' = Located.tagsStart /\ pos' = 0
      /\ pc' = IF GeometryPtr <= Len(Memory) THEN "iterate" ELSE "crashed"
      /\ UNCHANGED <<inputVars, n, writeVars, seen, copy>>
  BY DEF Locate
<1>3. HeaderInv /\ BitsInv /\ TagsInv /\ Written = Len(tags)
  BY <1>1, <1>2 DEF WriteInv, Written
<1>4. /\ sums[Len(tags) + 1] = numTagBytes
      /\ Len(out) = NamesBegin + numTagBytes
      /\ Len(out) = varUintNumBytes(numBytes) + numBytes
  BY <1>1, <1>2, <1>3, AllWritten
<1>5. /\ Len(tags) \in Nat /\ Len(tags) \in Numbers
      /\ varUintNumBytes(numBytes) \in Nat /\ varUintNumBytes(Len(tags)) \in Nat
      /\ BitsBegin \in Nat /\ BitfieldSize(Len(tags)) \in Nat /\ NamesBegin \in Nat
      /\ NamesBegin = BitsBegin + BitfieldSize(Len(tags))
      /\ numBytes = varUintNumBytes(Len(tags)) + BitfieldSize(Len(tags)) + numTagBytes
      /\ numTagBytes \in Nat
  BY <1>1, <1>3, OffsetsTyped DEF HeaderInv, TypeOK
<1>6. /\ varUintFromBytes(IdAddr) = id
      /\ TagsAddr = Front + 1
      /\ varUintFromBytes(TagsAddr) = numBytes
      /\ After(TagsAddr) = Front + 1 + varUintNumBytes(numBytes)
      /\ varUintFromBytes(After(TagsAddr)) = Len(tags)
      /\ After(After(TagsAddr)) = Front + BitsBegin + 1
  BY <1>1, <1>3, HeaderRead
<1>7. /\ Front \in Nat /\ Len(Memory) = Front + Len(out) + Len(Body) /\ Len(Body) \in Nat \ {0}
  BY <1>1, MemoryLayout
<1>8. /\ GeometryPtr = Front + Len(out) + 1 /\ GeometryPtr \in Nat
      /\ GeometryPtr = Len(Memory) - Len(Body) + 1 /\ GeometryPtr <= Len(Memory)
  <2>1. GeometryPtr = Front + 1 + varUintNumBytes(numBytes) + numBytes
    BY <1>6 DEF GeometryPtr
  <2> DEFINE sizeBytes == varUintNumBytes(numBytes)
  <2>2. numBytes \in Nat /\ sizeBytes \in Nat
    BY <1>3, <1>5, EncodingTyped DEF HeaderInv
  <2>3. Len(out) = sizeBytes + numBytes
    BY <1>4
  <2>4. Len(Memory) = Front + Len(out) + Len(Body) /\ Len(Body) \in Nat \ {0} /\ Front \in Nat
    BY <1>7
  <2>5. GeometryPtr = Front + 1 + sizeBytes + numBytes
    BY <2>1
  <2> HIDE DEF sizeBytes
  <2>6. QED
    BY <2>2, <2>3, <2>4, <2>5
<1>9. pc' = "iterate"
  BY <1>2, <1>8
<1>10. rawTags' = [numTags |-> Len(tags), numTagBytes |-> numTagBytes,
                   symbolicNameBits |-> Front + BitsBegin + 1,
                   tagsStart |-> Front + NamesBegin + 1]
  <2>1. /\ numBytes - BitfieldSize(Len(tags)) - varUintNumBytes(Len(tags)) = numTagBytes
        /\ Front + BitsBegin + 1 + BitfieldSize(Len(tags)) = Front + NamesBegin + 1
    BY <1>5, <1>7
  <2>2. QED
    BY <1>2, <1>6, <2>1 DEF Located
<1>11. Front' = Front /\ BitsBegin' = BitsBegin /\ NamesBegin' = NamesBegin /\ Memory' = Memory
  <2>1. tags' = tags /\ id' = id /\ out' = out /\ numBytes' = numBytes
    BY <1>2 DEF inputVars, writeVars
  <2>2. Front' = Front /\ BitsBegin' = BitsBegin /\ NamesBegin' = NamesBegin
    BY <2>1 DEF Front, BitsBegin, NamesBegin, varUintNumBytes, BitfieldSize
  <2>3. Memory' = Memory
    BY <2>1, Zenon DEF Memory
  <2>4. QED
    BY <2>2, <2>3
<1>12. tagsAtPos' = Front + NamesBegin + 1 /\ tagsAtPos' \in Nat
  <2>1. tagsAtPos' = Front + NamesBegin + 1
    BY <1>2, <1>10
  <2>2. Front \in Nat /\ NamesBegin \in Nat
    BY <1>5, <1>7
  <2>3. QED
    BY <2>1, <2>2
<1>13. TypeOK'
  <2>3. Front + BitsBegin + 1 \in Nat /\ Front + NamesBegin + 1 \in Nat
    BY <1>5, <1>7, SMTT(30)
  <2>4. id \in Ids
    BY <1>1 DEF TypeOK
  <2>1. /\ rawTags' \in [numTags : Nat, numTagBytes : Nat, symbolicNameBits : Nat, tagsStart : Nat]
        /\ found' \in [id : Ids \cup {0}, geometry : Nat]
    BY <1>2, <1>5, <1>6, <1>8, <1>10, <2>3, <2>4
  <2>2. QED
    BY <1>1, <1>2, <1>5, <1>9, <1>12, <2>1 DEF TypeOK, inputVars, writeVars
<1>14. SumsInv'
  BY <1>1, <1>2, <1>9, SumsStay
<1>15. WriteInv'
  <2>1. Written' = Written
    BY <1>2, <1>3, <1>9 DEF Written, inputVars
  <2>2. QED
    BY <1>2, <1>3, <2>1, WrittenStays DEF WriteInv
<1>16. ReadInv'
  <2>1. sums'[pos' + 1] = 0 /\ tags' = tags /\ numTagBytes' = numTagBytes /\ seen' = seen
    BY <1>1, <1>2 DEF SumsInv, inputVars, writeVars
  <2>2. tagsAtPos' = Front' + NamesBegin' + 1 + sums'[pos' + 1]
    BY <1>5, <1>7, <1>11, <1>12, <2>1
  <2>3. Len(seen') = pos' /\ seen' = <<>>
    BY <1>1, <1>2, <2>1 DEF Before
  <2>4. QED
    BY <1>2, <1>9, <1>10, <1>11, <2>1, <2>2, <2>3 DEF ReadInv
<1>17. Before' /\ Safe'
  BY <1>2, <1>6, <1>8, <1>9, <1>11
  DEF Before, Safe, WithinBuffer, FieldsFound, CopyAlike, inputVars
<1>18. QED
  BY <1>13, <1>14, <1>15, <1>16, <1>17 DEF Inv

LEMMA NamesOfTag ==
    ASSUME NEW i \in Nat
    PROVE  Name(2 * i) = tags[i + 1][1] /\ Name(2 * i + 1) = tags[i + 1][2]
<1>1. /\ (2 * i) \div 2 = i /\ (2 * i) % 2 = 0
      /\ (2 * i + 1) \div 2 = i /\ (2 * i + 1) % 2 = 1
  OBVIOUS
<1>2. QED
  BY <1>1 DEF Name

(* The address of the end, and who is there. *)
LEMMA EndReached ==
    ASSUME Inv, pc \in {"iterate", "done"}
    PROVE  /\ End = Front + NamesBegin + 1 + numTagBytes
           /\ tagsAtPos = Front + NamesBegin + 1 + sums[pos + 1]
           /\ Front \in Nat /\ NamesBegin \in Nat /\ numTagBytes \in Nat /\ sums[pos + 1] \in Nat
           /\ tagsAtPos <= End
           /\ tagsAtPos = End <=> pos = Len(tags)
<1>1. TypeOK /\ SumsInv /\ HeaderInv
  BY DEF Inv, WriteInv
<1>2. /\ rawTags.numTagBytes = numTagBytes /\ rawTags.tagsStart = Front + NamesBegin + 1
      /\ tagsAtPos = Front + NamesBegin + 1 + sums[pos + 1]
  BY DEF Inv, ReadInv
<1>3. /\ NamesBegin \in Nat /\ Len(tags) \in Nat
      /\ \A i \in 1 .. Len(sums) : sums[i] \in Nat
  BY <1>1, OffsetsTyped DEF HeaderInv
<1>4. Front \in Nat
  BY <1>1, MemoryLayout
<1>5. /\ Len(sums) = Len(tags) + 1 /\ numTagBytes = sums[Len(tags) + 1]
      /\ \A i, j \in 1 .. Len(sums) : i < j => sums[i] < sums[j]
  BY <1>1 DEF SumsInv
<1>6. pos \in 0 .. Len(tags)
  BY <1>1 DEF TypeOK
<1>7. pos + 1 \in 1 .. Len(sums) /\ Len(tags) + 1 \in 1 .. Len(sums)
  BY <1>3, <1>5, <1>6
<1>8. sums[pos + 1] \in Nat /\ numTagBytes \in Nat
  BY <1>3, <1>5, <1>7
<1>9. CASE pos = Len(tags)
  <2>1. sums[pos + 1] = numTagBytes
    BY <1>5, <1>9
  <2>2. QED
    BY <1>2, <1>3, <1>4, <1>8, <1>9, <2>1 DEF End
<1>10. CASE pos # Len(tags)
  <2>1. pos + 1 < Len(tags) + 1
    BY <1>3, <1>6, <1>10
  <2>2. sums[pos + 1] < numTagBytes
    BY <1>5, <1>7, <2>1
  <2>3. QED
    BY <1>2, <1>3, <1>4, <1>8, <1>10, <2>2 DEF End
<1>11. QED
  BY <1>9, <1>10

(* Nothing is written while the tags are read. *)
LEMMA ReadingStays ==
    ASSUME Inv, pc \in {"iterate", "done"}, pc' \in {"iterate", "done"},
           UNCHANGED <<inputVars, n, writeVars>>
    PROVE  /\ SumsInv' /\ WriteInv'
           /\ Front' = Front /\ NamesBegin' = NamesBegin /\ BitsBegin' = BitsBegin
           /\ Memory' = Memory
<1>1. SumsInv /\ HeaderInv /\ BitsInv /\ TagsInv
  BY DEF Inv, WriteInv
<1>2. SumsInv'
  BY <1>1, SumsStay
<1>3. tags' = tags /\ id' = id /\ out' = out /\ numBytes' = numBytes
  BY DEF inputVars, writeVars
<1>4. Written' = Written
  BY <1>3 DEF Written
<1>5. WriteInv'
  BY <1>1, <1>4, WrittenStays DEF WriteInv
<1>6. Front' = Front /\ BitsBegin' = BitsBegin /\ NamesBegin' = NamesBegin
  BY <1>3 DEF Front, BitsBegin, NamesBegin, varUintNumBytes, BitfieldSize
<1>7. Memory' = Memory
  BY <1>3, Zenon DEF Memory
<1>8. QED
  BY <1>2, <1>5, <1>6, <1>7

LEMMA IterateInv == Inv /\ Iterate => Inv'
<1> SUFFICES ASSUME Inv, Iterate PROVE Inv'
  OBVIOUS
<1> DEFINE tag == tags[pos + 1]
           start == NamesBegin + sums[pos + 1]
           valuePos == Behind(tagsAtPos, pos * 2)
<1>1. TypeOK /\ SumsInv
  BY DEF Inv
<1>2. /\ pc = "iterate" /\ tagsAtPos # End
      /\ seen' = Append(seen, <<NameAt(tagsAtPos, pos * 2), NameAt(valuePos, pos * 2 + 1)>>)
      /\ tagsAtPos' = Behind(valuePos, pos * 2 + 1)
      /\ pos' = pos + 1
      /\ UNCHANGED <<inputVars, pc, n, writeVars, rawTags, found, copy>>
  BY DEF Iterate
<1>3. HeaderInv /\ BitsInv /\ TagsInv /\ Written = Len(tags) /\ ReadInv
  BY <1>2 DEF Inv, WriteInv, Written
<1>4. /\ pos \in Nat /\ pos + 1 \in 1 .. Len(tags) /\ Len(tags) \in Nat
      /\ pos # Len(tags)
  <2>1. pos # Len(tags)
    BY <1>2, EndReached
  <2>2. pos \in 0 .. Len(tags) /\ Len(tags) \in Nat
    BY <1>1, <1>3, OffsetsTyped DEF TypeOK, HeaderInv
  <2>3. QED
    BY <2>1, <2>2
<1>5. /\ tag[1] \in Names /\ tag[2] \in Names /\ tag = <<tag[1], tag[2]>>
      /\ NameSize(tag[1]) \in Nat /\ NameSize(tag[2]) \in Nat
      /\ tag \in Names \X Names
  BY <1>1, <1>4, TagsTyped, WrittenSize
<1>6. start \in Nat /\ tagsAtPos = Front + start + 1 /\ Front \in Nat
  BY <1>2, EndReached
<1>7. /\ HoldsBytes(start, WrittenName(tag[1]))
      /\ HoldsBytes(start + NameSize(tag[1]), WrittenName(tag[2]))
  BY <1>3, <1>4 DEF TagsInv
<1>8. /\ isSymbolicName(pos * 2) <=> IsSymbolic(tag[1])
      /\ isSymbolicName(pos * 2 + 1) <=> IsSymbolic(tag[2])
  <2>1. /\ pos * 2 = 2 * pos /\ pos * 2 + 1 = 2 * pos + 1
        /\ 2 * pos \in 0 .. 2 * Len(tags) - 1 /\ 2 * pos + 1 \in 0 .. 2 * Len(tags) - 1
        /\ 2 * pos < 2 * Written /\ 2 * pos + 1 < 2 * Written
    BY <1>3, <1>4
  <2>2. Name(2 * pos) = tag[1] /\ Name(2 * pos + 1) = tag[2]
    BY <1>4, NamesOfTag
  <2>3. rawTags.symbolicNameBits = Front + BitsBegin + 1 /\ pc # "measure"
    BY <1>2, <1>3 DEF ReadInv
  <2>4. /\ isSymbolicName(2 * pos) <=> IsSymbolic(Name(2 * pos))
        /\ isSymbolicName(2 * pos + 1) <=> IsSymbolic(Name(2 * pos + 1))
    BY <1>1, <1>3, <2>1, <2>3, BitRead
  <2>5. QED
    BY <2>1, <2>2, <2>4
<1> HIDE DEF tag, start
<1>9. /\ NameAt(tagsAtPos, pos * 2) = tag[1]
      /\ valuePos = Front + start + 1 + NameSize(tag[1])
  BY <1>1, <1>5, <1>6, <1>7, <1>8, ReadName
<1> HIDE DEF valuePos
<1> DEFINE next == start + NameSize(tag[1])
<1>10. next \in Nat /\ valuePos = Front + next + 1
  BY <1>5, <1>6, <1>9
<1>11. HoldsBytes(next, WrittenName(tag[2]))
  BY <1>7
<1> HIDE DEF next
<1>12. /\ NameAt(valuePos, pos * 2 + 1) = tag[2]
       /\ Behind(valuePos, pos * 2 + 1) = Front + next + 1 + NameSize(tag[2])
  BY <1>1, <1>5, <1>8, <1>10, <1>11, ReadName
<1>13. seen' = Append(seen, tag)
  BY <1>2, <1>5, <1>9, <1>12
<1>14. sums[pos + 2] = sums[pos + 1] + TagSize(tag) /\ pos' + 1 = pos + 2
  <2>1. /\ Len(sums) = Len(tags) + 1
        /\ \A i \in 1 .. Len(sums) - 1 : sums[i + 1] = sums[i] + TagSize(tags[i])
    BY <1>1, <1>2 DEF SumsInv
  <2>2. pos + 1 \in 1 .. Len(sums) - 1 /\ (pos + 1) + 1 = pos + 2
    BY <1>4, <2>1
  <2>3. QED
    BY <1>2, <1>4, <2>1, <2>2 DEF tag
<1>15. tagsAtPos' = Front + NamesBegin + 1 + sums[pos' + 1] /\ tagsAtPos' \in Nat
  <2>1. NamesBegin \in Nat /\ sums[pos + 1] \in Nat
    BY <1>2, EndReached
  <2>2. tagsAtPos' = Front + next + 1 + NameSize(tag[2])
    BY <1>2, <1>12
  <2>3. TagSize(tag) = NameSize(tag[1]) + NameSize(tag[2])
    BY DEF TagSize
  <2>4. QED
    BY <1>5, <1>6, <1>14, <2>1, <2>2, <2>3 DEF next, start
<1>16. /\ SumsInv' /\ WriteInv'
       /\ Front' = Front /\ NamesBegin' = NamesBegin /\ BitsBegin' = BitsBegin
       /\ Memory' = Memory
  BY <1>2, ReadingStays
<1>17. seen \in Seq(Names \X Names) /\ Len(seen) = pos /\ \A i \in 1 .. pos : seen[i] = tags[i]
  BY <1>1, <1>2, <1>3 DEF TypeOK, ReadInv
<1>18. seen' \in Seq(Names \X Names) /\ Len(seen') = pos + 1 /\ \A i \in 1 .. pos + 1 : seen'[i] = tags[i]
  <2>1. /\ seen' \in Seq(Names \X Names) /\ Len(seen') = pos + 1
        /\ seen'[pos + 1] = tag /\ \A i \in 1 .. pos : seen'[i] = seen[i]
    BY <1>5, <1>13, <1>17, AppendProperties
  <2>2. ASSUME NEW i \in 1 .. pos + 1 PROVE seen'[i] = tags[i]
    <3>1. CASE i = pos + 1
      BY <2>1, <3>1 DEF tag
    <3>2. CASE i # pos + 1
      <4>1. i \in 1 .. pos
        BY <1>4, <3>2
      <4>2. QED
        BY <1>17, <2>1, <4>1
    <3>3. QED
      BY <3>1, <3>2
  <2>3. QED
    BY <2>1, <2>2
<1>19. TypeOK'
  <2>1. pos' \in 0 .. Len(tags)
    BY <1>2, <1>4
  <2>2. QED
    BY <1>1, <1>2, <1>15, <1>18, <2>1 DEF TypeOK, inputVars, writeVars
<1>20. ReadInv'
  <2>1. rawTags' = rawTags /\ tags' = tags /\ numTagBytes' = numTagBytes /\ sums' = sums /\ pc' = pc
    BY <1>2 DEF inputVars, writeVars
  <2>2. tagsAtPos' = Front' + NamesBegin' + 1 + sums'[pos' + 1]
    BY <1>15, <1>16, <2>1
  <2>3. Len(seen') = pos' /\ \A i \in 1 .. pos' : seen'[i] = tags'[i]
    BY <1>2, <1>18, <2>1
  <2>4. QED
    BY <1>2, <1>3, <1>16, <2>1, <2>2, <2>3 DEF ReadInv
<1>21. Before' /\ Safe'
  <2>1. Safe
    BY DEF Inv
  <2>2. QED
    BY <1>2, <1>16, <2>1
    DEF Before, Safe, WithinBuffer, FieldsFound, CopyAlike, inputVars, writeVars
<1>22. QED
  BY <1>16, <1>19, <1>20, <1>21 DEF Inv

(* A part of the memory that lies in the buffer. *)
LEMMA PartOfMemory ==
    ASSUME TypeOK, NEW offset \in Nat, NEW len \in Nat, offset + len <= Len(out)
    PROVE  LET part == SubSeq(Memory, Front + offset + 1, Front + offset + len)
           IN  /\ part \in Seq(Bytes) /\ Len(part) = len
               /\ \A k \in 1 .. len : part[k] = out[offset + k]
<1> DEFINE first == Front + offset + 1
           last == Front + offset + len
           part == SubSeq(Memory, first, last)
<1>1. Len(out) \in Nat
  BY DEF TypeOK
<1>2. /\ Front \in Nat /\ Memory \in Seq(Bytes) /\ Len(Memory) = Front + Len(out) + Len(Body)
      /\ Len(Body) \in Nat
  BY MemoryLayout
<1>3. first \in 1 .. last + 1 /\ last \in first - 1 .. Len(Memory) /\ first \in Nat /\ last \in Nat
  BY <1>1, <1>2
<1>4. /\ part \in Seq(Bytes) /\ Len(part) = len
      /\ \A k \in 1 .. len : part[k] = Memory[first + k - 1]
  BY <1>2, <1>3
<1>5. ASSUME NEW k \in 1 .. len PROVE part[k] = out[offset + k]
  <2>1. offset + k \in 1 .. Len(out) /\ first + k - 1 = Front + (offset + k)
    BY <1>1, <1>2
  <2>2. Memory[Front + (offset + k)] = out[offset + k]
    BY <2>1, MemoryLayout
  <2>3. QED
    BY <1>4, <2>1, <2>2
<1>6. QED
  BY <1>4, <1>5

LEMMA ReserializedAlike ==
    ASSUME Inv, pc = "iterate"
    PROVE  Reserialized = out
<1> DEFINE bits == BitfieldSize(Len(tags))
           size == Encoding[numBytes]
           count == Encoding[Len(tags)]
           field == SubSeq(Memory, Front + BitsBegin + 1, Front + BitsBegin + bits)
           names == SubSeq(Memory, Front + NamesBegin + 1, Front + NamesBegin + numTagBytes)
<1>1. TypeOK /\ SumsInv /\ HeaderInv /\ Written = Len(tags) /\ out \in Seq(Bytes)
  BY DEF Inv, WriteInv, Written, TypeOK
<1>2. /\ varUintNumBytes(numBytes) \in Nat /\ varUintNumBytes(Len(tags)) \in Nat
      /\ BitsBegin \in Nat /\ bits \in Nat /\ NamesBegin \in Nat /\ NamesBegin = BitsBegin + bits
      /\ numBytes = varUintNumBytes(Len(tags)) + bits + numTagBytes
      /\ numTagBytes \in Nat
  BY <1>1, OffsetsTyped DEF HeaderInv, TypeOK
<1>3. BitsBegin = Len(size) + Len(count)
  BY DEF BitsBegin, varUintNumBytes
<1>4. Len(out) = NamesBegin + numTagBytes
  BY <1>1, AllWritten
<1>5. Reserialized = size \o count \o field \o names
  <2>1. /\ rawTags.numTags = Len(tags) /\ rawTags.numTagBytes = numTagBytes
        /\ rawTags.symbolicNameBits = Front + BitsBegin + 1
        /\ rawTags.tagsStart = Front + NamesBegin + 1
    BY DEF Inv, ReadInv
  <2>2. Front \in Nat
    BY <1>1, MemoryLayout
  <2>3. /\ Front + BitsBegin + 1 + bits - 1 = Front + BitsBegin + bits
        /\ Front + NamesBegin + 1 + numTagBytes - 1 = Front + NamesBegin + numTagBytes
    BY <1>2, <2>2
  <2>4. End - 1 = Front + NamesBegin + numTagBytes
    <3>1. /\ End = Front + NamesBegin + 1 + numTagBytes
          /\ Front \in Nat /\ NamesBegin \in Nat /\ numTagBytes \in Nat
      BY EndReached
    <3>2. QED
      BY <3>1
  <2>5. numBytes = varUintNumBytes(Len(tags)) + bits + numTagBytes
    BY <1>2
  <2>6. /\ rawTags.symbolicNameBits + BitfieldSize(rawTags.numTags) - 1 = Front + BitsBegin + bits
        /\ varUintNumBytes(rawTags.numTags) + BitfieldSize(rawTags.numTags) + rawTags.numTagBytes
              = numBytes
    BY <2>1, <2>3, <2>5
  <2>7. Reserialized =
           Encoding[numBytes] \o Encoding[Len(tags)]
              \o SubSeq(Memory, Front + BitsBegin + 1, Front + BitsBegin + bits)
              \o SubSeq(Memory, Front + NamesBegin + 1, Front + NamesBegin + numTagBytes)
    BY <2>1, <2>4, <2>6, Zenon DEF Reserialized
  <2>8. QED
    BY <2>7
<1>6. /\ size \in Seq(Bytes) /\ count \in Seq(Bytes) /\ Len(size) \in Nat /\ Len(count) \in Nat
  BY <1>1, EncodingTyped DEF HeaderInv
<1> HIDE DEF bits
<1>19. /\ BitsBegin \in Nat /\ bits \in Nat /\ BitsBegin + bits <= Len(out)
       /\ NamesBegin \in Nat /\ numTagBytes \in Nat /\ NamesBegin + numTagBytes <= Len(out)
       /\ TypeOK
  BY <1>1, <1>2, <1>4
<1>7. /\ field \in Seq(Bytes) /\ Len(field) = bits
      /\ \A k \in 1 .. bits : field[k] = out[BitsBegin + k]
  BY <1>19, PartOfMemory
<1>8. /\ names \in Seq(Bytes) /\ Len(names) = numTagBytes
      /\ \A k \in 1 .. numTagBytes : names[k] = out[NamesBegin + k]
  BY <1>19, PartOfMemory
<1>9. /\ \A k \in 1 .. Len(size) : size[k] = out[k]
      /\ \A k \in 1 .. Len(count) : count[k] = out[Len(size) + k]
  <2>1. HoldsBytes(0, size) /\ HoldsBytes(Len(size), count)
    BY <1>1 DEF HeaderInv, varUintNumBytes
  <2>2. QED
    BY <1>6, <2>1 DEF HoldsBytes
<1> HIDE DEF size, count, field, names
<1>10. size \in Seq(Bytes) /\ count \in Seq(Bytes) /\ field \in Seq(Bytes) /\ names \in Seq(Bytes)
  BY <1>6, <1>7, <1>8
<1> DEFINE header == size \o count \o field
           whole == header \o names
<1>11. /\ header \in Seq(Bytes) /\ Len(header) = Len(size) + Len(count) + Len(field)
       /\ \A k \in 1 .. Len(size) : header[k] = size[k]
       /\ \A k \in 1 .. Len(count) : header[Len(size) + k] = count[k]
       /\ \A k \in 1 .. Len(field) : header[Len(size) + Len(count) + k] = field[k]
  BY <1>10, ThreeParts
<1> HIDE DEF header
<1>12. header \in Seq(Bytes)
  BY <1>11
<1>13. /\ whole \in Seq(Bytes) /\ Len(whole) = Len(header) + Len(names)
       /\ \A k \in 1 .. Len(header) : whole[k] = header[k]
       /\ \A k \in 1 .. Len(names) : whole[Len(header) + k] = names[k]
  BY <1>10, <1>12, Concatenated
<1>14. Reserialized = whole
  BY <1>5 DEF header
<1> HIDE DEF whole
<1>15. Len(header) = NamesBegin /\ Len(whole) = Len(out)
  BY <1>2, <1>3, <1>4, <1>6, <1>7, <1>8, <1>11, <1>13
<1>16. ASSUME NEW k \in 1 .. Len(whole) PROVE whole[k] = out[k]
  <2>1. CASE k <= Len(size)
    <3>1. k \in 1 .. Len(size) /\ k \in 1 .. Len(header)
      BY <1>2, <1>3, <1>6, <1>15, <2>1
    <3>2. QED
      BY <1>9, <1>11, <1>13, <3>1
  <2>2. CASE Len(size) < k /\ k <= BitsBegin
    <3> DEFINE j == k - Len(size)
    <3>1. j \in 1 .. Len(count) /\ k = Len(size) + j /\ k \in 1 .. Len(header)
      BY <1>2, <1>3, <1>6, <1>15, <2>2
    <3> HIDE DEF j
    <3>2. header[k] = count[j] /\ count[j] = out[k]
      BY <1>9, <1>11, <3>1
    <3>3. QED
      BY <1>13, <3>1, <3>2
  <2>3. CASE BitsBegin < k /\ k <= NamesBegin
    <3> DEFINE j == k - BitsBegin
    <3>1. j \in 1 .. Len(field) /\ k = BitsBegin + j /\ k \in 1 .. Len(header)
          /\ k = Len(size) + Len(count) + j /\ j \in 1 .. bits
      BY <1>2, <1>3, <1>6, <1>7, <1>15, <2>3
    <3> HIDE DEF j
    <3>2. header[k] = field[j] /\ field[j] = out[k]
      BY <1>7, <1>11, <3>1
    <3>3. QED
      BY <1>13, <3>1, <3>2
  <2>4. CASE NamesBegin < k
    <3> DEFINE j == k - NamesBegin
    <3>1. j \in 1 .. Len(names) /\ k = NamesBegin + j /\ k = Len(header) + j
          /\ j \in 1 .. numTagBytes
      BY <1>2, <1>4, <1>8, <1>15, <2>4
    <3> HIDE DEF j
    <3>2. whole[k] = names[j] /\ names[j] = out[k]
      BY <1>8, <1>13, <3>1
    <3>3. QED
      BY <3>2
  <2>5. k \in Nat /\ Len(size) \in Nat /\ BitsBegin \in Nat /\ NamesBegin \in Nat
    BY <1>2, <1>6
  <2>6. QED
    BY <2>1, <2>2, <2>3, <2>4, <2>5
<1>17. whole = out
  BY <1>1, <1>13, <1>15, <1>16, SeqEqual
<1>18. QED
  BY <1>14, <1>17

LEMMA EndIterationInv == Inv /\ EndIteration => Inv'
<1> SUFFICES ASSUME Inv, EndIteration PROVE Inv'
  OBVIOUS
<1>1. TypeOK /\ ReadInv /\ Safe
  BY DEF Inv
<1>2. /\ pc = "iterate" /\ tagsAtPos = End /\ copy' = Reserialized /\ pc' = "done"
      /\ UNCHANGED <<inputVars, n, writeVars, rawTags, tagsAtPos, pos, seen, found>>
  BY DEF EndIteration
<1>3. copy' = out /\ pos = Len(tags) /\ out \in Seq(Bytes)
  BY <1>1, <1>2, ReserializedAlike, EndReached DEF TypeOK
<1>4. /\ SumsInv' /\ WriteInv'
      /\ Front' = Front /\ NamesBegin' = NamesBegin /\ BitsBegin' = BitsBegin
      /\ Memory' = Memory
  BY <1>2, ReadingStays
<1>5. TypeOK'
  BY <1>1, <1>2, <1>3 DEF TypeOK, inputVars, writeVars
<1>6. ReadInv'
  BY <1>1, <1>2, <1>3, <1>4 DEF ReadInv, inputVars, writeVars
<1>7. Before' /\ Safe'
  BY <1>1, <1>2, <1>3, <1>4
  DEF Before, Safe, WithinBuffer, FieldsFound, CopyAlike, inputVars, writeVars
<1>8. QED
  BY <1>4, <1>5, <1>6, <1>7 DEF Inv

LEMMA WriteTagInv == Inv /\ WriteTag => Inv'
<1> SUFFICES ASSUME Inv, WriteTag PROVE Inv'
  OBVIOUS
<1> DEFINE tag == tags[n + 1]
           byteIdx == BitsBegin + 1 + ((2 * n) \div 8)
           bitIdx == 7 - ((2 * n) % 8)
           bits == SymbolicBits(tag, bitIdx)
           marked == [out EXCEPT ![byteIdx] = out[byteIdx] \cup bits]
           key == WrittenName(tag[1])
           value == WrittenName(tag[2])
<1>1. TypeOK /\ SumsInv /\ Before /\ out \in Seq(Bytes) /\ Len(out) \in Nat
  BY DEF Inv, TypeOK
<1>2. /\ pc = "write" /\ n < Len(tags) /\ n' = n + 1
      /\ out' = marked \o key \o value
      /\ UNCHANGED <<inputVars, pc, numTagBytes, sums, numBytes, readVars>>
  BY DEF WriteTag
<1>3. HeaderInv /\ BitsInv /\ TagsInv /\ Written = n
  BY <1>2 DEF Inv, WriteInv, Written
<1>4. /\ n \in Nat /\ n + 1 \in 1 .. Len(tags) /\ Len(tags) \in Nat
      /\ varUintNumBytes(numBytes) \in Nat /\ varUintNumBytes(Len(tags)) \in Nat
      /\ BitsBegin \in Nat /\ BitfieldSize(Len(tags)) \in Nat
      /\ NamesBegin = BitsBegin + BitfieldSize(Len(tags)) /\ NamesBegin \in Nat
  <2>1. Len(tags) \in Nat /\ n \in 0 .. Len(tags)
    BY <1>1, <1>3, OffsetsTyped DEF TypeOK, HeaderInv
  <2>2. QED
    BY <1>1, <1>2, <1>3, <2>1, OffsetsTyped DEF HeaderInv
<1>5. /\ tag[1] \in Names /\ tag[2] \in Names
      /\ key \in Seq(Bytes) /\ value \in Seq(Bytes)
      /\ Len(key) = NameSize(tag[1]) /\ Len(value) = NameSize(tag[2])
      /\ NameSize(tag[1]) \in Nat /\ NameSize(tag[2]) \in Nat
  BY <1>1, <1>4, TagsTyped, WrittenSize
<1>6. /\ Len(out) = NamesBegin + sums[n + 1] /\ sums[n + 1] \in Nat
      /\ sums[n + 2] = sums[n + 1] + NameSize(tag[1]) + NameSize(tag[2])
      /\ sums[n + 2] \in Nat /\ numTagBytes \in Nat /\ sums[n + 2] <= numTagBytes
  <2>1. /\ Len(sums) = Len(tags) + 1 /\ numTagBytes = sums[Len(tags) + 1]
        /\ \A i \in 1 .. Len(sums) - 1 : sums[i + 1] = sums[i] + TagSize(tags[i])
        /\ \A i, j \in 1 .. Len(sums) : i < j => sums[i] < sums[j]
    BY <1>1, <1>2 DEF SumsInv
  <2>2. \A i \in 1 .. Len(sums) : sums[i] \in Nat
    BY <1>1, <1>3, OffsetsTyped DEF HeaderInv
  <2>3. /\ n + 1 \in 1 .. Len(sums) - 1 /\ (n + 1) + 1 = n + 2
        /\ n + 1 \in 1 .. Len(sums) /\ n + 2 \in 1 .. Len(sums)
        /\ Len(tags) + 1 \in 1 .. Len(sums)
        /\ n + 2 = Len(tags) + 1 \/ n + 2 < Len(tags) + 1
    BY <1>4, <2>1
  <2>4. sums[n + 1] \in Nat /\ sums[n + 2] \in Nat /\ numTagBytes \in Nat
    BY <2>1, <2>2, <2>3
  <2>5. sums[n + 2] = sums[n + 1] + TagSize(tag)
    BY <2>1, <2>3
  <2>6. sums[n + 2] <= numTagBytes
    BY <2>1, <2>3, <2>4
  <2>7. Len(out) = NamesBegin + sums[n + 1]
    BY <1>3 DEF HeaderInv
  <2>8. TagSize(tag) = NameSize(tag[1]) + NameSize(tag[2])
    BY DEF TagSize
  <2>9. QED
    BY <1>5, <2>4, <2>5, <2>6, <2>7, <2>8
<1> DEFINE quot == (2 * n) \div 8
<1>7. /\ quot \in Nat /\ quot < BitfieldSize(Len(tags)) /\ bitIdx \in 1 .. 7
      /\ byteIdx = BitsBegin + 1 + quot
  <2>1. 2 * n \in Nat /\ 2 * n < 2 * Len(tags)
    BY <1>4
  <2>2. /\ quot \in Nat /\ quot < BitfieldSize(Len(tags)) /\ (2 * n) % 8 \in 0 .. 6
    BY <1>4, <2>1, BitArithmetic
  <2>3. QED
    BY <2>2
<1>8. byteIdx \in 1 .. Len(out) /\ BitsBegin < byteIdx /\ byteIdx <= NamesBegin /\ byteIdx \in Nat
  <2>1. /\ quot \in Nat /\ quot < BitfieldSize(Len(tags)) /\ byteIdx = BitsBegin + 1 + quot
    BY <1>7
  <2>2. /\ BitsBegin \in Nat /\ BitfieldSize(Len(tags)) \in Nat
        /\ NamesBegin = BitsBegin + BitfieldSize(Len(tags))
    BY <1>4
  <2>3. Len(out) \in Nat /\ NamesBegin <= Len(out)
    BY <1>1, <1>4, <1>6, SMTT(30)
  <2> HIDE DEF quot, byteIdx
  <2>4. QED
    BY <2>1, <2>2, <2>3
<1>9. bits \subseteq 0 .. 7 /\ out[byteIdx] \cup bits \in Bytes
  <2>1. out[byteIdx] \in Bytes
    BY <1>1, <1>8
  <2>2. bits \subseteq {bitIdx, bitIdx - 1}
    BY DEF SymbolicBits
  <2> HIDE DEF bits
  <2>3. bits \subseteq 0 .. 7
    BY <1>7, <2>2
  <2>4. QED
    BY <2>1, <2>3 DEF Bytes
<1> HIDE DEF bits, byteIdx
<1>10. /\ marked \in Seq(Bytes) /\ Len(marked) = Len(out)
       /\ \A j \in 1 .. Len(out) :
             marked[j] = IF j = byteIdx THEN out[byteIdx] \cup bits ELSE out[j]
  BY <1>1, <1>8, <1>9, ExceptSeq
<1> HIDE DEF marked, key, value
<1>11. marked \in Seq(Bytes) /\ key \in Seq(Bytes) /\ value \in Seq(Bytes)
  BY <1>5, <1>10
<1> DEFINE whole == marked \o key \o value
<1>12. /\ whole \in Seq(Bytes)
       /\ Len(whole) = Len(marked) + Len(key) + Len(value)
       /\ \A k \in 1 .. Len(marked) : whole[k] = marked[k]
       /\ \A k \in 1 .. Len(key) : whole[Len(marked) + k] = key[k]
       /\ \A k \in 1 .. Len(value) : whole[Len(marked) + Len(key) + k] = value[k]
  BY <1>11, ThreeParts
<1>13. out' = whole
  BY <1>2
<1> HIDE DEF whole
<1>14. Len(out') = NamesBegin + sums[n + 2] /\ Len(out) <= Len(out')
  <2> DEFINE before == sums[n + 1]
             after == sums[n + 2]
             size1 == NameSize(tag[1])
             size2 == NameSize(tag[2])
  <2>1. Len(whole) = Len(marked) + Len(key) + Len(value)
    BY <1>12
  <2>2. /\ Len(marked) = Len(out) /\ Len(key) = size1 /\ Len(value) = size2
        /\ size1 \in Nat /\ size2 \in Nat
    BY <1>5, <1>10
  <2>3. /\ Len(out) = NamesBegin + before /\ before \in Nat /\ NamesBegin \in Nat
        /\ after = before + size1 + size2
    BY <1>4, <1>6
  <2> HIDE DEF before, after, size1, size2
  <2>4. Len(whole) = NamesBegin + after /\ Len(out) <= Len(whole)
    BY <2>1, <2>2, <2>3
  <2>5. QED
    BY <1>13, <2>4 DEF after
<1>15. \A j \in 1 .. Len(out) :
          out'[j] = IF j = byteIdx THEN out[byteIdx] \cup bits ELSE out[j]
  BY <1>10, <1>12, <1>13
<1>16. \A offset \in Nat : \A bytes \in Seq(Bytes) :
          /\ HoldsBytes(offset, bytes)
          /\ offset + Len(bytes) <= BitsBegin \/ NamesBegin <= offset
          => /\ offset + Len(bytes) <= Len(out')
             /\ \A k \in 1 .. Len(bytes) : out'[offset + k] = bytes[k]
  <2> SUFFICES ASSUME NEW offset \in Nat, NEW bytes \in Seq(Bytes), HoldsBytes(offset, bytes),
                      offset + Len(bytes) <= BitsBegin \/ NamesBegin <= offset
               PROVE  /\ offset + Len(bytes) <= Len(out')
                      /\ \A k \in 1 .. Len(bytes) : out'[offset + k] = bytes[k]
    OBVIOUS
  <2>1. Len(bytes) \in Nat /\ offset + Len(bytes) <= Len(out)
    BY DEF HoldsBytes
  <2>2. offset + Len(bytes) <= Len(out')
    <3>1. Len(out) \in Nat /\ Len(out') \in Nat /\ Len(out) <= Len(out')
      BY <1>1, <1>12, <1>13, <1>14
    <3>2. QED
      BY <2>1, <3>1
  <2>3. ASSUME NEW k \in 1 .. Len(bytes) PROVE out'[offset + k] = bytes[k]
    <3>1. offset + k \in 1 .. Len(out) /\ offset + k # byteIdx
      BY <1>1, <1>4, <1>8, <2>1
    <3>2. QED
      BY <1>15, <3>1 DEF HoldsBytes
  <2>4. QED
    BY <2>2, <2>3
<1>17. /\ tags' = tags /\ numTagBytes' = numTagBytes /\ sums' = sums /\ numBytes' = numBytes
       /\ pc' = "write" /\ Written' = n + 1
  BY <1>2 DEF inputVars, Written
<1>18. /\ BitsBegin' = BitsBegin /\ NamesBegin' = NamesBegin
       /\ \A i, j \in Nat :
             /\ (WrittenName(tags[i][j]))' = WrittenName(tags[i][j])
             /\ (NameSize(tags[i][j]))' = NameSize(tags[i][j])
  <2>1. BitsBegin' = BitsBegin /\ NamesBegin' = NamesBegin
    BY <1>17 DEF BitsBegin, NamesBegin, varUintNumBytes, BitfieldSize
  <2>2. \A i, j \in Nat :
             /\ (WrittenName(tags[i][j]))' = WrittenName(tags[i][j])
             /\ (NameSize(tags[i][j]))' = NameSize(tags[i][j])
    BY <1>17 DEF NameSize, WrittenName, IsSymbolic, symbolicNameId
  <2>3. QED
    BY <2>1, <2>2
<1>19. TypeOK'
  <2>1. n' \in 0 .. Len(tags) /\ out' \in Seq(Bytes)
    BY <1>2, <1>4, <1>12, <1>13
  <2>2. QED
    BY <1>1, <1>2, <1>17, <2>1 DEF TypeOK, inputVars, readVars
<1>20. SumsInv'
  BY <1>1, <1>2, <1>17 DEF SumsInv, TagSize, NameSize, IsSymbolic
<1>21. HeaderInv'
  <2>1. HoldsBytes(0, Encoding[numBytes])'
    <3> DEFINE bytes == Encoding[numBytes]
    <3>1. bytes \in Seq(Bytes) /\ Len(bytes) = varUintNumBytes(numBytes)
      BY <1>3, EncodingTyped DEF HeaderInv
    <3>2. HoldsBytes(0, bytes) /\ 0 + Len(bytes) <= BitsBegin
      BY <1>3, <1>4, <3>1 DEF HeaderInv, BitsBegin
    <3>4. bytes' = bytes
      BY <1>17
    <3> HIDE DEF bytes
    <3>3. 0 + Len(bytes) <= Len(out') /\ \A k \in 1 .. Len(bytes) : out'[0 + k] = bytes[k]
      BY <1>16, <3>1, <3>2
    <3>5. HoldsBytes(0, bytes)'
      BY <3>3, <3>4 DEF HoldsBytes
    <3>6. QED
      BY <3>5 DEF bytes
  <2>2. HoldsBytes(varUintNumBytes(numBytes), Encoding[Len(tags)])'
    <3> DEFINE bytes == Encoding[Len(tags)]
               offset == varUintNumBytes(numBytes)
    <3>1. bytes \in Seq(Bytes) /\ Len(bytes) = varUintNumBytes(Len(tags)) /\ offset \in Nat
      BY <1>3, <1>4, EncodingTyped DEF HeaderInv
    <3>2. HoldsBytes(offset, bytes) /\ offset + Len(bytes) <= BitsBegin
      BY <1>3, <1>4, <3>1 DEF HeaderInv, BitsBegin
    <3>4. bytes' = bytes /\ offset' = offset
      BY <1>17 DEF varUintNumBytes
    <3> HIDE DEF bytes, offset
    <3>3. offset + Len(bytes) <= Len(out') /\ \A k \in 1 .. Len(bytes) : out'[offset + k] = bytes[k]
      BY <1>16, <3>1, <3>2
    <3>5. HoldsBytes(offset, bytes)'
      BY <3>3, <3>4 DEF HoldsBytes
    <3>6. QED
      BY <3>5 DEF bytes, offset
  <2>3. Len(out') = NamesBegin' + sums'[Written' + 1]
    <3>1. Written' + 1 = n + 2
      BY <1>4, <1>17
    <3>2. QED
      BY <1>14, <1>17, <1>18, <3>1
  <2>4. (numBytes = SerializedSize(Len(tags)))' /\ (Len(tags) \in Numbers)' /\ (numBytes \in Numbers)'
    BY <1>3, <1>17 DEF HeaderInv, SerializedSize, BitfieldSize, varUintNumBytes
  <2>5. QED
    BY <2>1, <2>2, <2>3, <2>4 DEF HeaderInv
<1>22. BitsInv'
  <2> SUFFICES ASSUME NEW idx \in 0 .. 2 * Len(tags) - 1
               PROVE  7 - (idx % 8) \in out'[BitsBegin + 1 + (idx \div 8)]
                         <=> idx < 2 * (n + 1) /\ IsSymbolic(Name(idx))
    BY <1>17, <1>18 DEF BitsInv, Name, IsSymbolic
  <2> DEFINE bit == 7 - (idx % 8)
             other == idx \div 8
             j == BitsBegin + 1 + other
  <2>1. idx \in Nat /\ idx < 2 * Len(tags)
    BY <1>4
  <2>2. other \in Nat /\ other < BitfieldSize(Len(tags)) /\ bit \in 0 .. 7
    BY <1>4, <2>1, BitArithmetic
  <2>3. bit \in out[j] <=> idx < 2 * n /\ IsSymbolic(Name(idx))
    BY <1>3 DEF BitsInv
  <2>4. Name(2 * n) = tag[1] /\ Name(2 * n + 1) = tag[2]
    BY <1>4, NamesOfTag
  <2>5. /\ idx = 2 * n => other = quot /\ bit = bitIdx
        /\ idx = 2 * n + 1 => other = quot /\ bit = bitIdx - 1
        /\ other = quot /\ bit = bitIdx => idx = 2 * n
        /\ other = quot /\ bit = bitIdx - 1 => idx = 2 * n + 1
    <3> DEFINE rest == idx % 8
               rest0 == (2 * n) % 8
    <3>1. /\ rest \in 0 .. 7 /\ rest0 \in 0 .. 6
          /\ (2 * n + 1) \div 8 = quot /\ (2 * n + 1) % 8 = rest0 + 1
          /\ (other = quot /\ rest = rest0) => idx = 2 * n
          /\ (other = quot /\ rest = rest0 + 1) => idx = 2 * n + 1
      BY <1>4, <2>1, BitArithmetic
    <3>2. /\ idx = 2 * n => other = quot /\ rest = rest0
          /\ idx = 2 * n + 1 => other = quot /\ rest = rest0 + 1
      BY <3>1
    <3>3. bit = 7 - rest /\ bitIdx = 7 - rest0
      OBVIOUS
    <3> HIDE DEF rest, rest0, other, quot, bit, bitIdx
    <3>4. QED
      BY <3>1, <3>2, <3>3
  <2>6. bit \in bits <=>
           ((bit = bitIdx /\ IsSymbolic(tag[1])) \/ (bit = bitIdx - 1 /\ IsSymbolic(tag[2])))
    <3> DEFINE first == IF IsSymbolic(tag[1]) THEN {bitIdx} ELSE {}
               second == IF IsSymbolic(tag[2]) THEN {bitIdx - 1} ELSE {}
    <3>1. bits = first \cup second
      BY DEF bits, SymbolicBits
    <3> HIDE DEF bit, bitIdx, tag
    <3>2. bit \in first <=> bit = bitIdx /\ IsSymbolic(tag[1])
      BY Zenon
    <3>3. bit \in second <=> bit = bitIdx - 1 /\ IsSymbolic(tag[2])
      BY Zenon
    <3> HIDE DEF first, second
    <3>4. QED
      BY <3>1, <3>2, <3>3
  <2>7. j \in 1 .. Len(out) /\ (j = byteIdx <=> other = quot)
    <3> DEFINE len == Len(out)
               size == BitfieldSize(Len(tags))
    <3>1. j = BitsBegin + 1 + other /\ byteIdx = BitsBegin + 1 + quot
      BY <1>7, Zenon
    <3>2. /\ BitsBegin \in Nat /\ size \in Nat /\ NamesBegin = BitsBegin + size
          /\ quot \in Nat /\ other \in Nat /\ other < size
          /\ len = NamesBegin + sums[n + 1] /\ sums[n + 1] \in Nat
      BY <1>4, <1>6, <1>7, <2>2, Zenon
    <3> HIDE DEF other, quot, j, byteIdx, len, size
    <3>3. j \in 1 .. len /\ (j = byteIdx <=> other = quot)
      BY <3>1, <3>2
    <3>4. QED
      BY <3>3, Zenon DEF len
  <2>8. out'[j] = IF j = byteIdx THEN out[byteIdx] \cup bits ELSE out[j]
    BY <1>15, <2>7
  <2>9. idx < 2 * (n + 1) <=> idx < 2 * n \/ idx = 2 * n \/ idx = 2 * n + 1
    BY <1>4, <2>1
  <2>10. ~ (2 * n < 2 * n) /\ ~ (2 * n + 1 < 2 * n)
    BY <1>4
  <2> HIDE DEF bit, other, quot, bitIdx, tag, j
  <2>11. bit \in out'[j] <=> idx < 2 * (n + 1) /\ IsSymbolic(Name(idx))
    <3>1. CASE other = quot
      <4>1. bit \in out'[j] <=>
               (\/ bit \in out[j]
                \/ bit = bitIdx /\ IsSymbolic(tag[1])
                \/ bit = bitIdx - 1 /\ IsSymbolic(tag[2]))
        <5>1. j = byteIdx /\ out'[j] = out[j] \cup bits
          BY <2>7, <2>8, <3>1
        <5>2. QED
          BY <2>6, <5>1
      <4>2. /\ bit = bitIdx <=> idx = 2 * n
            /\ bit = bitIdx - 1 <=> idx = 2 * n + 1
        BY <2>5, <3>1
      <4>3. QED
        <5>1. CASE idx = 2 * n
          <6>1. bit = bitIdx /\ bit # bitIdx - 1 /\ ~ (idx < 2 * n)
            BY <2>10, <4>2, <5>1
          <6>2. QED
            BY <2>3, <2>4, <2>9, <4>1, <5>1, <6>1, Zenon
        <5>2. CASE idx = 2 * n + 1
          <6>1. bit = bitIdx - 1 /\ bit # bitIdx /\ ~ (idx < 2 * n)
            BY <2>10, <4>2, <5>2
          <6>2. QED
            BY <2>3, <2>4, <2>9, <4>1, <5>2, <6>1, Zenon
        <5>3. CASE idx # 2 * n /\ idx # 2 * n + 1
          BY <2>3, <2>9, <4>1, <4>2, <5>3, Zenon
        <5>4. QED
          BY <5>1, <5>2, <5>3
    <3>2. CASE other # quot
      <4>1. out'[j] = out[j] /\ idx # 2 * n /\ idx # 2 * n + 1
        BY <2>5, <2>7, <2>8, <3>2
      <4>2. QED
        BY <2>3, <2>9, <4>1, Zenon
    <3>3. QED
      BY <3>1, <3>2
  <2>12. QED
    BY <2>11 DEF bit, other, j
<1>23. TagsInv'
  <2> SUFFICES ASSUME NEW i \in 1 .. n + 1
               PROVE  LET front == NamesBegin + sums[i]
                          back == front + NameSize(tags[i][1])
                          name1 == WrittenName(tags[i][1])
                          name2 == WrittenName(tags[i][2])
                      IN  /\ front + Len(name1) <= Len(out')
                          /\ \A k \in 1 .. Len(name1) : out'[front + k] = name1[k]
                          /\ back + Len(name2) <= Len(out')
                          /\ \A k \in 1 .. Len(name2) : out'[back + k] = name2[k]
    BY <1>17, <1>18 DEF TagsInv, HoldsBytes
  <2> DEFINE front == NamesBegin + sums[i]
             back == front + NameSize(tags[i][1])
             name1 == WrittenName(tags[i][1])
             name2 == WrittenName(tags[i][2])
  <2>1. CASE i = n + 1
    <3>1. /\ front = Len(marked) /\ name1 = key /\ name2 = value
          /\ back = Len(marked) + Len(key)
      BY <1>5, <1>6, <1>10, <2>1 DEF key, value
    <3>2. /\ Len(marked) + Len(key) <= Len(out')
          /\ Len(marked) + Len(key) + Len(value) <= Len(out')
      BY <1>5, <1>11, <1>12, <1>13
    <3>3. QED
      BY <1>12, <1>13, <3>1, <3>2
  <2>2. CASE i # n + 1
    <3>1. i \in 1 .. Written /\ i \in 1 .. Len(tags) /\ i \in 1 .. Len(sums)
      BY <1>1, <1>2, <1>3, <1>4, <2>2 DEF SumsInv
    <3>2. HoldsBytes(front, name1) /\ HoldsBytes(back, name2)
      BY <1>3, <3>1 DEF TagsInv
    <3>3. name1 \in Seq(Bytes) /\ name2 \in Seq(Bytes) /\ NameSize(tags[i][1]) \in Nat
      BY <1>1, <3>1, TagsTyped, WrittenSize
    <3>4. sums[i] \in Nat
      BY <1>1, <1>3, <3>1, OffsetsTyped DEF HeaderInv
    <3>5. front \in Nat /\ back \in Nat /\ NamesBegin <= front /\ NamesBegin <= back
      <4>1. NamesBegin \in Nat /\ NameSize(tags[i][1]) \in Nat
        BY <1>4, <3>3
      <4>2. QED
        BY <3>4, <4>1
    <3> HIDE DEF front, back, name1, name2
    <3>6. /\ front + Len(name1) <= Len(out')
          /\ \A k \in 1 .. Len(name1) : out'[front + k] = name1[k]
          /\ back + Len(name2) <= Len(out')
          /\ \A k \in 1 .. Len(name2) : out'[back + k] = name2[k]
      BY <1>16, <3>2, <3>3, <3>5
    <3>7. QED
      BY <3>6 DEF front, back, name1, name2
  <2>3. QED
    BY <2>1, <2>2
<1>24. WriteInv'
  BY <1>21, <1>22, <1>23 DEF WriteInv
<1>25. ReadInv' /\ Before'
  BY <1>1, <1>2 DEF ReadInv, Before, readVars
<1>26. Safe'
  <2>1. Len(out) = NamesBegin + sums[n + 1]
    BY <1>6
  <2>2. NamesBegin + numTagBytes = varUintNumBytes(numBytes) + numBytes
    <3>1. numBytes = varUintNumBytes(Len(tags)) + BitfieldSize(Len(tags)) + numTagBytes
      BY <1>1, <1>3, OffsetsTyped DEF HeaderInv
    <3>2. BitsBegin = varUintNumBytes(numBytes) + varUintNumBytes(Len(tags))
      BY DEF BitsBegin
    <3> DEFINE a == varUintNumBytes(numBytes)
               b == varUintNumBytes(Len(tags))
               c == BitfieldSize(Len(tags))
    <3>3. /\ a \in Nat /\ b \in Nat /\ c \in Nat /\ numTagBytes \in Nat
          /\ numBytes = b + c + numTagBytes
          /\ NamesBegin = a + b + c
      BY <1>4, <1>6, <3>1, <3>2, Zenon
    <3> HIDE DEF a, b, c
    <3>4. NamesBegin + numTagBytes = a + numBytes
      BY <3>3
    <3>5. QED
      BY <3>4, Zenon DEF a
  <2>3. Len(out') <= varUintNumBytes(numBytes) + numBytes
    <3>1. NamesBegin + sums[n + 2] <= NamesBegin + numTagBytes
      BY <1>4, <1>6
    <3>2. QED
      BY <1>14, <2>2, <3>1
  <2>4. QED
    BY <1>17, <2>3 DEF Safe, WithinBuffer, FieldsFound, CopyAlike, varUintNumBytes
<1>27. QED
  BY <1>19, <1>20, <1>24, <1>25, <1>26 DEF Inv

LEMMA StepInv == Inv /\ [Next]_vars => Inv'
<1> SUFFICES ASSUME Inv, [Next]_vars PROVE Inv'
  OBVIOUS
<1>1. CASE Measure
  BY <1>1, MeasureInv
<1>2. CASE Allocate
  BY <1>2, AllocateInv
<1>3. CASE AllocationFails
  BY <1>3, AllocationFailsInv
<1>4. CASE WriteTag
  BY <1>4, WriteTagInv
<1>5. CASE FinishWriting
  BY <1>5, FinishWritingInv
<1>6. CASE Locate
  BY <1>6, LocateInv
<1>7. CASE Iterate
  BY <1>7, IterateInv
<1>8. CASE EndIteration
  BY <1>8, EndIterationInv
<1>9. CASE UNCHANGED vars
  <2>1. /\ UNCHANGED <<inputVars, writeVars>> /\ UNCHANGED <<n, pc>> /\ UNCHANGED readVars
    BY <1>9 DEF vars
  <2>2. Written' = Written /\ tags' = tags /\ id' = id /\ out' = out /\ numBytes' = numBytes
        /\ sums' = sums /\ numTagBytes' = numTagBytes
    BY <2>1 DEF Written, inputVars, writeVars
  <2>3. TypeOK /\ SumsInv /\ WriteInv /\ ReadInv /\ Before /\ Safe
    BY DEF Inv
  <2>4. TypeOK'
    BY <2>1, <2>2, <2>3 DEF TypeOK, readVars
  <2>5. SumsInv'
    BY <2>1, <2>2, <2>3 DEF SumsInv, TagSize, NameSize, IsSymbolic
  <2>6. WriteInv'
    BY <2>1, <2>2, <2>3, WrittenStays DEF WriteInv
  <2>7. Front' = Front /\ BitsBegin' = BitsBegin /\ NamesBegin' = NamesBegin
    BY <2>2 DEF Front, BitsBegin, NamesBegin, varUintNumBytes, BitfieldSize
  <2>8. Memory' = Memory
    BY <2>2, Zenon DEF Memory
  <2>9. ReadInv' /\ Before' /\ Safe'
    BY <2>1, <2>2, <2>3, <2>7, <2>8
    DEF ReadInv, Before, Safe, WithinBuffer, FieldsFound, CopyAlike, readVars, varUintNumBytes
  <2>10. QED
    BY <2>4, <2>5, <2>6, <2>9 DEF Inv
<1>10. QED
  BY <1>1, <1>2, <1>3, <1>4, <1>5, <1>6, <1>7, <1>8, <1>9 DEF Next

LEMMA Invariance == Spec => []Inv
BY InitInv, StepInv, PTL DEF Spec

(* The types. *)
THEOREM TypeCorrect == Spec => []TypeOK
<1>1. Inv => TypeOK
  BY DEF Inv
<1>2. QED
  BY <1>1, Invariance, PTL

(* Reading a record returns the tags that were serialised into it, one for *)
(* one (RawTags::serialize() and RawTagIterator).                          *)
THEOREM ReadAsWritten == Spec => []TagsSurvive
<1>1. Inv => TagsSurvive
  <2> SUFFICES ASSUME Inv, pc = "done" PROVE seen = tags
    BY DEF TagsSurvive
  <2>1. /\ Len(seen) = pos /\ pos = Len(tags) /\ \A i \in 1 .. pos : seen[i] = tags[i]
    BY DEF Inv, ReadInv
  <2>2. seen \in Seq(Names \X Names) /\ tags \in Seq(Names \X Names)
    BY RecordAssumption DEF Inv, TypeOK
  <2>3. QED
    BY <2>1, <2>2, SeqEqual
<1>2. QED
  BY <1>1, Invariance, PTL

(* The iterator meets its end behind the last tag, not before and never    *)
(* beyond (RawTagIterator::operator!=).                                    *)
THEOREM IterationEnds == Spec => []IteratorMeetsEnd
<1>1. Inv => IteratorMeetsEnd
  BY EndReached DEF IteratorMeetsEnd
<1>2. QED
  BY <1>1, Invariance, PTL

(* What serialize() has measured is what it writes. *)
THEOREM BufferSuffices == Spec => []WithinBuffer
<1>1. Inv => WithinBuffer
  BY DEF Inv, Safe
<1>2. QED
  BY <1>1, Invariance, PTL

(* getEntityId() and getGeometryPtr() find their fields. *)
THEOREM FieldsAreFound == Spec => []FieldsFound
<1>1. Inv => FieldsFound
  BY DEF Inv, Safe
<1>2. QED
  BY <1>1, Invariance, PTL

(* Serialising the tags of a record again repeats them byte for byte. *)
THEOREM SerializedAlike == Spec => []CopyAlike
<1>1. Inv => CopyAlike
  BY DEF Inv, Safe
<1>2. QED
  BY <1>1, Invariance, PTL

-----------------------------------------------------------------------------
(* The advance of the loops.  How many steps are left, at most: two loops  *)
(* of serialize() over the tags, and that of the iterator.                 *)
StepsLeft ==
    CASE pc = "measure" -> 3 * Len(tags) + 4 - n
      [] pc = "write" -> 2 * Len(tags) + 3 - n
      [] pc = "locate" -> Len(tags) + 2
      [] pc = "iterate" -> Len(tags) + 1 - pos
      [] OTHER -> 0

LEMMA StepAdvances ==
    ASSUME Inv, Inv', Next
    PROVE  StepsLeft' < StepsLeft
<1> DEFINE len == Len(tags)
<1>1. /\ len \in Nat /\ len' = len
      /\ n \in 0 .. len /\ n' \in 0 .. len
      /\ pos \in 0 .. len /\ pos' \in 0 .. len
  <2>1. tags' = tags
    BY Zenon DEF Next, Measure, Allocate, AllocationFails, WriteTag, FinishWriting, Locate,
                 Iterate, EndIteration, inputVars
  <2>2. tags \in Seq(Names \X Names)
    BY RecordAssumption DEF Inv, TypeOK
  <2>3. QED
    BY <2>1, <2>2 DEF Inv, TypeOK
<1>2. /\ pc = "measure" => StepsLeft = 3 * len + 4 - n
      /\ pc = "write" => StepsLeft = 2 * len + 3 - n
      /\ pc = "locate" => StepsLeft = len + 2
      /\ pc = "iterate" => StepsLeft = len + 1 - pos
  BY Zenon DEF StepsLeft
<1>3. /\ pc' = "measure" => StepsLeft' = 3 * len' + 4 - n'
      /\ pc' = "write" => StepsLeft' = 2 * len' + 3 - n'
      /\ pc' = "locate" => StepsLeft' = len' + 2
      /\ pc' = "iterate" => StepsLeft' = len' + 1 - pos'
      /\ pc' \in {"outOfMemory", "done", "crashed"} => StepsLeft' = 0
  BY Zenon DEF StepsLeft
<1> HIDE DEF len
<1>4. CASE Measure
  <2>1. pc = "measure" /\ pc' = "measure" /\ n' = n + 1
    BY <1>4 DEF Measure
  <2>2. QED
    BY <1>1, <1>2, <1>3, <2>1
<1>5. CASE Allocate
  <2>1. pc = "measure" /\ pc' = "write" /\ n = len /\ n' = 0
    BY <1>5, Zenon DEF Allocate, len
  <2>2. QED
    BY <1>1, <1>2, <1>3, <2>1
<1>6. CASE AllocationFails
  <2>1. pc = "measure" /\ pc' = "outOfMemory"
    BY <1>6 DEF AllocationFails
  <2>2. QED
    BY <1>1, <1>2, <1>3, <2>1
<1>7. CASE WriteTag
  <2>1. pc = "write" /\ pc' = "write" /\ n' = n + 1
    BY <1>7, Zenon DEF WriteTag
  <2>2. QED
    BY <1>1, <1>2, <1>3, <2>1
<1>8. CASE FinishWriting
  <2>1. pc = "write" /\ pc' \in {"locate", "crashed"} /\ n = len
    BY <1>8, Zenon DEF FinishWriting, len
  <2>2. QED
    BY <1>1, <1>2, <1>3, <2>1
<1>9. CASE Locate
  <2>1. pc = "locate" /\ pc' \in {"iterate", "crashed"} /\ pos' = 0
    BY <1>9, Zenon DEF Locate
  <2>2. QED
    BY <1>1, <1>2, <1>3, <2>1
<1>10. CASE Iterate
  <2>1. pc = "iterate" /\ pc' = "iterate" /\ pos' = pos + 1
    BY <1>10, Zenon DEF Iterate
  <2>2. QED
    BY <1>1, <1>2, <1>3, <2>1
<1>11. CASE EndIteration
  <2>1. pc = "iterate" /\ pc' = "done"
    BY <1>11 DEF EndIteration
  <2>2. QED
    BY <1>1, <1>2, <1>3, <2>1
<1>12. QED
  BY <1>4, <1>5, <1>6, <1>7, <1>8, <1>9, <1>10, <1>11 DEF Next

(* Three passes over the tags, and four steps between them, are all there  *)
(* is: the iterator, which compares its address with the one computed for  *)
(* the end by != only, makes one turn for each tag and no more, whatever   *)
(* bytes follow the tags.                                                  *)
THEOREM LoopsAdvance ==
    /\ Spec => [](StepsLeft \in 0 .. 3 * Len(tags) + 4)
    /\ Spec => [][StepsLeft' < StepsLeft]_vars
<1>1. Inv => StepsLeft \in 0 .. 3 * Len(tags) + 4
  <2> SUFFICES ASSUME Inv PROVE StepsLeft \in 0 .. 3 * Len(tags) + 4
    OBVIOUS
  <2> DEFINE len == Len(tags)
  <2>1. len \in Nat /\ n \in 0 .. len /\ pos \in 0 .. len
    BY RecordAssumption DEF Inv, TypeOK
  <2>2. \/ StepsLeft = 3 * len + 4 - n \/ StepsLeft = 2 * len + 3 - n
        \/ StepsLeft = len + 2 \/ StepsLeft = len + 1 - pos \/ StepsLeft = 0
    BY Zenon DEF StepsLeft
  <2> HIDE DEF len
  <2>3. StepsLeft \in 0 .. 3 * len + 4
    BY <2>1, <2>2
  <2>4. QED
    BY <2>3 DEF len
<1>2. Inv /\ Inv' /\ [Next]_vars => [StepsLeft' < StepsLeft]_vars
  BY StepAdvances
<1>3. Spec => [](StepsLeft \in 0 .. 3 * Len(tags) + 4)
  BY <1>1, Invariance, PTL
<1>4. Spec => [][StepsLeft' < StepsLeft]_vars
  BY <1>2, Invariance, PTL DEF Spec
<1>5. QED
  BY <1>3, <1>4
===============================================================================
