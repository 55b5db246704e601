-------------------------------- MODULE RawTags --------------------------------
(***************************************************************************)
(* The tags of a record (src/src/rawTags.cc) and how they lie in it        *)
(* (getTags() and getGeometryPtr() of src/src/genericGeometry.cc).         *)
(*                                                                         *)
(* serialize() measures a list of tags, allocates a buffer of that size    *)
(* and fills it: the size, the number of tags, a bit for every key and     *)
(* value that says whether it is one of the symbolic names, and then the   *)
(* names, a symbolic one as its index, any other as its characters and a   *)
(* NUL.  A feature set later finds the tags behind the flags, the z-index  *)
(* and the id of a record, and an iterator walks over them; it stops on    *)
(* meeting the address computed for the end, and on nothing else.          *)
(*                                                                         *)
(* A byte is the set of its bits.  Numbers are stored as VarInt describes: *)
(* what is used of that here is EncodingAssumption.                        *)
(***************************************************************************)
EXTENDS Integers, Sequences

CONSTANTS
    Chars,          \* the bytes that names consist of
    symbolicNames,  \* the table of symbolic names, by the byte of their index
    TagLists,       \* the tags a run serialises: sequences of (key, value)
    Ids,            \* the ids of its records
    Body,           \* the bytes behind the tags: the geometry
    MaxNumber,      \* as many bytes as can be allocated
    Encoding        \* varUintToBytes(), for numbers up to that

Bytes == SUBSET (0 .. 7)

NUL == {}

Names == Seq(Chars)

Numbers == 0 .. MaxNumber

ASSUME NamesAssumption ==
    /\ Chars \subseteq Bytes \ {NUL}
    /\ symbolicNames \in [DOMAIN symbolicNames -> Names]
    /\ DOMAIN symbolicNames \subseteq Bytes

ASSUME RecordAssumption ==
    /\ TagLists \subseteq Seq(Names \X Names)
    /\ Ids \subseteq Numbers
    /\ Body \in Seq(Bytes) /\ Body # <<>>

(* No encoding is the beginning of another one, so that a number is read   *)
(* as it was written, whatever follows it.                                 *)
ASSUME EncodingAssumption ==
    /\ MaxNumber \in Nat
    /\ Encoding \in [Numbers -> Seq(Bytes) \ {<<>>}]
    /\ \A m, n \in Numbers :
          m = n \/ \E i \in 1 .. Len(Encoding[m]) :
                      i \in DOMAIN Encoding[n] /\ Encoding[m][i] # Encoding[n][i]

VARIABLES
    tags,           \* the tags serialised
    id,             \* and the id of the record they are put in
    pc,
    n,              \* how many tags the current loop has handled
    numTagBytes,    \* the bytes of all names, as measured
    sums,           \* history: the value of numTagBytes before every tag
    numBytes,       \* the size that is written
    out,            \* the bytes written
    rawTags,        \* what the constructor of RawTags has found
    tagsAtPos,      \* the iterator: an address,
    pos,            \* and the number of the tag there
    seen,           \* history: what the iterator has returned
    found,          \* the id and the geometry that the accessors have found
    copy            \* what RawTags::serialize() writes of the tags found

inputVars == <<tags, id>>
writeVars == <<numTagBytes, sums, numBytes, out>>
readVars == <<rawTags, tagsAtPos, pos, seen, found, copy>>
vars == <<inputVars, pc, n, writeVars, readVars>>

-----------------------------------------------------------------------------
(* createSymbolicNameMap(): the index of a name; the table has none twice. *)
IsSymbolic(name) == \E i \in DOMAIN symbolicNames : symbolicNames[i] = name

symbolicNameId(name) ==
    CHOOSE i \in DOMAIN symbolicNames : symbolicNames[i] = name

(* Mutant of NameSize: the terminating NUL is not counted. *)
NameSizeUnterminated(name) == IF IsSymbolic(name) THEN 1 ELSE Len(name)

(* What a name needs, as measured; and what is written of it. *)
NameSize(name) == IF IsSymbolic(name) THEN 1 ELSE Len(name) + 1

WrittenName(name) ==
    IF IsSymbolic(name) THEN <<symbolicNameId(name)>> ELSE Append(name, NUL)

TagSize(tag) == NameSize(tag[1]) + NameSize(tag[2])

varUintNumBytes(number) == Len(Encoding[number])

(* One bit for each key and each value, in whole bytes. *)
BitfieldSize(numTags) == (numTags * 2 + 7) \div 8

-----------------------------------------------------------------------------
Init ==
    /\ tags \in TagLists /\ id \in Ids
    /\ pc = "measure" /\ n = 0
    /\ numTagBytes = 0 /\ sums = <<0>>
    /\ numBytes = 0 /\ out = <<>>
    /\ rawTags = [numTags |-> 0, numTagBytes |-> 0, symbolicNameBits |-> 0, tagsStart |-> 0]
    /\ tagsAtPos = 0 /\ pos = 0 /\ seen = <<>>
    /\ found = [id |-> 0, geometry |-> 0]
    /\ copy = <<>>

(* getSerializedSize() adds up the sizes of the names. *)
Measure ==
    /\ pc = "measure" /\ n < Len(tags)
    /\ numTagBytes' = numTagBytes + TagSize(tags[n + 1])
    /\ sums' = Append(sums, numTagBytes')
    /\ n' = n + 1
    /\ UNCHANGED <<inputVars, pc, numBytes, out, readVars>>

SerializedSize(numTags) ==
    varUintNumBytes(numTags) + BitfieldSize(numTags) + numTagBytes

Allocatable == Len(tags) \in Numbers /\ SerializedSize(Len(tags)) \in Numbers

(* The size field, the number of tags, and a cleared bit array. *)
Allocate ==
    /\ pc = "measure" /\ n = Len(tags)
    /\ Allocatable
    /\ numBytes' = SerializedSize(Len(tags))
    /\ out' = Encoding[numBytes'] \o Encoding[Len(tags)]
                 \o [k \in 1 .. BitfieldSize(Len(tags)) |-> {}]
    /\ n' = 0
    /\ pc' = "write"
    /\ UNCHANGED <<inputVars, numTagBytes, sums, readVars>>

AllocationFails ==
    /\ pc = "measure" /\ n = Len(tags)
    /\ ~ Allocatable
    /\ pc' = "outOfMemory"
    /\ UNCHANGED <<inputVars, n, writeVars, readVars>>

(* The bytes of the bit array begin behind this one. *)
BitsBegin == varUintNumBytes(numBytes) + varUintNumBytes(Len(tags))

(* The bits for the key and the value of a tag. *)
SymbolicBits(tag, bitIdx) ==
    (IF IsSymbolic(tag[1]) THEN {bitIdx} ELSE {})
        \cup (IF IsSymbolic(tag[2]) THEN {bitIdx - 1} ELSE {})

(* A turn of the loop of serialize().  As idx is even, its bit is never    *)
(* the lowest one, which the MUST() in the loop asks for.                  *)
WriteTag ==
    /\ pc = "write" /\ n < Len(tags)
    /\ LET idx == 2 * n
           byteIdx == BitsBegin + 1 + (idx \div 8)
           bits == SymbolicBits(tags[n + 1], 7 - (idx % 8))
       IN  out' = [out EXCEPT ![byteIdx] = out[byteIdx] \cup bits]
                     \o WrittenName(tags[n + 1][1]) \o WrittenName(tags[n + 1][2])
    /\ n' = n + 1
    /\ UNCHANGED <<inputVars, pc, numTagBytes, sums, numBytes, readVars>>

(* MUST(): the buffer has been filled, and not beyond its end. *)
FinishWriting ==
    /\ pc = "write" /\ n = Len(tags)
    /\ pc' = IF Len(out) - varUintNumBytes(numBytes) = numBytes THEN "locate" ELSE "crashed"
    /\ UNCHANGED <<inputVars, n, writeVars, readVars>>

-----------------------------------------------------------------------------
(* Reading.  The record in memory: flags, z-index, id, tags, geometry.     *)

Memory == <<{}, {}>> \o Encoding[id] \o out \o Body

StartsWith(addr, bytes) ==
    \A i \in 1 .. Len(bytes) :
        addr + i - 1 \in DOMAIN Memory /\ Memory[addr + i - 1] = bytes[i]

varUintFromBytes(addr) == CHOOSE number \in Numbers : StartsWith(addr, Encoding[number])

(* The address behind the number at addr. *)
After(addr) == addr + varUintNumBytes(varUintFromBytes(addr))

strlen(addr) ==
    CHOOSE len \in 0 .. Len(Memory) - addr :
        /\ Memory[addr + len] = NUL
        /\ \A i \in 0 .. len - 1 : Memory[addr + i] # NUL

IdAddr == 3
TagsAddr == After(IdAddr)

(* Mutant of Located: the number of tags is taken for a single byte. *)
LocatedOneByteCount ==
    LET numTagsAddr == After(TagsAddr)
        numTags == varUintFromBytes(numTagsAddr)
        bits == After(numTagsAddr)
    IN  [numTags |-> numTags,
         numTagBytes |-> varUintFromBytes(TagsAddr) - BitfieldSize(numTags) - 1,
         symbolicNameBits |-> bits,
         tagsStart |-> bits + BitfieldSize(numTags)]

(* The constructor of RawTags. *)
Located ==
    LET numTagsAddr == After(TagsAddr)
        numTags == varUintFromBytes(numTagsAddr)
        bits == After(numTagsAddr)
    IN  [numTags |-> numTags,
         numTagBytes |-> varUintFromBytes(TagsAddr) - BitfieldSize(numTags)
                            - varUintNumBytes(numTags),
         symbolicNameBits |-> bits,
         tagsStart |-> bits + BitfieldSize(numTags)]

(* Mutant of GeometryPtr: the size is taken to count from its own field. *)
GeometryPtrFromSize == TagsAddr + varUintFromBytes(TagsAddr)

(* getGeometryPtr() *)
GeometryPtr == After(TagsAddr) + varUintFromBytes(TagsAddr)

(* getEntityId(), getGeometryPtr() with its MUST(), getTags() and begin()  *)
Locate ==
    /\ pc = "locate"
    /\ found' = [id |-> varUintFromBytes(IdAddr), geometry |-> GeometryPtr]
    /\ rawTags' = Located
    /\ tagsAtPos' = Located.tagsStart /\ pos' = 0
    /\ pc' = IF GeometryPtr <= Len(Memory) THEN "iterate" ELSE "crashed"
    /\ UNCHANGED <<inputVars, n, writeVars, seen, copy>>

isSymbolicName(idx) == 7 - (idx % 8) \in Memory[rawTags.symbolicNameBits + (idx \div 8)]

(* The name at addr, the idx-th of the record; and the address behind it.  *)
NameAt(addr, idx) ==
    IF isSymbolicName(idx) THEN symbolicNames[Memory[addr]]
    ELSE SubSeq(Memory, addr, addr + strlen(addr) - 1)

(* Mutant of Behind: the terminating NUL is not skipped. *)
BehindCharacters(addr, idx) == addr + IF isSymbolicName(idx) THEN 1 ELSE strlen(addr)

Behind(addr, idx) == addr + IF isSymbolicName(idx) THEN 1 ELSE strlen(addr) + 1

End == rawTags.tagsStart + rawTags.numTagBytes

(* Mutant of Iterate: only the first value of a key, as in asDictionary(). *)
IterateDictionary ==
    /\ pc = "iterate" /\ tagsAtPos # End
    /\ LET valuePos == Behind(tagsAtPos, pos * 2)
           key == NameAt(tagsAtPos, pos * 2)
       IN  /\ seen' = IF \E i \in DOMAIN seen : seen[i][1] = key THEN seen
                      ELSE Append(seen, <<key, NameAt(valuePos, pos * 2 + 1)>>)
           /\ tagsAtPos' = Behind(valuePos, pos * 2 + 1)
    /\ pos' = pos + 1
    /\ UNCHANGED <<inputVars, pc, n, writeVars, rawTags, found, copy>>

(* operator!=, operator*, operator++ *)
Iterate ==
    /\ pc = "iterate" /\ tagsAtPos # End
    /\ LET valuePos == Behind(tagsAtPos, pos * 2)
       IN  /\ seen' = Append(seen, <<NameAt(tagsAtPos, pos * 2),
                                     NameAt(valuePos, pos * 2 + 1)>>)
           /\ tagsAtPos' = Behind(valuePos, pos * 2 + 1)
    /\ pos' = pos + 1
    /\ UNCHANGED <<inputVars, pc, n, writeVars, rawTags, found, copy>>

(* Mutant of Reserialized: the size is that of the whole buffer. *)
ReserializedWhole ==
    LET bits == BitfieldSize(rawTags.numTags)
        size == varUintNumBytes(rawTags.numTags) + bits + rawTags.numTagBytes
    IN  Encoding[size + varUintNumBytes(size)] \o Encoding[rawTags.numTags]
           \o SubSeq(Memory, rawTags.symbolicNameBits, rawTags.symbolicNameBits + bits - 1)
           \o SubSeq(Memory, rawTags.tagsStart, End - 1)

(* serialize(outputBuffer), with getSerializedSize() of what was found *)
Reserialized ==
    LET bits == BitfieldSize(rawTags.numTags)
        size == varUintNumBytes(rawTags.numTags) + bits + rawTags.numTagBytes
    IN  Encoding[size] \o Encoding[rawTags.numTags]
           \o SubSeq(Memory, rawTags.symbolicNameBits, rawTags.symbolicNameBits + bits - 1)
           \o SubSeq(Memory, rawTags.tagsStart, End - 1)

EndIteration ==
    /\ pc = "iterate" /\ tagsAtPos = End
    /\ copy' = Reserialized
    /\ pc' = "done"
    /\ UNCHANGED <<inputVars, n, writeVars, rawTags, tagsAtPos, pos, seen, found>>

Next ==
    \/ Measure \/ Allocate \/ AllocationFails \/ WriteTag \/ FinishWriting
    \/ Locate \/ Iterate \/ EndIteration

Spec == Init /\ [][Next]_vars

-----------------------------------------------------------------------------
TypeOK ==
    /\ tags \in TagLists /\ id \in Ids
    /\ pc \in {"measure", "outOfMemory", "write", "locate", "iterate", "done", "crashed"}
    /\ n \in 0 .. Len(tags)
    /\ numTagBytes \in Nat /\ sums \in Seq(Nat) /\ numBytes \in Numbers
    /\ out \in Seq(Bytes) /\ copy \in Seq(Bytes)
    /\ rawTags \in [numTags : Nat, numTagBytes : Nat, symbolicNameBits : Nat, tagsStart : Nat]
    /\ tagsAtPos \in Nat /\ pos \in 0 .. Len(tags)
    /\ seen \in Seq(Names \X Names)
    /\ found \in [id : Ids \cup {0}, geometry : Nat]

(* Whoever reads a record gets the tags that were written, in their order, *)
(* symbolic or not, empty names and repeated keys included.                *)
TagsSurvive == pc = "done" => seen = tags

(* The iterator is never behind its end, and it is at its end when, and    *)
(* only when, it has passed all tags; it would run on through memory       *)
(* otherwise.                                                              *)
IteratorMeetsEnd ==
    pc = "iterate" =>
        /\ tagsAtPos <= End
        /\ tagsAtPos = End <=> pos = Len(tags)

(* Nothing is written behind the buffer, which was measured beforehand,    *)
(* and none of the MUST()s fails.                                          *)
WithinBuffer ==
    /\ pc \in {"write", "locate"} => Len(out) <= varUintNumBytes(numBytes) + numBytes
    /\ pc # "crashed"

(* The accessors find the id and the first byte of the geometry, across    *)
(* fields of varying length.                                               *)
FieldsFound ==
    pc \in {"iterate", "done"} =>
        found = [id |-> id, geometry |-> Len(Memory) - Len(Body) + 1]

(* Serialising what was found repeats the bytes it was found in. *)
CopyAlike == pc = "done" => copy = out
===============================================================================
