------------------------------ MODULE TileRecords ------------------------------
(***************************************************************************)
(* The records of one tile file, and the buffers they are read into: the   *)
(* class GenericGeometry (src/src/genericGeometry.cc), the loop of the     *)
(* streaming feature set over a file (getNextGeometry() of                 *)
(* src/src/coordsFeatureSet.cc), and that of the buffered feature set      *)
(* (loadFileContents() of src/src/bufferedCoordsFeatureSet.cc).            *)
(*                                                                         *)
(* A record is a size field and as many bytes.  The tile writer may be in  *)
(* the middle of one when a file is read, and may stop there for ever.     *)
(* The two feature sets share nothing but the file, which neither of them  *)
(* writes, so a behaviour has one of them.  What a block on its heap holds *)
(* is the number of the record that was read into it, or 0.                *)
(***************************************************************************)
EXTENDS Integers, Sequences

CONSTANTS
    Sizes,          \* the sizes of records
    Limit,          \* the size from which on init() takes a record as invalid
    MaxRecords,     \* bound: records in the file
    Addresses,      \* the addresses that new may return
    nullptr

ASSUME TileRecordsAssumption ==
    /\ Sizes \subseteq Nat \ {0}
    /\ Limit \in Nat /\ MaxRecords \in Nat
    /\ nullptr \notin Addresses

VARIABLES
    records,        \* the sizes of the whole records of the file,
    tail,           \* how far the record behind them has been written,
    changes,        \* and how often the writer has written since
    pc,             \* the streaming feature set: where it is,
    position,       \* how many records it has passed,
    lastReturnedGeometry,
    streamed,       \* history: what it has read,
    refused,        \* history: the size that it took as invalid
    loaderPc,       \* the buffered feature set: where it is,
    wholeRecords,   \* the data it has read: whole records,
    cut,            \* and what they end with,
    loadedGeometries,
    heap            \* the blocks allocated, by address

fileVars == <<records, tail, changes>>
streamVars == <<pc, position, lastReturnedGeometry, streamed, refused>>
loaderVars == <<loaderPc, wholeRecords, cut, loadedGeometries>>
vars == <<fileVars, streamVars, loaderVars, heap>>

(* A record that is not there, or of which a part of the size field is, or *)
(* the size field and a part of the rest.                                  *)
Tails == {[stage |-> "none", numBytes |-> 0]}
            \cup [stage : {"size", "content"}, numBytes : Sizes]

NoTail == [stage |-> "none", numBytes |-> 0]

-----------------------------------------------------------------------------
(* The heap. *)

Block(size, holds) == [size |-> size, holds |-> holds]

With(blocks, addr, block) ==
    [a \in DOMAIN blocks \cup {addr} |-> IF a = addr THEN block ELSE blocks[a]]

(* delete[]; of a null pointer, nothing *)
Without(blocks, addrs) == [a \in DOMAIN blocks \ addrs |-> blocks[a]]

(* What new may return. *)
Free(blocks) == Addresses \ DOMAIN blocks

-----------------------------------------------------------------------------
Init ==
    /\ \E len \in 0 .. MaxRecords : records \in [1 .. len -> Sizes]
    /\ tail \in Tails
    /\ changes = 0
    /\ \/ pc = "between" /\ loaderPc = "unused"
       \/ pc = "unused" /\ loaderPc = "opening"
    /\ position = 0
    /\ lastReturnedGeometry = [numBytes |-> 0, numBytesAllocated |-> 0, bytes |-> nullptr]
    /\ streamed = <<>> /\ refused = 0
    /\ wholeRecords = 0 /\ cut = NoTail /\ loadedGeometries = <<>>
    /\ heap = <<>>

(* The tile writer: it begins the next record, gets on to its contents,    *)
(* and finishes it.                                                        *)
BeginRecord ==
    /\ tail = NoTail /\ Len(records) < MaxRecords
    /\ \E size \in Sizes : tail' = [stage |-> "size", numBytes |-> size]
    /\ UNCHANGED records

WriteContent ==
    /\ tail.stage = "size"
    /\ tail' = [tail EXCEPT !.stage = "content"]
    /\ UNCHANGED records

FinishRecord ==
    /\ tail.stage = "content" /\ Len(records) < MaxRecords
    /\ records' = Append(records, tail.numBytes)
    /\ tail' = NoTail

Write ==
    /\ BeginRecord \/ WriteContent \/ FinishRecord
    /\ changes' = changes + 1
    /\ UNCHANGED <<streamVars, loaderVars, heap>>

-----------------------------------------------------------------------------
(* The streaming feature set. *)

(* Mutant of LookForRecord: the end of the file is noticed after reading   *)
(* behind it, as while (!feof(f)) does.                                    *)
LookForRecordTooFar ==
    /\ pc = "between"
    /\ pc' = "readSize"
    /\ UNCHANGED <<fileVars, position, lastReturnedGeometry, streamed, refused, loaderVars, heap>>

(* fgetc() and ungetc(): is there another byte?  If not, fclose().         *)
LookForRecord ==
    /\ pc = "between"
    /\ pc' = IF position = Len(records) /\ tail = NoTail THEN "closed" ELSE "readSize"
    /\ UNCHANGED <<fileVars, position, lastReturnedGeometry, streamed, refused, loaderVars, heap>>

(* Mutant of NeedsBlock: a block is allocated once. *)
NeedsBlockOnce(avoidRealloc, numBytes) ==
    ~ avoidRealloc \/ lastReturnedGeometry.bytes = nullptr

NeedsBlock(avoidRealloc, numBytes) ==
    ~ avoidRealloc \/ numBytes > lastReturnedGeometry.numBytesAllocated

(* init(f, true): the size of the record ahead. *)
SizeAhead == IF position < Len(records) THEN records[position + 1] ELSE tail.numBytes

SizeIsThere == position < Len(records) \/ tail.stage = "content"

ReadSize ==
    /\ pc = "readSize"
    /\ SizeIsThere /\ SizeAhead < Limit
    /\ pc' = "readContent"
    /\ IF NeedsBlock(TRUE, SizeAhead)
       THEN LET others == Without(heap, {lastReturnedGeometry.bytes})
            IN  \E addr \in Free(others) :
                   /\ heap' = With(others, addr, Block(SizeAhead, 0))
                   /\ lastReturnedGeometry' =
                         [numBytes |-> SizeAhead, numBytesAllocated |-> SizeAhead, bytes |-> addr]
       ELSE /\ lastReturnedGeometry' = [lastReturnedGeometry EXCEPT !.numBytes = SizeAhead]
            /\ UNCHANGED heap
    /\ UNCHANGED <<fileVars, position, streamed, refused, loaderVars>>

(* MUST(): there is no size field; or it is too large. *)
RefuseSize ==
    /\ pc = "readSize"
    /\ ~ SizeIsThere \/ SizeAhead >= Limit
    /\ refused' = IF SizeIsThere THEN SizeAhead ELSE 0
    /\ pc' = "crashed"
    /\ UNCHANGED <<fileVars, position, lastReturnedGeometry, streamed, loaderVars, heap>>

(* Mutant of ReadContent: the result of fread() is ignored. *)
ReadWhatIsThere ==
    /\ pc = "readContent"
    /\ heap' = [heap EXCEPT ![lastReturnedGeometry.bytes].holds = position + 1]
    /\ streamed' = Append(streamed, lastReturnedGeometry.numBytes)
    /\ position' = position + 1
    /\ pc' = "between"
    /\ UNCHANGED <<fileVars, lastReturnedGeometry, refused, loaderVars>>

(* The rest of init().  Whether the geometry is returned to the renderer   *)
(* or skipped, the loop comes round.                                       *)
ReadContent ==
    /\ pc = "readContent"
    /\ position < Len(records)
    /\ heap' = [heap EXCEPT ![lastReturnedGeometry.bytes].holds = position + 1]
    /\ streamed' = Append(streamed, lastReturnedGeometry.numBytes)
    /\ position' = position + 1
    /\ pc' = "between"
    /\ UNCHANGED <<fileVars, lastReturnedGeometry, refused, loaderVars>>

ReadContentFails ==
    /\ pc = "readContent"
    /\ position >= Len(records)
    /\ pc' = "crashed"
    /\ UNCHANGED <<fileVars, position, lastReturnedGeometry, streamed, refused, loaderVars, heap>>

(* The destructor of the feature set, between two calls of next(). *)
DestroyStream ==
    /\ pc \in {"between", "closed"}
    /\ heap' = Without(heap, {lastReturnedGeometry.bytes})
    /\ lastReturnedGeometry' = [lastReturnedGeometry EXCEPT !.bytes = nullptr]
    /\ pc' = "destroyed"
    /\ UNCHANGED <<fileVars, position, streamed, refused, loaderVars>>

-----------------------------------------------------------------------------
(* The buffered feature set. *)

(* loadFileContents() is called for a file that is not empty; it asks for  *)
(* the size and reads that much.                                           *)
ReadFile ==
    /\ loaderPc = "opening"
    /\ records # <<>> \/ tail # NoTail
    /\ wholeRecords' = Len(records) /\ cut' = tail
    /\ loaderPc' = "loading"
    /\ UNCHANGED <<fileVars, streamVars, loadedGeometries, heap>>

(* new GenericGeometry(pos, numBytes, false) *)
LoadRecord ==
    /\ loaderPc = "loading" /\ Len(loadedGeometries) < wholeRecords
    /\ LET k == Len(loadedGeometries) + 1
       IN  \E addr \in Free(heap) :
              /\ loadedGeometries' =
                    Append(loadedGeometries, [numBytes |-> records[k], bytes |-> addr])
              /\ heap' = With(heap, addr, Block(records[k], k))
    /\ UNCHANGED <<fileVars, streamVars, loaderPc, wholeRecords, cut>>

(* The turn of the loop for a record that is cut off: its size is any, if  *)
(* a part of the size field is beyond the end of the data, and so is what  *)
(* is copied from there, unless reading there ends the process.            *)
LoadCut ==
    /\ loaderPc = "loading" /\ Len(loadedGeometries) = wholeRecords /\ cut # NoTail
    /\ \/ /\ loaderPc' = "crashed"
          /\ UNCHANGED <<loadedGeometries, heap>>
       \/ /\ \E size \in IF cut.stage = "content" THEN {cut.numBytes} ELSE Sizes :
                \E addr \in Free(heap) :
                   /\ loadedGeometries' =
                         Append(loadedGeometries, [numBytes |-> size, bytes |-> addr])
                   /\ heap' = With(heap, addr, Block(size, 0))
          /\ UNCHANGED loaderPc
    /\ UNCHANGED <<fileVars, streamVars, wholeRecords, cut>>

AllLoaded ==
    \/ Len(loadedGeometries) = wholeRecords /\ cut = NoTail
    \/ Len(loadedGeometries) > wholeRecords

(* Mutant of FinishLoading: no assertion, as with NDEBUG. *)
FinishUnasserted ==
    /\ loaderPc = "loading" /\ AllLoaded
    /\ loaderPc' = "open"
    /\ UNCHANGED <<fileVars, streamVars, wholeRecords, cut, loadedGeometries, heap>>

(* The data have been passed: exactly, or the assertion fails. *)
FinishLoading ==
    /\ loaderPc = "loading" /\ AllLoaded
    /\ loaderPc' = IF Len(loadedGeometries) = wholeRecords THEN "open" ELSE "crashed"
    /\ UNCHANGED <<fileVars, streamVars, wholeRecords, cut, loadedGeometries, heap>>

(* Mutant of TakeLast: only what is returned is deleted. *)
TakeReturned ==
    /\ loaderPc = "open" /\ loadedGeometries # <<>>
    /\ LET last == Len(loadedGeometries)
       IN  /\ heap' \in {heap, Without(heap, {loadedGeometries[last].bytes})}
           /\ loadedGeometries' = SubSeq(loadedGeometries, 1, last - 1)
    /\ UNCHANGED <<fileVars, streamVars, loaderPc, wholeRecords, cut>>

(* next() deletes the geometry at the back, whether it returns it or not.  *)
TakeLast ==
    /\ loaderPc = "open" /\ loadedGeometries # <<>>
    /\ LET last == Len(loadedGeometries)
       IN  /\ heap' = Without(heap, {loadedGeometries[last].bytes})
           /\ loadedGeometries' = SubSeq(loadedGeometries, 1, last - 1)
    /\ UNCHANGED <<fileVars, streamVars, loaderPc, wholeRecords, cut>>

DestroyLoaded ==
    /\ loaderPc = "open"
    /\ heap' = Without(heap, {loadedGeometries[i].bytes : i \in DOMAIN loadedGeometries})
    /\ loadedGeometries' = <<>>
    /\ loaderPc' = "destroyed"
    /\ UNCHANGED <<fileVars, streamVars, wholeRecords, cut>>

Next ==
    \/ Write
    \/ LookForRecord \/ ReadSize \/ RefuseSize \/ ReadContent \/ ReadContentFails
    \/ DestroyStream
    \/ ReadFile \/ LoadRecord \/ LoadCut \/ FinishLoading \/ TakeLast \/ DestroyLoaded

Spec == Init /\ [][Next]_vars

-----------------------------------------------------------------------------
Geometry == [numBytes : Nat, bytes : Addresses]

TypeOK ==
    /\ records \in Seq(Sizes) /\ tail \in Tails /\ changes \in Nat
    /\ pc \in {"unused", "between", "readSize", "readContent", "closed", "destroyed", "crashed"}
    /\ position \in 0 .. Len(records)
    /\ lastReturnedGeometry \in [numBytes : Nat, numBytesAllocated : Nat,
                                bytes : Addresses \cup {nullptr}]
    /\ streamed \in Seq(Sizes) /\ refused \in Nat
    /\ loaderPc \in {"unused", "opening", "loading", "open", "crashed", "destroyed"}
    /\ wholeRecords \in 0 .. Len(records) /\ cut \in Tails
    /\ loadedGeometries \in Seq(Geometry)
    /\ DOMAIN heap \subseteq Addresses
    /\ heap \in [DOMAIN heap -> [size : Nat, holds : Nat]]

(* The owners of blocks, each with its address. *)
StreamBlock == {lastReturnedGeometry.bytes} \ {nullptr}
LoadedBlocks == {loadedGeometries[i].bytes : i \in DOMAIN loadedGeometries}

(* No block is lost and none is deleted twice: the blocks on the heap are  *)
(* those that geometries point to, each one by a single geometry.          *)
BlocksOwned ==
    /\ DOMAIN heap = StreamBlock \cup LoadedBlocks
    /\ StreamBlock \cap LoadedBlocks = {}
    /\ \A i, j \in DOMAIN loadedGeometries :
          loadedGeometries[i].bytes = loadedGeometries[j].bytes => i = j

(* No geometry is longer than its block, also where init() keeps the block *)
(* of an earlier record; fread() and the accessors stay inside.            *)
WithinBlock ==
    /\ StreamBlock # {} =>
          lastReturnedGeometry.numBytes <= heap[lastReturnedGeometry.bytes].size
    /\ \A i \in DOMAIN loadedGeometries :
          loadedGeometries[i].numBytes <= heap[loadedGeometries[i].bytes].size

(* Both readers get the records of the file, whole and in their order,     *)
(* from where they begin.  What the buffered one makes of a record that is *)
(* cut off, of bytes that nobody wrote, no feature set ever takes on.      *)
RecordsRead ==
    /\ Len(streamed) = position
    /\ \A i \in 1 .. position : streamed[i] = records[i]
    /\ \A i \in DOMAIN loadedGeometries :
          i <= wholeRecords \/ loaderPc = "open" =>
              /\ i \in DOMAIN records /\ loadedGeometries[i].numBytes = records[i]
              /\ heap[loadedGeometries[i].bytes].holds = i

(* A file of whole records that nobody writes to never costs the process,  *)
(* unless a record reaches the limit, and that only the streaming one.     *)
CrashExplained ==
    changes = 0 /\ tail = NoTail =>
        /\ loaderPc # "crashed"
        /\ pc = "crashed" => refused >= Limit

================================================================================
