--------------------------- MODULE TileRecordsProofs ---------------------------
(***************************************************************************)
(* What TileRecords promises holds for every file, every set of sizes,     *)
(* every limit and whatever addresses new returns.  The invariants of the  *)
(* runs are not inductive; what they need besides is                       *)
(*                                                                         *)
(*   - that numBytesAllocated is the size of the block that the geometry   *)
(*     owns, and 0 as long as it owns none (BlocksFit), so that a block is *)
(*     kept only if there is one and it is large enough;                   *)
(*   - what lastReturnedGeometry says of the record it is of, before and   *)
(*     after its contents are read (StreamInv);                            *)
(*   - that the loader loads no more than the records there are and one    *)
(*     that is cut off, and that a reader only comes to an unfinished      *)
(*     record if there is one or somebody writes (LoaderInv, CrashInv).    *)
(***************************************************************************)
EXTENDS TileRecords, SequenceTheorems, TLAPS

BlockType == [size : Nat, holds : Nat]

IsHeap(blocks) == DOMAIN blocks \subseteq Addresses /\ blocks \in [DOMAIN blocks -> BlockType]

BlocksFit ==
    /\ lastReturnedGeometry.bytes # nullptr =>
          /\ lastReturnedGeometry.numBytes <= lastReturnedGeometry.numBytesAllocated
          /\ heap[lastReturnedGeometry.bytes].size = lastReturnedGeometry.numBytesAllocated
    /\ lastReturnedGeometry.bytes = nullptr =>
          pc = "destroyed" \/ lastReturnedGeometry.numBytesAllocated = 0
    /\ \A i \in DOMAIN loadedGeometries :
          loadedGeometries[i].numBytes <= heap[loadedGeometries[i].bytes].size

StreamInv ==
    /\ pc = "readContent" =>
          /\ lastReturnedGeometry.bytes # nullptr
          /\ IF position < Len(records)
             THEN lastReturnedGeometry.numBytes = records[position + 1]
             ELSE tail.stage = "content" /\ lastReturnedGeometry.numBytes = tail.numBytes
    /\ pc \in {"between", "closed"} /\ position > 0 =>
          /\ lastReturnedGeometry.bytes # nullptr
          /\ lastReturnedGeometry.numBytes = records[position]
          /\ heap[lastReturnedGeometry.bytes].holds = position

LoaderInv ==
    /\ Len(loadedGeometries) <= wholeRecords + 1
    /\ Len(loadedGeometries) > wholeRecords =>
          loaderPc \in {"loading", "crashed"} /\ cut # NoTail

CrashInv ==
    changes = 0 /\ tail = NoTail =>
        /\ pc \in {"readSize", "readContent"} => position < Len(records)
        /\ cut = NoTail

Inv ==
    /\ TypeOK /\ BlocksOwned /\ BlocksFit /\ StreamInv /\ RecordsRead
    /\ LoaderInv /\ CrashInv /\ CrashExplained

-----------------------------------------------------------------------------
(* The heap: what allocating and freeing change, and what they leave. *)

LEMMA WithFacts ==
    ASSUME NEW blocks, NEW addr, NEW block
    PROVE  /\ DOMAIN With(blocks, addr, block) = DOMAIN blocks \cup {addr}
           /\ With(blocks, addr, block)[addr] = block
           /\ \A a \in DOMAIN blocks : a # addr => With(blocks, addr, block)[a] = blocks[a]
  BY DEF With

LEMMA WithoutFacts ==
    ASSUME NEW blocks, NEW addrs
    PROVE  /\ DOMAIN Without(blocks, addrs) = DOMAIN blocks \ addrs
           /\ \A a \in DOMAIN blocks \ addrs : Without(blocks, addrs)[a] = blocks[a]
  BY DEF Without

LEMMA WithIsHeap ==
    ASSUME NEW blocks, IsHeap(blocks), NEW addr \in Addresses, NEW block \in BlockType
    PROVE  IsHeap(With(blocks, addr, block))
  BY DEF IsHeap, With

LEMMA WithoutIsHeap ==
    ASSUME NEW blocks, IsHeap(blocks), NEW addrs
    PROVE  IsHeap(Without(blocks, addrs))
  BY DEF IsHeap, Without

LEMMA BlockIsBlock ==
    ASSUME NEW size \in Nat, NEW holds \in Nat
    PROVE  /\ Block(size, holds) \in BlockType
           /\ Block(size, holds).size = size /\ Block(size, holds).holds = holds
  BY DEF Block, BlockType

(* Every size is a positive number. *)
LEMMA SizesPositive == \A size \in Sizes : size \in Nat /\ size > 0
  BY TileRecordsAssumption

LEMMA TailTypes ==
    /\ NoTail \in Tails
    /\ \A t \in Tails : t.stage \in {"none", "size", "content"} /\ t.numBytes \in Nat
    /\ \A t \in Tails : t.stage # "none" => t.numBytes \in Sizes
    /\ \A t \in Tails : t.stage = "none" => t = NoTail
    /\ NoTail.stage = "none"
  BY SizesPositive DEF Tails, NoTail

-----------------------------------------------------------------------------
LEMMA InitInv == Init => Inv
  <1> SUFFICES ASSUME Init PROVE Inv
    OBVIOUS
  <1>1. DOMAIN heap = {} /\ heap \in [DOMAIN heap -> [size : Nat, holds : Nat]]
    BY DEF Init
  <1>2. records \in Seq(Sizes) /\ Len(records) \in Nat
    BY TileRecordsAssumption DEF Init
  <1>3. TypeOK
    BY <1>1, <1>2, TailTypes DEF Init, TypeOK, Geometry
  <1>4. BlocksOwned
    BY <1>1 DEF Init, BlocksOwned, StreamBlock, LoadedBlocks
  <1>5. BlocksFit /\ StreamInv /\ LoaderInv
    BY <1>2 DEF Init, BlocksFit, StreamInv, LoaderInv
  <1>6. RecordsRead
    BY <1>2 DEF Init, RecordsRead
  <1>7. CrashInv /\ CrashExplained
    BY <1>2 DEF Init, CrashInv, CrashExplained
  <1> QED
    BY <1>3, <1>4, <1>5, <1>6, <1>7 DEF Inv

(* The tile writer only adds to the file, and a record that a reader is in *)
(* the middle of becomes the one that its size field has promised.         *)
LEMMA WriteGrows ==
    ASSUME Inv, Write
    PROVE  /\ records' \in Seq(Sizes) /\ tail' \in Tails
           /\ changes' \in Nat /\ changes' # 0
           /\ Len(records') \in Nat /\ Len(records') >= Len(records)
           /\ \A i \in 1 .. Len(records) : records'[i] = records[i]
           /\ tail.stage = "content" =>
                 Len(records') > Len(records) /\ records'[Len(records) + 1] = tail.numBytes
  <1>1. /\ records \in Seq(Sizes) /\ tail \in Tails /\ changes \in Nat /\ changes' = changes + 1
        /\ Len(records) \in Nat
    BY DEF Inv, TypeOK, Write
  <1>2. CASE BeginRecord
    <2>1. tail' \in Tails /\ records' = records /\ tail.stage # "content"
      BY <1>2, TailTypes DEF BeginRecord, Tails
    <2> QED
      BY <1>1, <2>1
  <1>3. CASE WriteContent
    <2>1. tail' \in Tails /\ records' = records /\ tail.stage # "content"
      BY <1>1, <1>3 DEF WriteContent, Tails, NoTail
    <2> QED
      BY <1>1, <2>1
  <1>4. CASE FinishRecord
    <2>1. tail' \in Tails /\ tail.numBytes \in Sizes /\ records' = Append(records, tail.numBytes)
      BY <1>1, <1>4, TailTypes DEF FinishRecord
    <2> QED
      BY <1>1, <2>1
  <1> QED
    BY <1>2, <1>3, <1>4 DEF Write

LEMMA WriteInv == ASSUME Inv, Write PROVE Inv'
  <1>1. UNCHANGED <<streamVars, loaderVars, heap>>
    BY DEF Write
  <1>2. Len(records) \in Nat /\ position \in 0 .. Len(records) /\ wholeRecords \in 0 .. Len(records)
    BY DEF Inv, TypeOK
  <1>3. TypeOK'
    <2>1. position \in 0 .. Len(records') /\ wholeRecords \in 0 .. Len(records')
      BY <1>2, WriteGrows
    <2>2. TypeOK
      BY DEF Inv
    <2> QED
      BY <1>1, <2>1, <2>2, WriteGrows DEF TypeOK, streamVars, loaderVars
  <1>4. BlocksOwned'
    BY <1>1 DEF Inv, BlocksOwned, StreamBlock, LoadedBlocks, streamVars, loaderVars
  <1>5. BlocksFit' /\ LoaderInv'
    BY <1>1 DEF Inv, BlocksFit, LoaderInv, streamVars, loaderVars
  <1>6. StreamInv'
    <2>1. pc = "readContent" =>
             IF position < Len(records')
             THEN lastReturnedGeometry.numBytes = records'[position + 1]
             ELSE tail'.stage = "content" /\ lastReturnedGeometry.numBytes = tail'.numBytes
      <3>1. CASE position < Len(records)
        BY <1>2, <3>1, WriteGrows DEF Inv, StreamInv
      <3>2. CASE position = Len(records)
        BY <1>2, <3>2, WriteGrows DEF Inv, StreamInv
      <3> QED
        BY <1>2, <3>1, <3>2
    <2>2. position > 0 => records'[position] = records[position]
      BY <1>2, WriteGrows
    <2> QED
      BY <1>1, <2>1, <2>2 DEF Inv, StreamInv, streamVars, loaderVars
  <1>7. RecordsRead'
    <2>1. \A i \in 1 .. position : records'[i] = records[i]
      BY <1>2, WriteGrows
    <2>2. DOMAIN loadedGeometries = 1 .. Len(loadedGeometries) /\ Len(loadedGeometries) \in Nat
      BY DEF Inv, TypeOK
    <2>3. \A i \in DOMAIN records : i \in DOMAIN records' /\ records'[i] = records[i]
      <3>1. DOMAIN records = 1 .. Len(records) /\ DOMAIN records' = 1 .. Len(records')
        BY WriteGrows DEF Inv, TypeOK
      <3>2. Len(records') \in Nat /\ Len(records') >= Len(records)
        BY WriteGrows
      <3>3. \A i \in 1 .. Len(records) : i \in 1 .. Len(records')
        BY <1>2, <3>2
      <3> QED
        BY <3>1, <3>3, WriteGrows, Zenon
    <2> QED
      BY <1>1, <2>1, <2>3 DEF Inv, RecordsRead, streamVars, loaderVars
  <1>8. CrashInv' /\ CrashExplained'
    BY WriteGrows DEF CrashInv, CrashExplained
  <1> QED
    BY <1>3, <1>4, <1>5, <1>6, <1>7, <1>8 DEF Inv

-----------------------------------------------------------------------------
(* The steps that leave all blocks alone. *)

LEMMA LookForRecordInv == ASSUME Inv, LookForRecord PROVE Inv'
  <1>1. /\ UNCHANGED <<fileVars, position, lastReturnedGeometry, streamed, refused,
                       loaderVars, heap>>
        /\ pc = "between" /\ pc' \in {"closed", "readSize"}
        /\ pc' = "readSize" /\ tail = NoTail => position # Len(records)
    BY DEF LookForRecord
  <1>2. TypeOK'
    BY <1>1 DEF Inv, TypeOK, fileVars, loaderVars
  <1>3. BlocksOwned' /\ BlocksFit' /\ LoaderInv'
    <2>1. BlocksOwned'
      BY <1>1 DEF Inv, BlocksOwned, StreamBlock, LoadedBlocks, loaderVars
    <2>2. BlocksFit' /\ LoaderInv'
      BY <1>1 DEF Inv, BlocksFit, LoaderInv, loaderVars
    <2> QED
      BY <2>1, <2>2
  <1>4. StreamInv' /\ RecordsRead'
    BY <1>1 DEF Inv, StreamInv, RecordsRead, fileVars, loaderVars
  <1>5. CrashInv' /\ CrashExplained'
    <2>1. position \in 0 .. Len(records) /\ Len(records) \in Nat
      BY DEF Inv, TypeOK
    <2> QED
      BY <1>1, <2>1 DEF Inv, CrashInv, CrashExplained, fileVars, loaderVars
  <1> QED
    BY <1>2, <1>3, <1>4, <1>5 DEF Inv

(* The number of records is a number, and so is the place in them. *)
LEMMA Places ==
    ASSUME Inv
    PROVE  /\ Len(records) \in Nat /\ position \in 0 .. Len(records)
           /\ wholeRecords \in 0 .. Len(records)
           /\ \A i \in 1 .. Len(records) : records[i] \in Sizes
           /\ DOMAIN loadedGeometries = 1 .. Len(loadedGeometries)
           /\ Len(loadedGeometries) \in 0 .. wholeRecords + 1
  BY DEF Inv, TypeOK, LoaderInv

(* The size ahead of the reader is that of a record, whole or not. *)
LEMMA SizeAheadIsSize == ASSUME Inv, SizeIsThere PROVE SizeAhead \in Sizes
  <1>1. tail.stage = "content" => tail.numBytes \in Sizes
    BY TailTypes DEF Inv, TypeOK
  <1>2. position < Len(records) => records[position + 1] \in Sizes
    BY Places
  <1> QED
    BY <1>1, <1>2 DEF SizeIsThere, SizeAhead

LEMMA RefuseSizeInv == ASSUME Inv, RefuseSize PROVE Inv'
  <1>1. /\ UNCHANGED <<fileVars, position, lastReturnedGeometry, streamed,
                       loaderVars, heap>>
        /\ pc = "readSize" /\ pc' = "crashed"
        /\ refused' = IF SizeIsThere THEN SizeAhead ELSE 0
        /\ ~ SizeIsThere \/ SizeAhead >= Limit
    BY DEF RefuseSize
  <1>2. refused' \in Nat
    BY <1>1, SizeAheadIsSize, SizesPositive
  <1>3. TypeOK'
    BY <1>1, <1>2 DEF Inv, TypeOK, fileVars, loaderVars
  <1>4. BlocksOwned' /\ BlocksFit' /\ LoaderInv'
    <2>1. BlocksOwned'
      BY <1>1 DEF Inv, BlocksOwned, StreamBlock, LoadedBlocks, loaderVars
    <2>2. BlocksFit' /\ LoaderInv'
      BY <1>1 DEF Inv, BlocksFit, LoaderInv, loaderVars
    <2> QED
      BY <2>1, <2>2
  <1>5. StreamInv' /\ RecordsRead'
    BY <1>1 DEF Inv, StreamInv, RecordsRead, fileVars, loaderVars
  <1>6. changes = 0 /\ tail = NoTail => refused' >= Limit
    BY <1>1 DEF Inv, CrashInv, SizeIsThere
  <1>7. CrashInv' /\ CrashExplained'
    BY <1>1, <1>6 DEF Inv, CrashInv, CrashExplained, fileVars, loaderVars
  <1> QED
    BY <1>3, <1>4, <1>5, <1>7 DEF Inv

LEMMA ReadContentFailsInv == ASSUME Inv, ReadContentFails PROVE Inv'
  <1>1. /\ UNCHANGED <<fileVars, position, lastReturnedGeometry, streamed, refused,
                       loaderVars, heap>>
        /\ pc = "readContent" /\ pc' = "crashed"
        /\ position >= Len(records)
    BY DEF ReadContentFails
  <1>2. TypeOK'
    BY <1>1 DEF Inv, TypeOK, fileVars, loaderVars
  <1>3. BlocksOwned' /\ BlocksFit' /\ LoaderInv'
    <2>1. BlocksOwned'
      BY <1>1 DEF Inv, BlocksOwned, StreamBlock, LoadedBlocks, loaderVars
    <2>2. BlocksFit' /\ LoaderInv'
      BY <1>1 DEF Inv, BlocksFit, LoaderInv, loaderVars
    <2> QED
      BY <2>1, <2>2
  <1>4. StreamInv' /\ RecordsRead'
    BY <1>1 DEF Inv, StreamInv, RecordsRead, fileVars, loaderVars
  <1>5. ~ (changes = 0 /\ tail = NoTail)
    BY <1>1, Places DEF Inv, CrashInv
  <1>6. CrashInv' /\ CrashExplained'
    BY <1>1, <1>5 DEF CrashInv, CrashExplained, fileVars
  <1> QED
    BY <1>2, <1>3, <1>4, <1>6 DEF Inv

LEMMA ReadFileInv == ASSUME Inv, ReadFile PROVE Inv'
  <1>1. /\ UNCHANGED <<fileVars, streamVars, loadedGeometries, heap>>
        /\ loaderPc = "opening" /\ loaderPc' = "loading"
        /\ wholeRecords' = Len(records) /\ cut' = tail
    BY DEF ReadFile
  <1>2. wholeRecords' \in 0 .. Len(records) /\ cut' \in Tails
    BY <1>1, Places, TailTypes DEF Inv, TypeOK
  <1>3. TypeOK'
    BY <1>1, <1>2 DEF Inv, TypeOK, fileVars, streamVars
  <1>4. BlocksOwned' /\ BlocksFit'
    <2>1. UNCHANGED <<pc, lastReturnedGeometry, loadedGeometries, heap>>
      BY <1>1, Zenon DEF streamVars
    <2>2. BlocksOwned'
      BY <2>1 DEF Inv, BlocksOwned, StreamBlock, LoadedBlocks
    <2>3. BlocksFit'
      BY <2>1, Zenon DEF Inv, BlocksFit
    <2>4. QED
      BY <2>2, <2>3
  <1>5. StreamInv'
    BY <1>1 DEF Inv, StreamInv, fileVars, streamVars
  <1>6. LoaderInv' /\ RecordsRead'
    <2>1. Len(loadedGeometries) <= wholeRecords
      BY <1>1, Places DEF Inv, LoaderInv
    <2>2. \A i \in DOMAIN loadedGeometries : i <= wholeRecords
      BY <2>1, Places
    <2>3. LoaderInv'
      BY <1>1, <2>1, Places DEF LoaderInv
    <2> QED
      BY <1>1, <2>2, <2>3 DEF Inv, RecordsRead, fileVars, streamVars
  <1>7. CrashInv' /\ CrashExplained'
    BY <1>1, TailTypes DEF Inv, CrashInv, CrashExplained, fileVars, streamVars
  <1> QED
    BY <1>3, <1>4, <1>5, <1>6, <1>7 DEF Inv

LEMMA FinishLoadingInv == ASSUME Inv, FinishLoading PROVE Inv'
  <1>1. /\ UNCHANGED <<fileVars, streamVars, wholeRecords, cut, loadedGeometries, heap>>
        /\ loaderPc = "loading" /\ AllLoaded
        /\ loaderPc' = IF Len(loadedGeometries) = wholeRecords THEN "open" ELSE "crashed"
    BY DEF FinishLoading
  <1>2. TypeOK'
    BY <1>1 DEF Inv, TypeOK, fileVars, streamVars
  <1>3. BlocksOwned' /\ BlocksFit'
    <2>1. BlocksOwned'
      BY <1>1 DEF Inv, BlocksOwned, StreamBlock, LoadedBlocks, streamVars
    <2>2. BlocksFit'
      BY <1>1 DEF Inv, BlocksFit, streamVars
    <2> QED
      BY <2>1, <2>2
  <1>4. LoaderInv'
    BY <1>1, Places DEF Inv, LoaderInv
  <1>5. StreamInv' /\ RecordsRead'
    <2>1. loaderPc' = "open" => \A i \in DOMAIN loadedGeometries : i <= wholeRecords
      BY <1>1, Places
    <2> QED
      BY <1>1, <2>1 DEF Inv, StreamInv, RecordsRead, fileVars, streamVars
  <1>6. changes = 0 /\ tail = NoTail => loaderPc' # "crashed"
    BY <1>1 DEF Inv, CrashInv, LoaderInv, AllLoaded
  <1>7. CrashInv' /\ CrashExplained'
    BY <1>1, <1>6 DEF Inv, CrashInv, CrashExplained, fileVars, streamVars
  <1> QED
    BY <1>2, <1>3, <1>4, <1>5, <1>7 DEF Inv

-----------------------------------------------------------------------------
(* The steps that change blocks.  Whose block is not concerned keeps it as *)
(* it is, because no two geometries share one.                             *)
LEMMA Apart ==
    ASSUME Inv
    PROVE  /\ IsHeap(heap) /\ nullptr \notin DOMAIN heap
           /\ lastReturnedGeometry.bytes # nullptr =>
                 lastReturnedGeometry.bytes \in DOMAIN heap
           /\ \A i \in DOMAIN loadedGeometries :
                 /\ loadedGeometries[i].bytes \in DOMAIN heap
                 /\ loadedGeometries[i].bytes # lastReturnedGeometry.bytes
  <1>1. IsHeap(heap) /\ nullptr \notin DOMAIN heap
    BY TileRecordsAssumption DEF Inv, TypeOK, IsHeap, BlockType
  <1>2. /\ StreamBlock \subseteq DOMAIN heap /\ LoadedBlocks \subseteq DOMAIN heap
        /\ StreamBlock \cap LoadedBlocks = {}
    BY DEF Inv, BlocksOwned
  <1>3. /\ \A i \in DOMAIN loadedGeometries : loadedGeometries[i].bytes \in LoadedBlocks
        /\ lastReturnedGeometry.bytes # nullptr => lastReturnedGeometry.bytes \in StreamBlock
    BY DEF StreamBlock, LoadedBlocks
  <1> QED
    BY <1>1, <1>2, <1>3

(* The invariants of geometries whose blocks stay as they are. *)
LEMMA LoadedStay ==
    ASSUME Inv, UNCHANGED loadedGeometries,
           \A i \in DOMAIN loadedGeometries :
              heap'[loadedGeometries[i].bytes] = heap[loadedGeometries[i].bytes]
    PROVE  /\ \A i \in DOMAIN loadedGeometries' :
                 loadedGeometries'[i].numBytes <= heap'[loadedGeometries'[i].bytes].size
           /\ \A i \in DOMAIN loadedGeometries' :
                 i <= wholeRecords \/ loaderPc = "open" =>
                    heap'[loadedGeometries'[i].bytes].holds = i
  BY DEF Inv, BlocksFit, RecordsRead

LEMMA ReadSizeInv == ASSUME Inv, ReadSize PROVE Inv'
  <1> DEFINE geom == lastReturnedGeometry
  <1>1. /\ UNCHANGED <<fileVars, position, streamed, refused, loaderVars>>
        /\ pc = "readSize" /\ pc' = "readContent"
        /\ SizeIsThere /\ SizeAhead < Limit
    BY DEF ReadSize
  <1>2. SizeAhead \in Sizes /\ SizeAhead \in Nat /\ SizeAhead > 0
    BY <1>1, SizeAheadIsSize, SizesPositive
  <1>3. geom \in [numBytes : Nat, numBytesAllocated : Nat, bytes : Addresses \cup {nullptr}]
    BY DEF Inv, TypeOK
  (* Either way the geometry has a block that is large enough, and the     *)
  (* others have theirs.                                                   *)
  <1>4. /\ lastReturnedGeometry' \in [numBytes : Nat, numBytesAllocated : Nat,
                                      bytes : Addresses \cup {nullptr}]
        /\ lastReturnedGeometry'.bytes # nullptr
        /\ lastReturnedGeometry'.numBytes = SizeAhead
        /\ SizeAhead <= lastReturnedGeometry'.numBytesAllocated
        /\ heap'[lastReturnedGeometry'.bytes].size = lastReturnedGeometry'.numBytesAllocated
        /\ lastReturnedGeometry'.bytes \notin DOMAIN heap \ {geom.bytes}
        /\ DOMAIN heap' = (DOMAIN heap \ {geom.bytes}) \cup {lastReturnedGeometry'.bytes}
        /\ \A a \in DOMAIN heap \ {geom.bytes} : heap'[a] = heap[a]
        /\ IsHeap(heap')
    <2>1. CASE NeedsBlock(TRUE, SizeAhead)
      <3> DEFINE others == Without(heap, {geom.bytes})
      <3>1. PICK addr \in Free(others) :
               /\ heap' = With(others, addr, Block(SizeAhead, 0))
               /\ lastReturnedGeometry' =
                     [numBytes |-> SizeAhead, numBytesAllocated |-> SizeAhead, bytes |-> addr]
        BY <2>1 DEF ReadSize
      <3>2. /\ DOMAIN others = DOMAIN heap \ {geom.bytes}
            /\ \A a \in DOMAIN heap \ {geom.bytes} : others[a] = heap[a]
            /\ IsHeap(others)
        BY WithoutFacts, WithoutIsHeap, Apart
      <3>3. addr \in Addresses /\ addr \notin DOMAIN others /\ addr # nullptr
        BY <3>1, TileRecordsAssumption DEF Free
      <3>4. Block(SizeAhead, 0) \in BlockType /\ Block(SizeAhead, 0).size = SizeAhead
        BY <1>2, BlockIsBlock
      <3> HIDE DEF others
      <3>5. /\ DOMAIN heap' = DOMAIN others \cup {addr}
            /\ heap'[addr] = Block(SizeAhead, 0)
            /\ \A a \in DOMAIN others : a # addr => heap'[a] = others[a]
        <4>1. heap' = With(others, addr, Block(SizeAhead, 0))
          BY <3>1
        <4> QED
          BY <4>1 DEF With
      <3>6. IsHeap(heap')
        BY <3>1, <3>2, <3>3, <3>4, WithIsHeap
      <3> QED
        BY <1>2, <3>1, <3>2, <3>3, <3>4, <3>5, <3>6
    <2>2. CASE ~ NeedsBlock(TRUE, SizeAhead)
      <3>1. /\ lastReturnedGeometry' = [geom EXCEPT !.numBytes = SizeAhead]
            /\ UNCHANGED heap
        BY <2>2 DEF ReadSize
      <3>2. SizeAhead <= geom.numBytesAllocated
        BY <1>2, <1>3, <2>2 DEF NeedsBlock
      <3>3. geom.bytes # nullptr
        BY <1>1, <1>2, <3>2 DEF Inv, BlocksFit
      <3>4. heap[geom.bytes].size = geom.numBytesAllocated
        BY <3>3 DEF Inv, BlocksFit
      <3>5. IsHeap(heap) /\ geom.bytes \in DOMAIN heap
        BY <3>3, Apart
      <3> QED
        BY <1>2, <1>3, <3>1, <3>2, <3>3, <3>4, <3>5
    <2> QED
      BY <2>1, <2>2
  <1> HIDE DEF geom
  <1>5. TypeOK'
    <2>1. TypeOK
      BY DEF Inv
    <2> QED
      BY <1>1, <1>4, <2>1 DEF TypeOK, fileVars, loaderVars, IsHeap, BlockType
  <1>6. BlocksOwned'
    <2>1. /\ LoadedBlocks' = LoadedBlocks
          /\ StreamBlock' = {lastReturnedGeometry'.bytes}
      BY <1>1, <1>4 DEF LoadedBlocks, StreamBlock, loaderVars
    <2>2. LoadedBlocks \subseteq DOMAIN heap \ {geom.bytes}
      BY Apart DEF LoadedBlocks, geom
    <2>3. DOMAIN heap \ {geom.bytes} = LoadedBlocks
      BY <2>2 DEF Inv, BlocksOwned, StreamBlock, geom
    <2>4. UNCHANGED loadedGeometries
      BY <1>1 DEF loaderVars
    <2>5. /\ DOMAIN heap' = StreamBlock' \cup LoadedBlocks'
          /\ StreamBlock' \cap LoadedBlocks' = {}
      BY <1>4, <2>1, <2>2, <2>3 DEF Inv, BlocksOwned
    <2> QED
      BY <2>4, <2>5 DEF Inv, BlocksOwned
  <1>7. UNCHANGED <<loadedGeometries, records, tail, changes, position>>
    BY <1>1 DEF loaderVars, fileVars
  <1>8. /\ \A i \in DOMAIN loadedGeometries :
              heap'[loadedGeometries[i].bytes] = heap[loadedGeometries[i].bytes]
    BY <1>4, Apart DEF geom
  <1>9. BlocksFit'
    BY <1>4, <1>7, <1>8, LoadedStay DEF BlocksFit
  <1>10. StreamInv'
    <2>1. IF position < Len(records) THEN SizeAhead = records[position + 1]
          ELSE tail.stage = "content" /\ SizeAhead = tail.numBytes
      BY <1>1 DEF SizeAhead, SizeIsThere
    <2> QED
      BY <1>1, <1>4, <1>7, <2>1 DEF StreamInv
  <1>11. RecordsRead'
    <2>1. UNCHANGED <<streamed, loaderPc, wholeRecords, cut>>
      BY <1>1 DEF loaderVars
    <2> QED
      BY <1>7, <1>8, <2>1 DEF Inv, RecordsRead
  <1>12. LoaderInv' /\ CrashInv' /\ CrashExplained'
    BY <1>1 DEF Inv, LoaderInv, CrashInv, CrashExplained, fileVars, loaderVars
  <1> QED
    BY <1>5, <1>6, <1>9, <1>10, <1>11, <1>12 DEF Inv

(* Reading into the block that init() has kept or allocated changes what   *)
(* it holds; it belongs to no other geometry.                              *)
LEMMA ReadContentInv == ASSUME Inv, ReadContent PROVE Inv'
  <1> DEFINE addr == lastReturnedGeometry.bytes
  <1>1. /\ UNCHANGED <<fileVars, lastReturnedGeometry, refused, loaderVars>>
        /\ pc = "readContent" /\ pc' = "between"
        /\ position < Len(records) /\ position' = position + 1
        /\ streamed' = Append(streamed, lastReturnedGeometry.numBytes)
        /\ heap' = [heap EXCEPT ![addr].holds = position + 1]
    BY DEF ReadContent
  <1>2. /\ addr # nullptr /\ addr \in DOMAIN heap /\ IsHeap(heap)
        /\ lastReturnedGeometry.numBytes = records[position + 1]
    BY <1>1, Apart DEF Inv, StreamInv
  <1>3. /\ position \in Nat /\ position + 1 \in 1 .. Len(records)
        /\ records[position + 1] \in Sizes
    BY <1>1, Places
  <1>4. /\ IsHeap(heap') /\ DOMAIN heap' = DOMAIN heap
        /\ heap'[addr].holds = position + 1 /\ heap'[addr].size = heap[addr].size
        /\ \A a \in DOMAIN heap : a # addr => heap'[a] = heap[a]
    <2>1. heap' = [heap EXCEPT ![addr].holds = position + 1]
      BY <1>1
    <2> HIDE DEF addr
    <2> QED
      BY <1>2, <1>3, <2>1 DEF IsHeap, BlockType
  <1>5. streamed \in Seq(Sizes) /\ Len(streamed) = position
    BY DEF Inv, TypeOK, RecordsRead
  <1>6. /\ streamed' \in Seq(Sizes) /\ Len(streamed') = position + 1
        /\ \A i \in 1 .. position : streamed'[i] = streamed[i]
        /\ streamed'[position + 1] = records[position + 1]
    BY <1>1, <1>2, <1>3, <1>5
  <1>7. UNCHANGED <<loadedGeometries, records, tail, changes, lastReturnedGeometry>>
    BY <1>1 DEF loaderVars, fileVars
  <1>8. /\ \A i \in DOMAIN loadedGeometries :
              heap'[loadedGeometries[i].bytes] = heap[loadedGeometries[i].bytes]
    BY <1>4, Apart
  <1> HIDE DEF addr
  <1>9. TypeOK'
    <2>1. TypeOK
      BY DEF Inv
    <2>2. position' \in 0 .. Len(records)
      BY <1>1, <1>3
    <2> QED
      BY <1>1, <1>4, <1>6, <2>1, <2>2 DEF TypeOK, fileVars, loaderVars, IsHeap, BlockType
  <1>10. BlocksOwned'
    BY <1>4, <1>7 DEF Inv, BlocksOwned, StreamBlock, LoadedBlocks
  <1>11. BlocksFit'
    <2>1. lastReturnedGeometry.bytes # nullptr =>
             /\ lastReturnedGeometry.numBytes <= lastReturnedGeometry.numBytesAllocated
             /\ heap'[lastReturnedGeometry.bytes].size = lastReturnedGeometry.numBytesAllocated
      BY <1>4 DEF Inv, BlocksFit, addr
    <2> QED
      BY <1>2, <1>7, <1>8, <2>1, LoadedStay DEF BlocksFit, addr
  <1>12. StreamInv'
    BY <1>1, <1>2, <1>4, <1>7 DEF StreamInv, addr
  <1>13. RecordsRead'
    <2>1. UNCHANGED <<loaderPc, wholeRecords, cut>>
      BY <1>1 DEF loaderVars
    <2>2. Len(streamed') = position' /\ \A i \in 1 .. position' : streamed'[i] = records[i]
      <3>1. \A i \in 1 .. position : streamed[i] = records[i]
        BY DEF Inv, RecordsRead
      <3>2. position' = position + 1
        BY <1>1
      <3> QED
        BY <1>3, <1>6, <3>1, <3>2
    <2>3. \A i \in DOMAIN loadedGeometries :
             i <= wholeRecords \/ loaderPc = "open" =>
                i \in DOMAIN records /\ loadedGeometries[i].numBytes = records[i]
      BY DEF Inv, RecordsRead
    <2> QED
      BY <1>7, <1>8, <2>1, <2>2, <2>3, LoadedStay DEF RecordsRead
  <1>14. LoaderInv' /\ CrashInv' /\ CrashExplained'
    BY <1>1 DEF Inv, LoaderInv, CrashInv, CrashExplained, fileVars, loaderVars
  <1> QED
    BY <1>9, <1>10, <1>11, <1>12, <1>13, <1>14 DEF Inv

LEMMA DestroyStreamInv == ASSUME Inv, DestroyStream PROVE Inv'
  <1> DEFINE addr == lastReturnedGeometry.bytes
  <1>1. /\ UNCHANGED <<fileVars, position, streamed, refused, loaderVars>>
        /\ pc' = "destroyed"
        /\ lastReturnedGeometry' = [lastReturnedGeometry EXCEPT !.bytes = nullptr]
        /\ heap' = Without(heap, {addr})
    BY DEF DestroyStream
  <1>2. lastReturnedGeometry \in [numBytes : Nat, numBytesAllocated : Nat,
                                  bytes : Addresses \cup {nullptr}]
    BY DEF Inv, TypeOK
  <1>3. /\ lastReturnedGeometry' \in [numBytes : Nat, numBytesAllocated : Nat,
                                      bytes : Addresses \cup {nullptr}]
        /\ lastReturnedGeometry'.bytes = nullptr
    BY <1>1, <1>2
  <1>4. /\ IsHeap(heap') /\ DOMAIN heap' = DOMAIN heap \ {addr}
        /\ \A a \in DOMAIN heap \ {addr} : heap'[a] = heap[a]
    <2>1. heap' = Without(heap, {addr}) /\ IsHeap(heap)
      BY <1>1, Apart
    <2> HIDE DEF addr
    <2> QED
      BY <2>1, WithoutIsHeap DEF Without
  <1>5. UNCHANGED <<loadedGeometries, records, tail, changes, position>>
    BY <1>1 DEF loaderVars, fileVars
  <1>6. /\ \A i \in DOMAIN loadedGeometries :
              heap'[loadedGeometries[i].bytes] = heap[loadedGeometries[i].bytes]
    BY <1>4, Apart
  <1> HIDE DEF addr
  <1>7. TypeOK'
    <2>1. TypeOK
      BY DEF Inv
    <2> QED
      BY <1>1, <1>3, <1>4, <2>1 DEF TypeOK, fileVars, loaderVars, IsHeap, BlockType
  <1>8. BlocksOwned'
    <2>1. LoadedBlocks' = LoadedBlocks /\ StreamBlock' = {}
      BY <1>3, <1>5 DEF LoadedBlocks, StreamBlock
    <2>2. LoadedBlocks \subseteq DOMAIN heap \ {addr}
      BY Apart DEF LoadedBlocks, addr
    <2>3. DOMAIN heap \ {addr} = LoadedBlocks
      BY <2>2 DEF Inv, BlocksOwned, StreamBlock, addr
    <2>4. /\ DOMAIN heap' = StreamBlock' \cup LoadedBlocks'
          /\ StreamBlock' \cap LoadedBlocks' = {}
      BY <1>4, <2>1, <2>2, <2>3 DEF Inv, BlocksOwned
    <2> QED
      BY <1>5, <2>4 DEF Inv, BlocksOwned
  <1>9. BlocksFit'
    BY <1>1, <1>3, <1>5, <1>6, LoadedStay DEF BlocksFit
  <1>10. StreamInv'
    BY <1>1 DEF StreamInv
  <1>11. RecordsRead'
    <2>1. UNCHANGED <<streamed, loaderPc, wholeRecords, cut>>
      BY <1>1 DEF loaderVars
    <2> QED
      BY <1>5, <1>6, <2>1 DEF Inv, RecordsRead
  <1>12. LoaderInv' /\ CrashInv' /\ CrashExplained'
    BY <1>1 DEF Inv, LoaderInv, CrashInv, CrashExplained, fileVars, loaderVars
  <1> QED
    BY <1>7, <1>8, <1>9, <1>10, <1>11, <1>12 DEF Inv

(* A geometry is added, of whatever it holds, in a block of its own.       *)
LEMMA GeometryAdded ==
    ASSUME Inv, NEW addr \in Free(heap), NEW size \in Nat, NEW holds \in Nat,
           loadedGeometries' = Append(loadedGeometries, [numBytes |-> size, bytes |-> addr]),
           heap' = With(heap, addr, Block(size, holds)),
           UNCHANGED <<fileVars, streamVars, loaderPc, wholeRecords, cut>>,
           NEW k, k = Len(loadedGeometries) + 1
    PROVE  /\ TypeOK' /\ BlocksOwned' /\ BlocksFit' /\ StreamInv'
           /\ Len(loadedGeometries') = k
           /\ DOMAIN loadedGeometries' = 1 .. k /\ DOMAIN loadedGeometries = 1 .. (k - 1)
           /\ loadedGeometries'[k].numBytes = size
           /\ heap'[loadedGeometries'[k].bytes].holds = holds
           /\ \A i \in DOMAIN loadedGeometries :
                 /\ loadedGeometries'[i] = loadedGeometries[i]
                 /\ heap'[loadedGeometries'[i].bytes] = heap[loadedGeometries[i].bytes]
           /\ UNCHANGED <<records, tail, changes, position, pc, streamed, refused>>
  <1>1. k = Len(loadedGeometries) + 1
    OBVIOUS
  <1>3. k \in Nat \ {0} /\ loadedGeometries \in Seq(Geometry)
    BY DEF Inv, TypeOK
  <1>4. addr \in Addresses /\ addr \notin DOMAIN heap
    BY DEF Free
  <1> DEFINE geom == [numBytes |-> size, bytes |-> addr]
  <1>5. geom \in Geometry /\ geom.numBytes = size /\ geom.bytes = addr
    BY <1>3, <1>4 DEF Geometry
  <1>6. loadedGeometries' = Append(loadedGeometries, geom)
    OBVIOUS
  <1> HIDE DEF geom
  <1>9. /\ loadedGeometries' \in Seq(Geometry) /\ Len(loadedGeometries') = k
        /\ DOMAIN loadedGeometries' = 1 .. k /\ DOMAIN loadedGeometries = 1 .. (k - 1)
        /\ loadedGeometries'[k] = geom
        /\ \A i \in DOMAIN loadedGeometries : loadedGeometries'[i] = loadedGeometries[i]
    BY <1>1, <1>3, <1>5, <1>6
  <1>10. /\ IsHeap(heap') /\ DOMAIN heap' = DOMAIN heap \cup {addr}
         /\ heap'[addr].size = size /\ heap'[addr].holds = holds
         /\ \A a \in DOMAIN heap : heap'[a] = heap[a]
    <2>1. /\ Block(size, holds) \in BlockType
          /\ Block(size, holds).size = size /\ Block(size, holds).holds = holds
      BY BlockIsBlock
    <2>2. IsHeap(heap')
      BY <1>4, <2>1, Apart, WithIsHeap
    <2>3. /\ DOMAIN heap' = DOMAIN heap \cup {addr}
          /\ heap'[addr] = Block(size, holds)
          /\ \A a \in DOMAIN heap : heap'[a] = heap[a]
      BY <1>4 DEF With
    <2> QED
      BY <2>1, <2>2, <2>3
  <1>11. UNCHANGED <<records, tail, changes, position, lastReturnedGeometry, pc, cut,
                     loaderPc, wholeRecords, streamed, refused>>
    BY DEF fileVars, streamVars
  <1>12. /\ \A i \in DOMAIN loadedGeometries :
               /\ heap'[loadedGeometries[i].bytes] = heap[loadedGeometries[i].bytes]
               /\ loadedGeometries[i].bytes # addr
         /\ lastReturnedGeometry.bytes # nullptr =>
               heap'[lastReturnedGeometry.bytes] = heap[lastReturnedGeometry.bytes]
    BY <1>4, <1>10, Apart
  <1>13. TypeOK'
    <2>1. TypeOK
      BY DEF Inv
    <2> QED
      BY <1>9, <1>10, <1>11, <2>1 DEF TypeOK, IsHeap, BlockType
  <1>14. BlocksOwned'
    <2>1. StreamBlock' = StreamBlock
      BY <1>11 DEF StreamBlock
    <2>2. LoadedBlocks' = LoadedBlocks \cup {addr}
      <3>1. LoadedBlocks' = {loadedGeometries'[i].bytes : i \in 1 .. k}
        BY <1>9 DEF LoadedBlocks
      <3>2. LoadedBlocks = {loadedGeometries[i].bytes : i \in 1 .. (k - 1)}
        BY <1>9 DEF LoadedBlocks
      <3>3. \A i \in 1 .. (k - 1) : loadedGeometries'[i].bytes = loadedGeometries[i].bytes
        BY <1>9
      <3>4. loadedGeometries'[k].bytes = addr
        BY <1>5, <1>9
      <3>5. \A i \in 1 .. k : i = k \/ i \in 1 .. (k - 1)
        BY <1>3
      <3>6. 1 .. (k - 1) \subseteq 1 .. k /\ k \in 1 .. k
        BY <1>3
      <3> QED
        BY <3>1, <3>2, <3>3, <3>4, <3>5, <3>6
    <2>3. /\ DOMAIN heap = StreamBlock \cup LoadedBlocks
          /\ StreamBlock \cap LoadedBlocks = {}
      BY DEF Inv, BlocksOwned
    <2>4. /\ DOMAIN heap' = StreamBlock' \cup LoadedBlocks'
          /\ StreamBlock' \cap LoadedBlocks' = {}
      BY <1>4, <1>10, <2>1, <2>2, <2>3
    <2>5. \A i, j \in DOMAIN loadedGeometries' :
             loadedGeometries'[i].bytes = loadedGeometries'[j].bytes => i = j
      <3>1. \A i, j \in DOMAIN loadedGeometries :
               loadedGeometries[i].bytes = loadedGeometries[j].bytes => i = j
        BY DEF Inv, BlocksOwned
      <3>2. \A i \in DOMAIN loadedGeometries' : i = k \/ i \in DOMAIN loadedGeometries
        BY <1>3, <1>9
      <3> QED
        BY <1>5, <1>9, <1>12, <3>1, <3>2
    <2> QED
      BY <1>11, <2>4, <2>5 DEF Inv, BlocksOwned
  <1>15. \A i \in DOMAIN loadedGeometries' : i = k \/ i \in DOMAIN loadedGeometries
    BY <1>3, <1>9
  <1>16. BlocksFit'
    <2>1. \A i \in DOMAIN loadedGeometries :
             loadedGeometries[i].numBytes <= heap[loadedGeometries[i].bytes].size
      BY DEF Inv, BlocksFit
    <2>2. \A i \in DOMAIN loadedGeometries' :
             loadedGeometries'[i].numBytes <= heap'[loadedGeometries'[i].bytes].size
      BY <1>3, <1>5, <1>9, <1>10, <1>12, <1>15, <2>1
    <2>3. BlocksFit
      BY DEF Inv
    <2> QED
      BY <1>11, <1>12, <2>2, <2>3 DEF BlocksFit
  <1>17. StreamInv'
    BY <1>11, <1>12 DEF Inv, StreamInv
  <1> QED
    BY <1>1, <1>5, <1>9, <1>10, <1>11, <1>12, <1>13, <1>14, <1>16, <1>17 DEF geom

LEMMA LoadRecordInv == ASSUME Inv, LoadRecord PROVE Inv'
  <1> DEFINE k == Len(loadedGeometries) + 1
  <1>1. /\ UNCHANGED <<fileVars, streamVars, loaderPc, wholeRecords, cut>>
        /\ loaderPc = "loading" /\ Len(loadedGeometries) < wholeRecords
    BY DEF LoadRecord
  <1>2. PICK addr \in Free(heap) :
           /\ loadedGeometries' = Append(loadedGeometries, [numBytes |-> records[k], bytes |-> addr])
           /\ heap' = With(heap, addr, Block(records[k], k))
    BY DEF LoadRecord
  <1>3. /\ k \in DOMAIN records /\ k \in Nat /\ k <= wholeRecords /\ wholeRecords \in Nat
        /\ records[k] \in Nat
    BY <1>1, Places, SizesPositive DEF Inv, TypeOK
  <1>4. k = Len(loadedGeometries) + 1
    OBVIOUS
  <1> HIDE DEF k
  <1>5. /\ TypeOK' /\ BlocksOwned' /\ BlocksFit' /\ StreamInv'
        /\ Len(loadedGeometries') = k
        /\ DOMAIN loadedGeometries' = 1 .. k /\ DOMAIN loadedGeometries = 1 .. (k - 1)
        /\ loadedGeometries'[k].numBytes = records[k]
        /\ heap'[loadedGeometries'[k].bytes].holds = k
        /\ \A i \in DOMAIN loadedGeometries :
              /\ loadedGeometries'[i] = loadedGeometries[i]
              /\ heap'[loadedGeometries'[i].bytes] = heap[loadedGeometries[i].bytes]
        /\ UNCHANGED <<records, tail, changes, position, pc, streamed, refused>>
    BY <1>1, <1>2, <1>3, <1>4, GeometryAdded
  <1>6. RecordsRead'
    <2>1. \A i \in DOMAIN loadedGeometries' : i = k \/ i \in DOMAIN loadedGeometries
      BY <1>3, <1>5
    <2>2. RecordsRead
      BY DEF Inv
    <2>3. \A i \in DOMAIN loadedGeometries' :
             i <= wholeRecords \/ loaderPc = "open" =>
                /\ i \in DOMAIN records /\ loadedGeometries'[i].numBytes = records[i]
                /\ heap'[loadedGeometries'[i].bytes].holds = i
      BY <1>3, <1>5, <2>1, <2>2 DEF RecordsRead
    <2> QED
      BY <1>1, <1>5, <2>2, <2>3 DEF RecordsRead
  <1>7. LoaderInv'
    BY <1>1, <1>3, <1>5 DEF LoaderInv
  <1>8. CrashInv' /\ CrashExplained'
    BY <1>1, <1>5 DEF Inv, CrashInv, CrashExplained
  <1> QED
    BY <1>5, <1>6, <1>7, <1>8 DEF Inv

(* The geometry beyond the data is one too many, which the assertion sees. *)
LEMMA LoadCutInv == ASSUME Inv, LoadCut PROVE Inv'
  <1> DEFINE k == Len(loadedGeometries) + 1
  <1>1. /\ UNCHANGED <<fileVars, streamVars, wholeRecords, cut>>
        /\ loaderPc = "loading" /\ Len(loadedGeometries) = wholeRecords /\ cut # NoTail
    BY DEF LoadCut
  <1>2. CASE loaderPc' = "crashed" /\ UNCHANGED <<loadedGeometries, heap>>
    <2>1. UNCHANGED <<records, tail, changes, pc, position, lastReturnedGeometry, streamed,
                      refused, wholeRecords, cut, loadedGeometries, heap>>
      BY <1>1, <1>2 DEF fileVars, streamVars
    <2>2. TypeOK' /\ BlocksFit' /\ StreamInv'
      BY <1>2, <2>1 DEF Inv, TypeOK, BlocksFit, StreamInv
    <2>3. BlocksOwned'
      BY <2>1 DEF Inv, BlocksOwned, StreamBlock, LoadedBlocks
    <2>4. RecordsRead' /\ LoaderInv'
      BY <1>1, <1>2, <2>1 DEF Inv, RecordsRead, LoaderInv
    <2>5. CrashInv' /\ CrashExplained'
      BY <1>1, <1>2, <2>1 DEF Inv, CrashInv, CrashExplained
    <2> QED
      BY <2>2, <2>3, <2>4, <2>5 DEF Inv
  <1>3. CASE ~ (loaderPc' = "crashed" /\ UNCHANGED <<loadedGeometries, heap>>)
    <2>1. PICK size \in IF cut.stage = "content" THEN {cut.numBytes} ELSE Sizes :
             \E addr \in Free(heap) :
                /\ loadedGeometries' =
                      Append(loadedGeometries, [numBytes |-> size, bytes |-> addr])
                /\ heap' = With(heap, addr, Block(size, 0))
      BY <1>3 DEF LoadCut
    <2>2. PICK addr \in Free(heap) :
             /\ loadedGeometries' =
                   Append(loadedGeometries, [numBytes |-> size, bytes |-> addr])
             /\ heap' = With(heap, addr, Block(size, 0))
      BY <2>1
    <2>3. loaderPc' = loaderPc
      BY <1>3 DEF LoadCut
    <2>4. size \in Nat
      BY <2>1, TailTypes, SizesPositive DEF Inv, TypeOK
    <2>5. k = Len(loadedGeometries) + 1
      OBVIOUS
    <2>6. wholeRecords \in Nat /\ k = wholeRecords + 1 /\ k - 1 = wholeRecords
      BY <1>1, Places
    <2> HIDE DEF k
    <2>7. /\ TypeOK' /\ BlocksOwned' /\ BlocksFit' /\ StreamInv'
          /\ Len(loadedGeometries') = k
          /\ DOMAIN loadedGeometries' = 1 .. k /\ DOMAIN loadedGeometries = 1 .. (k - 1)
          /\ \A i \in DOMAIN loadedGeometries :
                /\ loadedGeometries'[i] = loadedGeometries[i]
                /\ heap'[loadedGeometries'[i].bytes] = heap[loadedGeometries[i].bytes]
          /\ UNCHANGED <<records, tail, changes, position, pc, streamed, refused>>
      <3>1. UNCHANGED <<fileVars, streamVars, loaderPc, wholeRecords, cut>> /\ 0 \in Nat
        BY <1>1, <2>3
      <3> QED
        BY <2>2, <2>4, <2>5, <3>1, GeometryAdded
    <2>8. RecordsRead'
      <3>1. \A i \in DOMAIN loadedGeometries' : i <= wholeRecords => i \in DOMAIN loadedGeometries
        BY <2>6, <2>7
      <3> QED
        BY <1>1, <2>3, <2>7, <3>1 DEF Inv, RecordsRead
    <2>9. LoaderInv'
      BY <1>1, <2>3, <2>6, <2>7 DEF LoaderInv
    <2>10. CrashInv' /\ CrashExplained'
      BY <1>1, <2>3, <2>7 DEF Inv, CrashInv, CrashExplained
    <2> QED
      BY <2>7, <2>8, <2>9, <2>10 DEF Inv
  <1> QED
    BY <1>2, <1>3

(* What pop_back() leaves. *)
LEMMA WithoutLast ==
    ASSUME NEW S, NEW seq \in Seq(S), seq # <<>>
    PROVE  LET front == SubSeq(seq, 1, Len(seq) - 1)
           IN  /\ front \in Seq(S) /\ Len(front) = Len(seq) - 1
               /\ \A i \in 1 .. (Len(seq) - 1) : front[i] = seq[i]
  <1> DEFINE len == Len(seq) - 1
  <1>1. Len(seq) \in Nat /\ Len(seq) > 0
    OBVIOUS
  <1>2. 1 \in 1 .. (Len(seq) + 1) /\ len \in (1 - 1) .. Len(seq) /\ len - 1 + 1 = len
    BY <1>1
  <1>3. /\ SubSeq(seq, 1, len) \in Seq(S) /\ Len(SubSeq(seq, 1, len)) = len - 1 + 1
        /\ \A i \in 1 .. (len - 1 + 1) : SubSeq(seq, 1, len)[i] = seq[1 + i - 1]
    BY <1>2, SubSeqProperties
  <1>4. \A i \in 1 .. len : 1 + i - 1 = i
    OBVIOUS
  <1> QED
    BY <1>2, <1>3, <1>4

LEMMA TakeLastInv == ASSUME Inv, TakeLast PROVE Inv'
  <1> DEFINE last == Len(loadedGeometries)
             addr == loadedGeometries[last].bytes
  <1>1. /\ UNCHANGED <<fileVars, streamVars, loaderPc, wholeRecords, cut>>
        /\ loadedGeometries # <<>> /\ loaderPc = "open"
        /\ heap' = Without(heap, {addr})
        /\ loadedGeometries' = SubSeq(loadedGeometries, 1, last - 1)
    BY DEF TakeLast
  <1>2. loadedGeometries \in Seq(Geometry) /\ last \in Nat /\ last > 0
    BY <1>1 DEF Inv, TypeOK
  <1>3. /\ loadedGeometries' \in Seq(Geometry) /\ Len(loadedGeometries') = last - 1
        /\ DOMAIN loadedGeometries' = 1 .. (last - 1) /\ DOMAIN loadedGeometries = 1 .. last
        /\ \A i \in 1 .. (last - 1) : loadedGeometries'[i] = loadedGeometries[i]
    <2>1. loadedGeometries' \in Seq(Geometry) /\ Len(loadedGeometries') = last - 1
      BY <1>1, <1>2, WithoutLast
    <2>2. \A i \in 1 .. (last - 1) : loadedGeometries'[i] = loadedGeometries[i]
      BY <1>1, <1>2, WithoutLast
    <2> QED
      BY <1>2, <2>1, <2>2
  <1>4. last \in 1 .. last /\ \A i \in 1 .. last : i = last \/ i \in 1 .. (last - 1)
    BY <1>2
  <1>5. \A i \in 1 .. (last - 1) : i \in 1 .. last /\ i # last
    BY <1>2
  <1> HIDE DEF addr, last
  <1>6. /\ IsHeap(heap') /\ DOMAIN heap' = DOMAIN heap \ {addr}
        /\ \A a \in DOMAIN heap \ {addr} : heap'[a] = heap[a]
    <2>1. heap' = Without(heap, {addr}) /\ IsHeap(heap)
      BY <1>1, Apart
    <2>2. IsHeap(heap')
      BY <2>1, WithoutIsHeap
    <2> QED
      BY <2>1, <2>2 DEF Without
  <1>7. UNCHANGED <<records, tail, changes, position, lastReturnedGeometry, pc, cut,
                    loaderPc, wholeRecords, streamed, refused>>
    BY <1>1 DEF fileVars, streamVars
  <1>8. \A i \in 1 .. (last - 1) : loadedGeometries[i].bytes # addr
    BY <1>3, <1>4, <1>5 DEF Inv, BlocksOwned, addr
  <1>9. /\ \A i \in 1 .. (last - 1) :
              heap'[loadedGeometries[i].bytes] = heap[loadedGeometries[i].bytes]
        /\ lastReturnedGeometry.bytes # nullptr =>
              heap'[lastReturnedGeometry.bytes] = heap[lastReturnedGeometry.bytes]
    <2>2. lastReturnedGeometry.bytes # addr
      BY <1>3, <1>4, Apart DEF addr
    <2> QED
      BY <1>3, <1>5, <1>6, <1>8, <2>2, Apart
  <1>10. TypeOK'
    <2>1. TypeOK
      BY DEF Inv
    <2> QED
      BY <1>3, <1>6, <1>7, <2>1 DEF TypeOK, IsHeap, BlockType
  <1>11. BlocksOwned'
    <2>1. StreamBlock' = StreamBlock
      BY <1>7 DEF StreamBlock
    <2>2. LoadedBlocks' = LoadedBlocks \ {addr} /\ addr \in LoadedBlocks
      <3>1. LoadedBlocks' = {loadedGeometries'[i].bytes : i \in 1 .. (last - 1)}
        BY <1>3 DEF LoadedBlocks
      <3>2. LoadedBlocks = {loadedGeometries[i].bytes : i \in 1 .. last}
        BY <1>3 DEF LoadedBlocks
      <3>3. \A i \in 1 .. (last - 1) : loadedGeometries'[i].bytes = loadedGeometries[i].bytes
        BY <1>3
      <3> QED
        BY <1>4, <1>5, <1>8, <3>1, <3>2, <3>3 DEF addr
    <2>3. /\ DOMAIN heap = StreamBlock \cup LoadedBlocks
          /\ StreamBlock \cap LoadedBlocks = {}
      BY DEF Inv, BlocksOwned
    <2>4. /\ DOMAIN heap' = StreamBlock' \cup LoadedBlocks'
          /\ StreamBlock' \cap LoadedBlocks' = {}
      BY <1>6, <2>1, <2>2, <2>3
    <2>5. \A i, j \in DOMAIN loadedGeometries' :
             loadedGeometries'[i].bytes = loadedGeometries'[j].bytes => i = j
      BY <1>3, <1>5 DEF Inv, BlocksOwned
    <2> QED
      BY <1>7, <2>4, <2>5 DEF Inv, BlocksOwned
  <1>12. BlocksFit'
    <2>1. BlocksFit
      BY DEF Inv
    <2>2. \A i \in DOMAIN loadedGeometries' :
             loadedGeometries'[i].numBytes <= heap'[loadedGeometries'[i].bytes].size
      BY <1>3, <1>5, <1>9, <2>1 DEF BlocksFit
    <2> QED
      BY <1>7, <1>9, <2>1, <2>2 DEF BlocksFit
  <1>13. StreamInv'
    BY <1>7, <1>9 DEF Inv, StreamInv
  <1>14. RecordsRead'
    <2>1. RecordsRead
      BY DEF Inv
    <2>2. \A i \in DOMAIN loadedGeometries' :
             /\ i \in DOMAIN records /\ loadedGeometries'[i].numBytes = records[i]
             /\ heap'[loadedGeometries'[i].bytes].holds = i
      <3>1. \A i \in DOMAIN loadedGeometries :
               /\ i \in DOMAIN records /\ loadedGeometries[i].numBytes = records[i]
               /\ heap[loadedGeometries[i].bytes].holds = i
        BY <1>1, <2>1 DEF RecordsRead
      <3>2. \A i \in 1 .. (last - 1) : i \in DOMAIN loadedGeometries
        BY <1>3, <1>5
      <3> QED
        BY <1>3, <1>9, <3>1, <3>2, Zenon
    <2> QED
      BY <1>7, <1>9, <2>1, <2>2 DEF RecordsRead
  <1>15. LoaderInv'
    <2>1. last <= wholeRecords /\ wholeRecords \in Nat
      BY <1>1, Places DEF last, Inv, LoaderInv
    <2> QED
      BY <1>2, <1>3, <1>7, <2>1 DEF LoaderInv
  <1>16. CrashInv' /\ CrashExplained'
    BY <1>7 DEF Inv, CrashInv, CrashExplained
  <1> QED
    BY <1>10, <1>11, <1>12, <1>13, <1>14, <1>15, <1>16 DEF Inv

LEMMA DestroyLoadedInv == ASSUME Inv, DestroyLoaded PROVE Inv'
  <1>1. /\ UNCHANGED <<fileVars, streamVars, wholeRecords, cut>>
        /\ loaderPc = "open" /\ loaderPc' = "destroyed"
        /\ loadedGeometries' = <<>>
        /\ heap' = Without(heap, LoadedBlocks)
    BY DEF DestroyLoaded, LoadedBlocks
  <1>2. /\ IsHeap(heap') /\ DOMAIN heap' = DOMAIN heap \ LoadedBlocks
        /\ \A a \in DOMAIN heap \ LoadedBlocks : heap'[a] = heap[a]
    <2>1. heap' = Without(heap, LoadedBlocks) /\ IsHeap(heap)
      BY <1>1, Apart
    <2>2. IsHeap(heap')
      BY <2>1, WithoutIsHeap
    <2> QED
      BY <2>1, <2>2 DEF Without
  <1>3. UNCHANGED <<records, tail, changes, position, lastReturnedGeometry, pc, cut,
                    wholeRecords, streamed, refused>>
    BY <1>1 DEF fileVars, streamVars
  <1>4. /\ loadedGeometries' \in Seq(Geometry) /\ Len(loadedGeometries') = 0
        /\ DOMAIN loadedGeometries' = {}
    BY <1>1
  <1>5. lastReturnedGeometry.bytes # nullptr =>
              heap'[lastReturnedGeometry.bytes] = heap[lastReturnedGeometry.bytes]
    BY <1>2, Apart DEF LoadedBlocks
  <1>6. TypeOK'
    <2>1. TypeOK
      BY DEF Inv
    <2> QED
      BY <1>1, <1>2, <1>3, <1>4, <2>1 DEF TypeOK, IsHeap, BlockType
  <1>7. BlocksOwned'
    <2>1. StreamBlock' = StreamBlock /\ LoadedBlocks' = {}
      BY <1>3, <1>4 DEF StreamBlock, LoadedBlocks
    <2>2. /\ DOMAIN heap = StreamBlock \cup LoadedBlocks
          /\ StreamBlock \cap LoadedBlocks = {}
      BY DEF Inv, BlocksOwned
    <2>3. /\ DOMAIN heap' = StreamBlock' \cup LoadedBlocks'
          /\ StreamBlock' \cap LoadedBlocks' = {}
      BY <1>2, <2>1, <2>2
    <2> QED
      BY <1>3, <1>4, <2>3 DEF Inv, BlocksOwned
  <1>8. BlocksFit'
    <2>1. BlocksFit
      BY DEF Inv
    <2> QED
      BY <1>3, <1>4, <1>5, <2>1 DEF BlocksFit
  <1>9. StreamInv'
    BY <1>3, <1>5 DEF Inv, StreamInv
  <1>10. RecordsRead'
    <2>1. RecordsRead
      BY DEF Inv
    <2> QED
      BY <1>1, <1>3, <1>4, <1>5, <2>1 DEF RecordsRead
  <1>11. LoaderInv'
    <2>1. wholeRecords \in Nat
      BY Places
    <2> QED
      BY <1>3, <1>4, <2>1 DEF LoaderInv
  <1>12. CrashInv' /\ CrashExplained'
    BY <1>1, <1>3 DEF Inv, CrashInv, CrashExplained
  <1> QED
    BY <1>6, <1>7, <1>8, <1>9, <1>10, <1>11, <1>12 DEF Inv

-----------------------------------------------------------------------------
LEMMA StepInv == Inv /\ [Next]_vars => Inv'
  <1> SUFFICES ASSUME Inv, [Next]_vars PROVE Inv'
    OBVIOUS
  <1>1. CASE Write
    BY <1>1, WriteInv
  <1>2. CASE LookForRecord
    BY <1>2, LookForRecordInv
  <1>3. CASE ReadSize
    BY <1>3, ReadSizeInv
  <1>4. CASE RefuseSize
    BY <1>4, RefuseSizeInv
  <1>5. CASE ReadContent
    BY <1>5, ReadContentInv
  <1>6. CASE ReadContentFails
    BY <1>6, ReadContentFailsInv
  <1>7. CASE DestroyStream
    BY <1>7, DestroyStreamInv
  <1>8. CASE ReadFile
    BY <1>8, ReadFileInv
  <1>9. CASE LoadRecord
    BY <1>9, LoadRecordInv
  <1>10. CASE LoadCut
    BY <1>10, LoadCutInv
  <1>11. CASE FinishLoading
    BY <1>11, FinishLoadingInv
  <1>12. CASE TakeLast
    BY <1>12, TakeLastInv
  <1>13. CASE DestroyLoaded
    BY <1>13, DestroyLoadedInv
  <1>14. CASE UNCHANGED vars
    <2>1. UNCHANGED <<records, tail, changes, pc, position, lastReturnedGeometry, streamed,
                      refused, loaderPc, wholeRecords, cut, loadedGeometries, heap>>
      BY <1>14 DEF vars, fileVars, streamVars, loaderVars
    <2>2. TypeOK' /\ LoaderInv' /\ CrashInv' /\ CrashExplained'
      BY <2>1 DEF Inv, TypeOK, LoaderInv, CrashInv, CrashExplained
    <2>3. BlocksOwned'
      BY <2>1 DEF Inv, BlocksOwned, StreamBlock, LoadedBlocks
    <2>4. BlocksFit' /\ StreamInv' /\ RecordsRead'
      BY <2>1 DEF Inv, BlocksFit, StreamInv, RecordsRead
    <2> QED
      BY <2>2, <2>3, <2>4 DEF Inv
  <1> QED
    BY <1>1, <1>2, <1>3, <1>4, <1>5, <1>6, <1>7, <1>8, <1>9, <1>10, <1>11, <1>12, <1>13,
       <1>14 DEF Next

(* The inductive invariant holds in every reachable state, for every file, *)
(* every writer, and whatever new returns.                                 *)
THEOREM Invariance == Spec => []Inv
  <1> QED
    BY InitInv, StepInv, PTL DEF Spec

(* Every variable of the two readers keeps its type: init() and            *)
(* loadFileContents() never count a record that the file does not hold.    *)
THEOREM TypeCorrect == Spec => []TypeOK
  <1>1. Inv => TypeOK
    BY DEF Inv
  <1> QED
    BY <1>1, Invariance, PTL

(* Blocks of records are neither lost nor deleted twice, whenever a reader *)
(* is destroyed.                                                           *)
THEOREM BlocksHaveOneOwner == Spec => []BlocksOwned
  <1>1. Inv => BlocksOwned
    BY DEF Inv
  <1> QED
    BY <1>1, Invariance, PTL

(* init() keeps a block only if the next record fits into it.              *)
THEOREM GeometriesFit == Spec => []WithinBlock
  <1>1. Inv => WithinBlock
    <2> SUFFICES ASSUME Inv PROVE WithinBlock
      OBVIOUS
    <2>1. BlocksFit
      BY DEF Inv
    <2>2. StreamBlock # {} => lastReturnedGeometry.bytes # nullptr
      BY DEF StreamBlock
    <2>3. StreamBlock # {} =>
             lastReturnedGeometry.numBytes <= heap[lastReturnedGeometry.bytes].size
      BY <2>1, <2>2 DEF BlocksFit
    <2> QED
      BY <2>1, <2>3 DEF WithinBlock, BlocksFit
  <1> QED
    BY <1>1, Invariance, PTL

(* Both readers get the records of the file, whole and in order, whatever  *)
(* the tile writer does meanwhile; what the buffered one reads beyond the  *)
(* data is gone before it is used.                                         *)
THEOREM WholeRecordsOnly == Spec => []RecordsRead
  <1>1. Inv => RecordsRead
    BY DEF Inv
  <1> QED
    BY <1>1, Invariance, PTL

(* Without a tile writer at work, only a record beyond the limit ends the  *)
(* process.                                                                *)
THEOREM CrashNeedsCause == Spec => []CrashExplained
  <1>1. Inv => CrashExplained
    BY DEF Inv
  <1> QED
    BY <1>1, Invariance, PTL

-----------------------------------------------------------------------------
(* The advance of the loops, whatever the tile writer does: of a file that *)
(* never has more than MaxRecords records, how many steps are left to the  *)
(* streaming feature set, its destructor included, and to the buffered     *)
(* one.                                                                    *)
StreamStepsLeft ==
    CASE pc = "between" -> 3 * (MaxRecords - position) + 3
      [] pc = "readSize" -> 3 * (MaxRecords - position) + 2
      [] pc = "readContent" -> 3 * (MaxRecords - position) + 1
      [] pc = "closed" -> 1
      [] OTHER -> 0

LoaderStepsLeft ==
    CASE loaderPc = "opening" -> 2 * MaxRecords + 3
      [] loaderPc = "loading" -> 2 * wholeRecords + 2 - Len(loadedGeometries)
      [] loaderPc = "open" -> Len(loadedGeometries) + 1
      [] OTHER -> 0

StreamStep ==
    LookForRecord \/ ReadSize \/ RefuseSize \/ ReadContent \/ ReadContentFails \/ DestroyStream

LoaderStep ==
    ReadFile \/ LoadRecord \/ LoadCut \/ FinishLoading \/ TakeLast \/ DestroyLoaded

FileBounded == Len(records) <= MaxRecords

LEMMA BoundKept ==
    /\ Init => FileBounded
    /\ Inv /\ FileBounded /\ [Next]_vars => FileBounded'
<1>1. ASSUME Init PROVE FileBounded
  <2>1. PICK len \in 0 .. MaxRecords : records \in [1 .. len -> Sizes]
    BY <1>1 DEF Init
  <2>2. len \in Nat /\ records \in Seq(Sizes) /\ Len(records) = len
    BY <2>1, TileRecordsAssumption
  <2>3. QED
    BY <2>1, <2>2, TileRecordsAssumption DEF FileBounded
<1>2. ASSUME Inv, FileBounded, [Next]_vars PROVE FileBounded'
  <2>1. CASE records' = records
    BY <1>2, <2>1 DEF FileBounded
  <2>2. CASE FinishRecord
    <3>1. /\ records \in Seq(Sizes) /\ records' = Append(records, tail.numBytes)
          /\ Len(records) < MaxRecords
      BY <1>2, <2>2 DEF Inv, TypeOK, FinishRecord
    <3>2. Len(records') = Len(records) + 1 /\ Len(records) \in Nat
      BY <3>1
    <3>3. QED
      BY <3>1, <3>2, TileRecordsAssumption DEF FileBounded
  <2>3. records' = records \/ FinishRecord
    BY <1>2, Zenon DEF Next, Write, BeginRecord, WriteContent, LookForRecord, ReadSize,
       RefuseSize, ReadContent, ReadContentFails, DestroyStream, ReadFile,
       LoadRecord, LoadCut, FinishLoading, TakeLast, DestroyLoaded, fileVars, vars
  <2>4. QED
    BY <2>1, <2>2, <2>3
<1>3. QED
  BY <1>1, <1>2

(* Numbers in place of the variables that the steps left depend on. *)
LEMMA Counts ==
    ASSUME Inv, FileBounded
    PROVE  /\ MaxRecords \in Nat /\ position \in Nat /\ position <= MaxRecords
           /\ position <= Len(records) /\ Len(records) \in Nat /\ Len(records) <= MaxRecords
           /\ wholeRecords \in Nat /\ wholeRecords <= MaxRecords
           /\ Len(loadedGeometries) \in Nat /\ Len(loadedGeometries) <= wholeRecords + 1
<1>1. /\ records \in Seq(Sizes) /\ position \in 0 .. Len(records)
      /\ wholeRecords \in 0 .. Len(records) /\ loadedGeometries \in Seq(Geometry)
      /\ Len(loadedGeometries) <= wholeRecords + 1 /\ Len(records) <= MaxRecords
  BY DEF Inv, TypeOK, LoaderInv, FileBounded
<1>2. Len(records) \in Nat /\ Len(loadedGeometries) \in Nat
  BY <1>1
<1>3. QED
  BY <1>1, <1>2, TileRecordsAssumption

LEMMA StreamAdvances ==
    ASSUME Inv, Inv', FileBounded, FileBounded', StreamStep
    PROVE  StreamStepsLeft' < StreamStepsLeft
<1> DEFINE left == MaxRecords - position
<1>1. /\ left \in Nat
      /\ pc = "between" => StreamStepsLeft = 3 * left + 3
      /\ pc = "readSize" => StreamStepsLeft = 3 * left + 2
      /\ pc = "readContent" => StreamStepsLeft = 3 * left + 1
      /\ pc = "closed" => StreamStepsLeft = 1
  <2>1. left \in Nat
    BY Counts
  <2>2. QED
    BY <2>1, Zenon DEF StreamStepsLeft
<1>2. /\ position' = position => left' = left
      /\ pc' = "between" => StreamStepsLeft' = 3 * left' + 3
      /\ pc' = "readSize" => StreamStepsLeft' = 3 * left' + 2
      /\ pc' = "readContent" => StreamStepsLeft' = 3 * left' + 1
      /\ pc' = "closed" => StreamStepsLeft' = 1
      /\ pc' \in {"destroyed", "crashed"} => StreamStepsLeft' = 0
  BY Zenon DEF StreamStepsLeft
<1>3. CASE LookForRecord
  <2>1. pc = "between" /\ pc' \in {"closed", "readSize"} /\ position' = position
    BY <1>3, Zenon DEF LookForRecord
  <2> HIDE DEF left
  <2>2. QED
    BY <1>1, <1>2, <2>1
<1>4. CASE ReadSize
  <2>1. pc = "readSize" /\ pc' = "readContent" /\ position' = position
    BY <1>4, Zenon DEF ReadSize
  <2> HIDE DEF left
  <2>2. QED
    BY <1>1, <1>2, <2>1
<1>5. CASE RefuseSize \/ ReadContentFails
  <2>1. pc \in {"readSize", "readContent"} /\ pc' = "crashed"
    BY <1>5, Zenon DEF RefuseSize, ReadContentFails
  <2> HIDE DEF left
  <2>2. QED
    BY <1>1, <1>2, <2>1
<1>6. CASE ReadContent
  <2>1. pc = "readContent" /\ pc' = "between" /\ position' = position + 1
    BY <1>6, Zenon DEF ReadContent
  <2>2. left' = left - 1
    BY <2>1, Counts
  <2> HIDE DEF left
  <2>3. StreamStepsLeft = 3 * left + 1 /\ StreamStepsLeft' = 3 * left' + 3
    BY <1>1, <1>2, <2>1
  <2>4. QED
    BY <1>1, <2>2, <2>3
<1>7. CASE DestroyStream
  <2>1. pc \in {"between", "closed"} /\ pc' = "destroyed"
    BY <1>7, Zenon DEF DestroyStream
  <2> HIDE DEF left
  <2>2. QED
    BY <1>1, <1>2, <2>1
<1>8. QED
  BY <1>3, <1>4, <1>5, <1>6, <1>7 DEF StreamStep

LEMMA LoaderAdvances ==
    ASSUME Inv, Inv', FileBounded, FileBounded', LoaderStep
    PROVE  LoaderStepsLeft' < LoaderStepsLeft
<1> DEFINE whole == wholeRecords
           loaded == Len(loadedGeometries)
<1>1. /\ MaxRecords \in Nat /\ MaxRecords' = MaxRecords
      /\ whole \in Nat /\ whole' \in Nat /\ whole' <= MaxRecords
      /\ loaded \in Nat /\ loaded' \in Nat /\ loaded <= whole + 1
  <2>1. /\ MaxRecords \in Nat /\ whole \in Nat /\ loaded \in Nat /\ loaded <= whole + 1
    BY Counts, Zenon
  <2>2. /\ whole' \in Nat /\ loaded' \in Nat
    BY DEF Inv, TypeOK
  <2>3. whole' <= MaxRecords
    BY <2>1, <2>2, SMTT(30) DEF Inv, TypeOK, FileBounded
  <2>4. QED
    BY <2>1, <2>2, <2>3
<1>2. /\ loaderPc = "opening" => LoaderStepsLeft = 2 * MaxRecords + 3
      /\ loaderPc = "loading" => LoaderStepsLeft = 2 * whole + 2 - loaded
      /\ loaderPc = "open" => LoaderStepsLeft = loaded + 1
      /\ loaderPc' = "loading" => LoaderStepsLeft' = 2 * whole' + 2 - loaded'
      /\ loaderPc' = "open" => LoaderStepsLeft' = loaded' + 1
      /\ loaderPc' \in {"destroyed", "crashed"} => LoaderStepsLeft' = 0
  BY Zenon DEF LoaderStepsLeft
<1>3. CASE ReadFile
  <2>1. loaderPc = "opening" /\ loaderPc' = "loading"
    BY <1>3, Zenon DEF ReadFile
  <2>2. \A max, k, l \in Nat : k <= max => 2 * k + 2 - l < 2 * max + 3
    OBVIOUS
  <2> HIDE DEF whole, loaded
  <2>3. QED
    BY <1>1, <1>2, <2>1, <2>2, Zenon
<1>9. CASE LoadCut /\ loaderPc' = "crashed"
  <2>1. loaderPc = "loading"
    BY <1>9, Zenon DEF LoadCut
  <2> HIDE DEF whole, loaded
  <2>2. QED
    BY <1>1, <1>2, <1>9, <2>1
<1>4. CASE LoadRecord \/ (LoadCut /\ loaderPc' # "crashed")
  <2>1. /\ loaderPc = "loading" /\ loaderPc' = "loading" /\ whole' = whole
        /\ \E geometry : loadedGeometries' = Append(loadedGeometries, geometry)
    BY <1>4, Zenon DEF LoadRecord, LoadCut
  <2>2. loaded' = loaded + 1
    BY <2>1 DEF Inv, TypeOK
  <2> HIDE DEF whole, loaded
  <2>3. LoaderStepsLeft = 2 * whole + 2 - loaded /\ LoaderStepsLeft' = 2 * whole + 2 - loaded'
    BY <1>2, <2>1, Zenon
  <2>4. QED
    BY <1>1, <2>2, <2>3
<1>5. CASE FinishLoading
  <2>1. /\ loaderPc = "loading" /\ loaderPc' \in {"open", "crashed"}
        /\ loaderPc' = "open" => loaded = whole
        /\ loaded' = loaded
    BY <1>5, Zenon DEF FinishLoading
  <2> HIDE DEF whole, loaded
  <2>2. QED
    BY <1>1, <1>2, <2>1
<1>6. CASE TakeLast
  <2>1. loaderPc = "open" /\ loaderPc' = "open"
    BY <1>6, Zenon DEF TakeLast, loaderVars
  <2>2. loaded' < loaded
    <3>1. /\ loadedGeometries \in Seq(Geometry) /\ loadedGeometries # <<>>
          /\ loadedGeometries' = SubSeq(loadedGeometries, 1, Len(loadedGeometries) - 1)
      BY <1>6 DEF Inv, TypeOK, TakeLast
    <3>2. QED
      BY <3>1
  <2>3. \A k, l \in Nat : k < l => k + 1 < l + 1
    OBVIOUS
  <2> HIDE DEF whole, loaded
  <2>4. QED
    BY <1>1, <1>2, <2>1, <2>2, <2>3, Zenon
<1>7. CASE DestroyLoaded
  <2>1. loaderPc = "open" /\ loaderPc' = "destroyed"
    BY <1>7, Zenon DEF DestroyLoaded
  <2> HIDE DEF whole, loaded
  <2>2. QED
    BY <1>1, <1>2, <2>1
<1>8. QED
  BY <1>3, <1>4, <1>5, <1>6, <1>7, <1>9 DEF LoaderStep

(* Every step of either reader brings it nearer to its end, and nobody     *)
(* else adds to what is left of it, not even by making the file longer:    *)
(* the loop of getNextGeometry() takes a record or comes to the end of the *)
(* file, that of loadFileContents() takes a record, and next() one of the  *)
(* geometries, each time.                                                  *)
THEOREM LoopsAdvance ==
    /\ Spec => [](StreamStepsLeft \in 0 .. 3 * MaxRecords + 3
                     /\ LoaderStepsLeft \in 0 .. 2 * MaxRecords + 3)
    /\ Spec => [][/\ StreamStep => StreamStepsLeft' < StreamStepsLeft
                  /\ LoaderStep => LoaderStepsLeft' < LoaderStepsLeft
                  /\ Write => UNCHANGED <<StreamStepsLeft, LoaderStepsLeft>>]_vars
<1>1. Inv /\ FileBounded => /\ StreamStepsLeft \in 0 .. 3 * MaxRecords + 3
                            /\ LoaderStepsLeft \in 0 .. 2 * MaxRecords + 3
  <2> SUFFICES ASSUME Inv, FileBounded
               PROVE  /\ StreamStepsLeft \in 0 .. 3 * MaxRecords + 3
                      /\ LoaderStepsLeft \in 0 .. 2 * MaxRecords + 3
    OBVIOUS
  <2> DEFINE left == MaxRecords - position
             loaded == Len(loadedGeometries)
  <2>1. /\ MaxRecords \in Nat /\ left \in Nat /\ left <= MaxRecords
        /\ wholeRecords \in Nat /\ wholeRecords <= MaxRecords
        /\ loaded \in Nat /\ loaded <= wholeRecords + 1
    BY Counts
  <2>2. /\ \/ StreamStepsLeft = 3 * left + 3 \/ StreamStepsLeft = 3 * left + 2
           \/ StreamStepsLeft = 3 * left + 1 \/ StreamStepsLeft = 1 \/ StreamStepsLeft = 0
        /\ \/ LoaderStepsLeft = 2 * MaxRecords + 3
           \/ LoaderStepsLeft = 2 * wholeRecords + 2 - loaded
           \/ LoaderStepsLeft = loaded + 1 \/ LoaderStepsLeft = 0
    BY Zenon DEF StreamStepsLeft, LoaderStepsLeft
  <2> HIDE DEF left, loaded
  <2>3. StreamStepsLeft \in 0 .. 3 * MaxRecords + 3
    BY <2>1, <2>2
  <2>4. LoaderStepsLeft \in 0 .. 2 * MaxRecords + 3
    BY <2>1, <2>2
  <2>5. QED
    BY <2>3, <2>4
<1>2. Write => UNCHANGED <<StreamStepsLeft, LoaderStepsLeft>>
  <2>1. Write => UNCHANGED <<streamVars, loaderVars>>
    BY Zenon DEF Write
  <2>2. UNCHANGED <<streamVars, loaderVars>> => UNCHANGED <<StreamStepsLeft, LoaderStepsLeft>>
    BY Zenon DEF streamVars, loaderVars, StreamStepsLeft, LoaderStepsLeft
  <2>3. QED
    BY <2>1, <2>2
<1>3. Inv /\ Inv' /\ FileBounded /\ FileBounded' /\ [Next]_vars
        => [/\ StreamStep => StreamStepsLeft' < StreamStepsLeft
            /\ LoaderStep => LoaderStepsLeft' < LoaderStepsLeft
            /\ Write => UNCHANGED <<StreamStepsLeft, LoaderStepsLeft>>]_vars
  BY <1>2, StreamAdvances, LoaderAdvances
<1>4. Spec => []FileBounded
  BY BoundKept, Invariance, PTL DEF Spec
<1>5. Spec => [](StreamStepsLeft \in 0 .. 3 * MaxRecords + 3
                    /\ LoaderStepsLeft \in 0 .. 2 * MaxRecords + 3)
  BY <1>1, <1>4, Invariance, PTL
<1>6. Spec => [][/\ StreamStep => StreamStepsLeft' < StreamStepsLeft
                 /\ LoaderStep => LoaderStepsLeft' < LoaderStepsLeft
                 /\ Write => UNCHANGED <<StreamStepsLeft, LoaderStepsLeft>>]_vars
  BY <1>3, <1>4, Invariance, PTL DEF Spec
<1>7. QED
  BY <1>5, <1>6
===============================================================================
