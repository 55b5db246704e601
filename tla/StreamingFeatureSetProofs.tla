---------------------- MODULE StreamingFeatureSetProofs ----------------------
(***************************************************************************)
(* Safety of StreamingFeatureSet for every tile set, every query, every    *)
(* number of changes by the tile writer.                                   *)
(***************************************************************************)
EXTENDS StreamingFeatureSet, TileSetProofs

-----------------------------------------------------------------------------
(* The vectors of bits *)

(* A vector grown for an id is longer than the id. *)
LEMMA NewSizeSuffices ==
    ASSUME NEW id \in Nat, (id + 1) * 11 < Word
    PROVE  NewSize(id) \in Nat /\ id < NewSize(id)
<1>1. Word \in Nat \ {0}
  BY StreamingAssumption
<1>2. ((id + 1) * 11) % Word = (id + 1) * 11
  BY <1>1
<1>3. QED
  BY <1>2 DEF NewSize

(* Setting a bit keeps every bit in bounds and the bits that were set; it  *)
(* sets no other one.                                                      *)
LEMMA SetBitSets ==
    ASSUME NEW vector \in BitVector, \A m \in vector.marked : m < vector.size,
           NEW id \in Nat, (id + 1) * 11 < Word
    PROVE  /\ SetBit(vector, id) \in BitVector
           /\ SetBit(vector, id).marked = vector.marked \cup {id}
           /\ \A m \in SetBit(vector, id).marked : m < SetBit(vector, id).size
<1> DEFINE size == IF id >= vector.size THEN NewSize(id) ELSE vector.size
<1>1. vector.size \in Nat /\ vector.marked \subseteq Nat
  BY DEF BitVector
<1>2. size \in Nat /\ id < size /\ vector.size <= size
  BY <1>1, NewSizeSuffices
<1>3. \A m \in vector.marked : m < size
  BY <1>1, <1>2
<1>4. SetBit(vector, id) = [size |-> size, marked |-> {m \in vector.marked : m < size} \cup {id}]
  BY DEF SetBit
<1> HIDE DEF size
<1>5. {m \in vector.marked : m < size} = vector.marked
  BY <1>3
<1>6. SetBit(vector, id) = [size |-> size, marked |-> vector.marked \cup {id}]
  BY <1>4, <1>5
<1>7. QED
  BY <1>1, <1>2, <1>3, <1>6 DEF BitVector

(* The type bits of a record determine one of the three entity types.      *)
LEMMA EntityTypes ==
    ASSUME NEW g \in Geometries
    PROVE  /\ EntityType(g) \in {"NODE", "WAY", "RELATION"}
           /\ g.id \in Nat /\ (g.id + 1) * 11 < Word
<1>1. g.flags \in GeometryFlags /\ g.id \in Nat
  BY GeometriesAssumption DEF GeometryType
<1>2. EntityType(g) \in {"NODE", "WAY", "RELATION"}
  BY <1>1 DEF EntityType, GeometryFlags
<1>3. QED
  BY <1>1, <1>2, StreamingAssumption

(* Marking an entity leaves every vector in bounds, and makes that entity, *)
(* and no other, one that was returned before.                             *)
LEMMA MarkEffect ==
    ASSUME TypeOK, BitsInBounds, NEW g \in Geometries,
           markAsReturnedBefore(EntityType(g), g.id)
    PROVE  /\ nodesReturned' \subseteq Nat
           /\ waysReturned' \in BitVector /\ relationsReturned' \in BitVector
           /\ BitsInBounds'
           /\ wasReturnedBefore(EntityType(g), g.id)'
           /\ \A h \in Geometries :
                wasReturnedBefore(EntityType(h), h.id)
                    => wasReturnedBefore(EntityType(h), h.id)'
           /\ \A h \in Geometries :
                wasReturnedBefore(EntityType(h), h.id)'
                    => wasReturnedBefore(EntityType(h), h.id) \/ Entity(h) = Entity(g)
<1>1. /\ EntityType(g) \in {"NODE", "WAY", "RELATION"}
      /\ g.id \in Nat /\ (g.id + 1) * 11 < Word
  BY EntityTypes
<1>2. /\ waysReturned \in BitVector /\ \A m \in waysReturned.marked : m < waysReturned.size
      /\ relationsReturned \in BitVector
      /\ \A m \in relationsReturned.marked : m < relationsReturned.size
      /\ nodesReturned \subseteq Nat
  BY DEF TypeOK, BitsInBounds
<1>3. \A h \in Geometries : EntityType(h) \in {"NODE", "WAY", "RELATION"} /\ h.id \in Nat
  BY EntityTypes
<1>4. CASE EntityType(g) = "NODE"
  <2>1. /\ nodesReturned' = nodesReturned \cup {g.id}
        /\ waysReturned' = waysReturned /\ relationsReturned' = relationsReturned
    BY <1>4 DEF markAsReturnedBefore
  <2>2. QED
    BY <1>1, <1>2, <1>3, <1>4, <2>1 DEF BitsInBounds, wasReturnedBefore, Entity
<1>5. CASE EntityType(g) = "WAY"
  <2>1. /\ waysReturned' = SetBit(waysReturned, g.id)
        /\ nodesReturned' = nodesReturned /\ relationsReturned' = relationsReturned
    BY <1>5 DEF markAsReturnedBefore
  <2>2. /\ waysReturned' \in BitVector
        /\ waysReturned'.marked = waysReturned.marked \cup {g.id}
        /\ \A m \in waysReturned'.marked : m < waysReturned'.size
    BY <1>1, <1>2, <2>1, SetBitSets
  <2>3. QED
    BY <1>1, <1>2, <1>3, <1>5, <2>1, <2>2 DEF BitsInBounds, wasReturnedBefore, Entity
<1>6. CASE EntityType(g) = "RELATION"
  <2>1. /\ relationsReturned' = SetBit(relationsReturned, g.id)
        /\ nodesReturned' = nodesReturned /\ waysReturned' = waysReturned
    BY <1>6 DEF markAsReturnedBefore
  <2>2. /\ relationsReturned' \in BitVector
        /\ relationsReturned'.marked = relationsReturned.marked \cup {g.id}
        /\ \A m \in relationsReturned'.marked : m < relationsReturned'.size
    BY <1>1, <1>2, <2>1, SetBitSets
  <2>3. QED
    BY <1>1, <1>2, <1>3, <1>6, <2>1, <2>2 DEF BitsInBounds, wasReturnedBefore, Entity
<1>7. QED
  BY <1>1, <1>4, <1>5, <1>6

-----------------------------------------------------------------------------
(* Type correctness *)

LEMMA InitType == Init => TypeOK
<1> SUFFICES ASSUME Init PROVE TypeOK
  OBVIOUS
<1>1. /\ disk \in [Tiles -> Seq(Geometries) \cup {Missing}]
      /\ changes \in 0 .. MaxChanges
      /\ changed \subseteq Tiles /\ denied \subseteq Tiles
      /\ queryBounds \in BoxType
  BY StreamingAssumption, DenialsAssumption DEF Init
<1>2. box_ \in EnvelopeType
  BY <1>1, QueryEnvelopesType DEF Init
<1>3. calls \in Seq(CallType)
  BY FirstCallType DEF Init
<1>4. waysReturned \in BitVector /\ relationsReturned \in BitVector
  BY DEF Init, BitVector
<1>5. QED
  BY <1>1, <1>2, <1>3, <1>4 DEF Init, TypeOK

(* Reading takes the first record off those not read yet. *)
LEMMA ReadEffect ==
    ASSUME TypeOK, ReadRecord
    PROVE  /\ NextRecord \in Geometries
           /\ fData' \in FileType
           /\ fData'.cut = fData.cut
           /\ UNCHANGED <<diskVars, queryVars, calls, files>>
<1>1. fData \in FileType /\ fData.rest # <<>>
  BY DEF TypeOK, ReadRecord
<1>2. fData.rest \in Seq(Geometries) /\ fData.path \in Tiles /\ fData.cut \in BOOLEAN
  BY <1>1 DEF FileType
<1>3. Head(fData.rest) \in Geometries /\ Tail(fData.rest) \in Seq(Geometries)
  BY <1>1, <1>2
<1>4. fData' = [path |-> fData.path, rest |-> Tail(fData.rest), cut |-> fData.cut]
  BY <1>1 DEF ReadRecord, FileType
<1>5. QED
  BY <1>2, <1>3, <1>4 DEF NextRecord, FileType, ReadRecord

(* Opening takes the last path off those registered. *)
LEMMA OpenEffect ==
    ASSUME TypeOK, files # <<>>, files' = SubSeq(files, 1, Len(files) - 1)
    PROVE  /\ files' \in Seq(Tiles)
           /\ LastFile \in Tiles
           /\ Len(files) \in Nat \ {0}
           /\ Len(files') = Len(files) - 1
           /\ \A k \in 1 .. Len(files) - 1 : files'[k] = files[k]
<1>1. files \in Seq(Tiles)
  BY DEF TypeOK
<1>2. QED
  BY <1>1, PopBack DEF LastFile

LEMMA StepType ==
    ASSUME TypeOK, BitsInBounds, [Next]_vars
    PROVE  TypeOK'
<1> USE DEF diskVars, queryVars, returnedVars, rendererVars
<1>1. ASSUME calls # <<>>
      PROVE  /\ Head(calls) \in CallType /\ Tail(calls) \in Seq(CallType)
             /\ Subcalls(Head(calls)) \o Tail(calls) \in Seq(CallType)
  <2>1. Head(calls) \in CallType /\ Tail(calls) \in Seq(CallType)
    BY <1>1 DEF TypeOK
  <2>2. QED
    BY <2>1, SubcallsType
<1>2. CASE SkipTile
  BY <1>1, <1>2 DEF SkipTile, TypeOK
<1>3. CASE RegisterTile
  <2>1. files' \in Seq(Tiles)
    BY <1>3 DEF RegisterTile, TypeOK, Exists
  <2>2. calls' \in Seq(CallType)
    BY <1>1, <1>3 DEF RegisterTile
  <2>3. QED
    BY <1>3, <2>1, <2>2 DEF RegisterTile, TypeOK
<1>4. CASE FinishConstruction
  BY <1>4 DEF FinishConstruction, TypeOK
<1>5. CASE OpenFile
  <2>1. files' \in Seq(Tiles)
    BY <1>5, OpenEffect DEF OpenFile
  <2>2. fData' \in FileType
    BY <1>5 DEF OpenFile, Exists, TypeOK, FileType
  <2>3. QED
    BY <1>5, <2>1, <2>2 DEF OpenFile, TypeOK
<1>6. CASE OpenFails
  <2>1. files' \in Seq(Tiles)
    BY <1>6, OpenEffect DEF OpenFails
  <2>2. QED
    BY <1>6, <2>1 DEF OpenFails, TypeOK
<1>7. CASE CloseFile \/ ReadFails \/ ReturnNull \/ Destroy
  BY <1>7 DEF CloseFile, ReadFails, ReturnNull, Destroy, TypeOK
<1>8. CASE SkipReturned
  <2>1. ReadRecord /\ pc' = "next" /\ UNCHANGED <<returnedVars, rendererVars>>
    BY <1>8 DEF SkipReturned
  <2>2. QED
    BY <2>1, ReadEffect DEF TypeOK
<1>9. CASE DropGeometry \/ ReturnFeature \/ DrawFails
  <2>1. /\ ReadRecord /\ feature_id_' = feature_id_ + 1
        /\ markAsReturnedBefore(EntityType(NextRecord), NextRecord.id)
        /\ pc' \in {"idle", "next", "crashed"}
        /\ \/ delivered' = delivered
           \/ delivered' = Append(delivered, [id |-> feature_id_, geometry |-> NextRecord])
    BY <1>9 DEF DropGeometry, ReturnFeature, DrawFails, TakeNew
  <2>2. NextRecord \in Geometries
    BY <2>1, ReadEffect
  <2>3. /\ nodesReturned' \subseteq Nat
        /\ waysReturned' \in BitVector /\ relationsReturned' \in BitVector
    BY <2>1, <2>2, MarkEffect
  <2>4. delivered' \in Seq(FeatureRecord)
    <3>1. [id |-> feature_id_, geometry |-> NextRecord] \in FeatureRecord
      BY <2>2 DEF TypeOK, FeatureRecord
    <3>2. delivered \in Seq(FeatureRecord)
      BY DEF TypeOK
    <3>3. QED
      BY <2>1, <3>1, <3>2
  <2>5. QED
    BY <2>1, <2>3, <2>4, ReadEffect DEF TypeOK
<1>10. ASSUME NEW t \in Tiles, ChangeTile(t)
       PROVE  TypeOK'
  <2>1. PICK contents \in {Missing, <<>>} :
           /\ disk' = [disk EXCEPT ![t] = contents]
           /\ fData' = fData \/ (fData # NoFile /\ fData' = [fData EXCEPT !.cut = TRUE])
    BY <1>10, Zenon DEF ChangeTile
  <2>2. disk' \in [Tiles -> Seq(Geometries) \cup {Missing}]
    <3>1. contents \in Seq(Geometries) \cup {Missing}
      BY <2>1, EmptySeq, Zenon
    <3>2. QED
      BY <2>1, <3>1 DEF TypeOK
  <2>3. fData' \in FileType \cup {NoFile}
    BY <2>1 DEF TypeOK, FileType
  <2>4. changes' \in 0 .. MaxChanges
    BY <1>10, StreamingAssumption DEF ChangeTile, TypeOK
  <2>5. QED
    BY <1>10, <2>2, <2>3, <2>4 DEF ChangeTile, TypeOK
<1>11. CASE UNCHANGED vars
  BY <1>11 DEF vars, TypeOK
<1>12. QED
  BY <1>2, <1>3, <1>4, <1>5, <1>6, <1>7, <1>8, <1>9, <1>10, <1>11
     DEF Next, Constructor, NextCall

-----------------------------------------------------------------------------
(* A feature is returned only of an entity that was not marked, and marks  *)
(* stay: hence no second feature of it.                                    *)
LEMMA StepReturned ==
    ASSUME Inv, [Next]_vars
    PROVE  BitsInBounds' /\ ReturnedIsMarked' /\ EntityOnce'
<1> USE DEF diskVars, queryVars, returnedVars, rendererVars
<1>0. /\ TypeOK /\ BitsInBounds /\ ReturnedIsMarked /\ EntityOnce
      /\ delivered \in Seq(FeatureRecord) /\ Len(delivered) \in Nat
  BY DEF Inv, TypeOK
<1>a. ASSUME NEW k \in 1 .. Len(delivered)
      PROVE  delivered[k].geometry \in Geometries
  <2>1. delivered[k] \in FeatureRecord
    BY <1>0
  <2>2. QED
    BY <2>1 DEF FeatureRecord
<1>1. CASE DropGeometry \/ ReturnFeature \/ DrawFails
  <2>1. /\ ReadRecord
        /\ ~ wasReturnedBefore(EntityType(NextRecord), NextRecord.id)
        /\ markAsReturnedBefore(EntityType(NextRecord), NextRecord.id)
        /\ \/ delivered' = delivered
           \/ delivered' = Append(delivered, [id |-> feature_id_, geometry |-> NextRecord])
    BY <1>1 DEF DropGeometry, ReturnFeature, DrawFails, TakeNew
  <2>2. PICK r \in Geometries : r = NextRecord
    BY <1>0, <2>1, ReadEffect
  <2>3. /\ BitsInBounds'
        /\ wasReturnedBefore(EntityType(r), r.id)'
        /\ \A h \in Geometries :
             wasReturnedBefore(EntityType(h), h.id)
                => wasReturnedBefore(EntityType(h), h.id)'
    BY <1>0, <2>1, <2>2, MarkEffect
  <2>4. \A k \in 1 .. Len(delivered) :
           wasReturnedBefore(EntityType(delivered[k].geometry), delivered[k].geometry.id)
    BY <1>0 DEF ReturnedIsMarked
  <2>5. CASE delivered' = delivered
    <3>1. \A k \in 1 .. Len(delivered) :
             wasReturnedBefore(EntityType(delivered[k].geometry), delivered[k].geometry.id)'
      BY <1>a, <2>3, <2>4, <2>5
    <3>2. QED
      BY <1>0, <2>3, <2>5, <3>1 DEF ReturnedIsMarked, EntityOnce
  <2>6. CASE delivered' = Append(delivered, [id |-> feature_id_, geometry |-> NextRecord])
    <3>0. PICK n \in Nat : n = Len(delivered)
      BY <1>0
    <3>1. /\ Len(delivered') = n + 1
          /\ \A k \in 1 .. n : delivered'[k] = delivered[k]
          /\ delivered'[n + 1].geometry = r
      BY <1>0, <2>2, <2>6, <3>0
    <3>2. \A k \in 1 .. n : Entity(delivered[k].geometry) # Entity(r)
      <4>1. ~ wasReturnedBefore(EntityType(r), r.id)
        BY <2>1, <2>2
      <4>2. QED
        BY <2>4, <3>0, <4>1 DEF Entity
    <3>3. ReturnedIsMarked'
      <4>1. ASSUME NEW k \in 1 .. n
            PROVE  wasReturnedBefore(EntityType(delivered[k].geometry),
                                     delivered[k].geometry.id)'
        <5>1. PICK h \in Geometries : h = delivered[k].geometry
          BY <1>a, <3>0
        <5>2. wasReturnedBefore(EntityType(h), h.id)'
          BY <2>3, <2>4, <3>0, <5>1
        <5>3. QED
          BY <3>1, <5>1, <5>2
      <4>2. wasReturnedBefore(EntityType(delivered[n + 1].geometry),
                              delivered[n + 1].geometry.id)'
        BY <2>3, <3>1
      <4>3. QED
        BY <3>1, <4>1, <4>2 DEF ReturnedIsMarked
    <3>4. EntityOnce'
      <4> SUFFICES ASSUME NEW k \in 1 .. n + 1, NEW j \in 1 .. n + 1,
                          Entity(delivered'[k].geometry) = Entity(delivered'[j].geometry)
                   PROVE  k = j
        BY <3>1 DEF EntityOnce, Entity
      <4>1. CASE k \in 1 .. n /\ j \in 1 .. n
        BY <1>0, <3>0, <3>1, <4>1 DEF EntityOnce
      <4>2. CASE k = n + 1 /\ j = n + 1
        BY <4>2
      <4>3. CASE k \in 1 .. n /\ j = n + 1
        BY <3>1, <3>2, <4>3
      <4>4. CASE k = n + 1 /\ j \in 1 .. n
        BY <3>1, <3>2, <4>4
      <4>5. QED
        BY <4>1, <4>2, <4>3, <4>4
    <3>5. QED
      BY <2>3, <3>3, <3>4
  <2>7. QED
    BY <2>1, <2>5, <2>6
<1>2. CASE UNCHANGED <<returnedVars, delivered>>
  BY <1>0, <1>2 DEF BitsInBounds, ReturnedIsMarked, EntityOnce, wasReturnedBefore
<1>3. QED
  BY <1>1, <1>2 
     DEF Next, Constructor, NextCall, SkipTile, RegisterTile, FinishConstruction, OpenFile,
         OpenFails, CloseFile, ReadFails, SkipReturned, ReturnNull, Destroy, ChangeTile, vars

(* Registered files exist, and the open one is whole, until somebody       *)
(* changes them; what is emptied while it is open was changed.             *)
LEMMA StepFiles ==
    ASSUME Inv, [Next]_vars
    PROVE  ChangesCounted' /\ FilesIntact'
<1> USE DEF diskVars, queryVars, returnedVars, rendererVars
<1>0. /\ TypeOK /\ ChangesCounted /\ FilesIntact /\ NothingOpen
      /\ files \in Seq(Tiles) /\ changes \in Nat
      /\ disk \in [Tiles -> Seq(Geometries) \cup {Missing}]
  BY StreamingAssumption DEF Inv, TypeOK
<1>1. CASE RegisterTile
  <2>1. PICK h : h = Head(calls).path
    OBVIOUS
  <2>2. /\ files' = files \/ files' = Append(files, h)
        /\ Exists(disk, h) /\ fData = NoFile /\ fData' = NoFile
        /\ changed' = changed \ {h} /\ UNCHANGED <<disk, changes>>
    BY <1>0, <1>1, <2>1 DEF RegisterTile, NothingOpen
  <2>3. \A k \in 1 .. Len(files') :
           (k \in 1 .. Len(files) /\ files'[k] = files[k]) \/ files'[k] = h
    <3>1. CASE files' = files
      BY <3>1
    <3>2. CASE files' = Append(files, h)
      BY <1>0, <2>2, <3>2 DEF Exists
    <3>3. QED
      BY <2>2, <3>1, <3>2
  <2>4. \A k \in 1 .. Len(files') : files'[k] \notin changed' => Exists(disk, files'[k])
    BY <1>0, <2>2, <2>3 DEF FilesIntact
  <2>5. QED
    BY <1>0, <2>2, <2>4 DEF ChangesCounted, FilesIntact, Exists
<1>2. CASE OpenFile \/ OpenFails
  <2>1. /\ \A k \in 1 .. Len(files') : k \in 1 .. Len(files) /\ files'[k] = files[k]
        /\ fData' = fData \/ fData'.cut = FALSE
        /\ UNCHANGED diskVars
    BY <1>0, <1>2, OpenEffect DEF OpenFile, OpenFails
  <2>2. QED
    BY <1>0, <2>1 DEF ChangesCounted, FilesIntact, Exists
<1>3. CASE CloseFile
  BY <1>0, <1>3 DEF CloseFile, ChangesCounted, FilesIntact, Exists
<1>4. CASE SkipReturned \/ DropGeometry \/ ReturnFeature \/ DrawFails
  <2>1. ReadRecord /\ fData # NoFile
    BY <1>4 DEF SkipReturned, DropGeometry, ReturnFeature, DrawFails, TakeNew, ReadRecord
  <2>2. fData'.cut = fData.cut /\ fData'.path = fData.path /\ UNCHANGED <<diskVars, files>>
    <3>1. fData \in FileType /\ fData' = [fData EXCEPT !.rest = Tail(fData.rest)]
      BY <1>0, <2>1 DEF ReadRecord, TypeOK
    <3>2. QED
      BY <1>0, <2>1, <3>1, ReadEffect DEF FileType
  <2>3. QED
    BY <1>0, <2>1, <2>2 DEF ChangesCounted, FilesIntact, Exists
<1>5. ASSUME NEW t \in Tiles, ChangeTile(t)
      PROVE  ChangesCounted' /\ FilesIntact'
  <2>1. PICK contents \in {Missing, <<>>} :
           /\ disk' = [disk EXCEPT ![t] = contents]
           /\ \/ fData' = fData
              \/ fData # NoFile /\ fData.path = t /\ fData' = [fData EXCEPT !.cut = TRUE]
    BY <1>5, Zenon DEF ChangeTile
  <2>2. /\ files' = files /\ changes' = changes + 1 /\ changed' = changed \cup {t}
    BY <1>5 DEF ChangeTile
  <2>3. \A s \in Tiles : s # t => disk'[s] = disk[s]
    BY <1>0, <2>1
  <2>4. \A k \in 1 .. Len(files) :
           files[k] \notin changed' => Exists(disk, files[k])' /\ files[k] # t
    BY <1>0, <2>2, <2>3 DEF FilesIntact, Exists
  <2>5. fData' # NoFile => fData'.path \in changed' \/ ~ fData'.cut
    <3>1. CASE fData' = fData
      BY <1>0, <2>2, <3>1 DEF FilesIntact
    <3>2. CASE fData # NoFile /\ fData.path = t /\ fData' = [fData EXCEPT !.cut = TRUE]
      <4>1. fData'.path = t
        BY <1>0, <3>2 DEF TypeOK, FileType
      <4>2. QED
        BY <2>2, <4>1
    <3>3. QED
      BY <2>1, <3>1, <3>2
  <2>6. QED
    BY <1>0, <2>2, <2>4, <2>5 DEF ChangesCounted, FilesIntact
<1>6. CASE UNCHANGED <<disk, changes, changed, files, fData>>
  BY <1>0, <1>6 DEF ChangesCounted, FilesIntact, Exists
<1>7. QED
  BY <1>1, <1>2, <1>3, <1>4, <1>5, <1>6
     DEF Next, Constructor, NextCall, SkipTile, FinishConstruction, ReadFails, ReturnNull,
         Destroy, vars

(* No file is opened before construction is done, none is left once null   *)
(* was returned.                                                           *)
LEMMA StepOpen ==
    ASSUME Inv, [Next]_vars
    PROVE  NothingOpen'
<1> USE DEF diskVars, queryVars, returnedVars, rendererVars
<1>0. NothingOpen
  BY DEF Inv
<1>1. CASE SkipTile \/ RegisterTile
  BY <1>0, <1>1 DEF SkipTile, RegisterTile, NothingOpen
<1>2. CASE ReturnNull
  BY <1>2 DEF ReturnNull, NothingOpen
<1>3. ASSUME NEW t \in Tiles, ChangeTile(t)
      PROVE  NothingOpen'
  <2>1. /\ pc' = pc /\ files' = files
        /\ fData' = fData \/ fData # NoFile
    BY <1>3, Zenon DEF ChangeTile
  <2>2. QED
    BY <1>0, <2>1 DEF NothingOpen
<1>4. CASE pc' \in {"idle", "next", "destroyed", "crashed"}
  BY <1>4 DEF NothingOpen
<1>5. CASE UNCHANGED vars
  BY <1>0, <1>5 DEF vars, NothingOpen
<1>6. QED
  BY <1>1, <1>2, <1>3, <1>4, <1>5
     DEF Next, Constructor, NextCall, FinishConstruction, OpenFile, OpenFails, CloseFile,
         ReadFails, SkipReturned, DropGeometry, ReturnFeature, DrawFails, Destroy

(* After null there is nothing to open or to read. *)
LEMMA NotExhausted ==
    ASSUME Inv, InNext, fData # NoFile \/ files # <<>>
    PROVE  pc \in {"idle", "next"}
BY DEF Inv, NothingOpen, InNext

-----------------------------------------------------------------------------
LEMMA InitInv == Init => Inv
<1> SUFFICES ASSUME Init PROVE Inv
  OBVIOUS
<1>1. TypeOK
  BY InitType
<1>2. /\ delivered = <<>> /\ files = <<>> /\ fData = NoFile /\ pc = "buildFileHierarchy"
      /\ changed = {}
      /\ waysReturned.marked = {} /\ relationsReturned.marked = {}
  BY DEF Init
<1>3. QED
  BY <1>1, <1>2
     DEF Inv, BitsInBounds, EntityOnce, ReturnedIsMarked, ChangesCounted, FilesIntact,
         NothingOpen

LEMMA StepInv == Inv /\ [Next]_vars => Inv'
<1> SUFFICES ASSUME Inv, [Next]_vars PROVE Inv'
  OBVIOUS
<1>1. TypeOK'
  BY StepType DEF Inv
<1>2. QED
  BY <1>1, StepReturned, StepFiles, StepOpen DEF Inv

(* Whatever the tile set, the query and the tile writer do, Inv holds. *)
THEOREM Invariance == Spec => []Inv
BY InitInv, StepInv, PTL DEF Spec

(* Every variable of the feature set keeps its type. *)
THEOREM TypeCorrect == Spec => []TypeOK
<1>1. Inv => TypeOK
  BY DEF Inv
<1>2. QED
  BY <1>1, Invariance, PTL

(* No bit is set outside its vector, for all ids whose eleven-fold fits    *)
(* into 64 bits.                                                           *)
THEOREM NoBitOutOfBounds == Spec => []BitsInBounds
<1>1. Inv => BitsInBounds
  BY DEF Inv
<1>2. QED
  BY <1>1, Invariance, PTL

(* No entity is returned twice, in however many tiles it is stored, also   *)
(* when tiles change while they are read.                                  *)
THEOREM EntityReturnedOnce == Spec => []EntityOnce
<1>1. Inv => EntityOnce
  BY DEF Inv
<1>2. QED
  BY <1>1, Invariance, PTL

(* The process is lost only to what the tile files are: one removed since  *)
(* it was registered or not to be opened, one emptied while it was open, a *)
(* record too large or not all there, a ring beyond the limit.             *)
THEOREM CrashesExplained == Spec => CrashExplained
<1> DEFINE Explained ==
        \/ fData = NoFile /\ files # <<>> /\ LastFile \in changed \cup denied
        \/ /\ fData # NoFile /\ fData.rest # <<>>
           /\ \/ fData.cut /\ fData.path \in changed
              \/ Refused(NextRecord)
              \/ RingTooLong(NextRecord)
<1>1. ASSUME Inv, OpenFails
      PROVE  Explained
  <2>1. PICK n \in Nat \ {0} : n = Len(files)
    BY <1>1, OpenEffect DEF OpenFails, Inv
  <2>2. n \in 1 .. Len(files) /\ LastFile = files[n]
    BY <2>1 DEF LastFile
  <2>3. LastFile \notin changed => Exists(disk, LastFile)
    BY <1>1, <2>2 DEF Inv, FilesIntact
  <2>4. QED
    BY <1>1, <2>3 DEF OpenFails
<1>2. ASSUME Inv, ReadFails
      PROVE  Explained
  BY <1>2 DEF ReadFails, Inv, FilesIntact
<1>3. ASSUME DrawFails
      PROVE  Explained
  BY <1>3 DEF DrawFails, TakeNew, ReadRecord
<1>4. ASSUME Next, pc # "crashed", pc' = "crashed"
      PROVE  OpenFails \/ ReadFails \/ DrawFails
  BY <1>4
     DEF Next, Constructor, NextCall, SkipTile, RegisterTile, FinishConstruction, OpenFile,
         CloseFile, SkipReturned, DropGeometry, ReturnFeature, ReturnNull, Destroy, ChangeTile
<1>5. Inv /\ [Next]_vars => [pc # "crashed" /\ pc' = "crashed" => Explained]_vars
  BY <1>1, <1>2, <1>3, <1>4
<1>6. QED
  BY <1>5, Invariance, PTL DEF Spec, CrashExplained
-----------------------------------------------------------------------------
(* The promise of FeatureQuery, while nobody changes the tiles *)

(* While tiles are registered: each relevant tile with contents is         *)
(* registered or in the subtree of a pending call, only relevant tiles are *)
(* registered, and nothing has been read.                                  *)
OpeningInv ==
    pc = "buildFileHierarchy" =>
        /\ BoundsRight(calls) /\ WayExists(disk, calls)
        /\ \A t \in Relevant(disk, queryBounds) :
              Reaches(calls, t) \/ disk[t] = <<>> \/ \E i \in 1 .. Len(files) : files[i] = t
        /\ \A i \in 1 .. Len(files) : files[i] \in Relevant(disk, queryBounds)
        /\ fData = NoFile /\ delivered = <<>>
        /\ \A g \in Geometries : ~ wasReturnedBefore(EntityType(g), g.id)

LEMMA InitOpening == Init => OpeningInv
<1> SUFFICES ASSUME Init PROVE OpeningInv
  OBVIOUS
<1>1. BoundsRight(calls) /\ WayExists(disk, calls) /\ \A t \in Path : Reaches(calls, t)
  BY FirstCallCovers DEF Init
<1>2. \A t \in Relevant(disk, queryBounds) : t \in Path
  BY RelevantIsReachable
<1>3. files = <<>> /\ fData = NoFile /\ delivered = <<>>
  BY DEF Init
<1>4. ASSUME NEW g \in Geometries
      PROVE  ~ wasReturnedBefore(EntityType(g), g.id)
  <2>1. EntityType(g) \in {"NODE", "WAY", "RELATION"}
    BY EntityTypes
  <2>2. nodesReturned = {} /\ waysReturned.marked = {} /\ relationsReturned.marked = {}
    BY DEF Init
  <2>3. QED
    BY <2>1, <2>2 DEF wasReturnedBefore
<1>5. QED
  BY <1>1, <1>2, <1>3, <1>4 DEF OpeningInv

(* The records of a relevant tile. *)
LEMMA RelevantRecords ==
    ASSUME TypeOK, NEW t \in Relevant(disk, queryBounds)
    PROVE  /\ t \in Tiles /\ Exists(disk, t) /\ disk[t] \in Seq(Geometries)
           /\ DOMAIN disk[t] = 1 .. Len(disk[t])
           /\ \A k \in 1 .. Len(disk[t]) : disk[t][k] \in Geometries
<1>1. t \in Tiles /\ t \in Path
  BY RelevantIsReachable
<1>2. Exists(disk, t)
  BY <1>1, RelevantIsReachable, UnderItself
<1>3. disk[t] \in Seq(Geometries)
  BY <1>1, <1>2 DEF TypeOK, Exists
<1>4. QED
  BY <1>1, <1>2, <1>3

(* Without changes, the disk and the query stay as they are.               *)
LEMMA NothingChanges ==
    ASSUME MaxChanges = 0, Inv, [Next]_vars
    PROVE  /\ UNCHANGED <<disk, queryBounds, box_>>
           /\ changes = 0
           /\ \A t \in Tiles : ~ ChangeTile(t)
<1>1. changes = 0
  BY DEF Inv, TypeOK
<1>2. \A t \in Tiles : ~ ChangeTile(t)
  BY <1>1 DEF ChangeTile
<1>3. UNCHANGED <<disk, queryBounds, box_>>
  BY <1>2
     DEF Next, Constructor, NextCall, SkipTile, RegisterTile, FinishConstruction, OpenFile,
         OpenFails, CloseFile, ReadFails, SkipReturned, DropGeometry, ReturnFeature, DrawFails,
         TakeNew, ReadRecord, ReturnNull, Destroy, vars, diskVars, queryVars
<1>4. QED
  BY <1>1, <1>2, <1>3

LEMMA StepOpening ==
    ASSUME MaxChanges = 0, Inv, OpeningInv, [Next]_vars
    PROVE  OpeningInv'
<1> USE DEF diskVars, queryVars, returnedVars, rendererVars
<1> DEFINE tiles == Relevant(disk, queryBounds)
<1>0. /\ UNCHANGED <<disk, queryBounds, box_>>
      /\ calls \in Seq(CallType) /\ files \in Seq(Tiles) /\ queryBounds \in BoxType
      /\ \A t \in tiles : t \in Path
      /\ tiles = Relevant(disk, queryBounds)
  BY NothingChanges, RelevantIsReachable DEF Inv, TypeOK
<1>1. SUFFICES ASSUME pc' = "buildFileHierarchy"
               PROVE  OpeningInv'
  BY DEF OpeningInv
<1>2. /\ pc = "buildFileHierarchy"
      /\ SkipTile \/ RegisterTile \/ UNCHANGED vars
  BY <1>1, NothingChanges
     DEF Next, Constructor, NextCall, SkipTile, RegisterTile, FinishConstruction, OpenFile,
         OpenFails, CloseFile, ReadFails, SkipReturned, DropGeometry, ReturnFeature,
         DrawFails, ReturnNull, Destroy, vars
<1>3. /\ BoundsRight(calls) /\ WayExists(disk, calls)
      /\ \A t \in tiles :
            Reaches(calls, t) \/ disk[t] = <<>> \/ \E i \in 1 .. Len(files) : files[i] = t
      /\ \A i \in 1 .. Len(files) : files[i] \in tiles
      /\ fData = NoFile /\ delivered = <<>>
      /\ \A g \in Geometries : ~ wasReturnedBefore(EntityType(g), g.id)
  BY <1>2 DEF OpeningInv
<1> HIDE DEF tiles
<1>4. tiles' = tiles
  BY <1>0, Zenon DEF tiles
<1>5. /\ UNCHANGED <<fData, returnedVars, delivered>>
      /\ \A g \in Geometries : ~ wasReturnedBefore(EntityType(g), g.id)'
  <2>1. UNCHANGED <<fData, returnedVars, delivered>>
    BY <1>2 DEF SkipTile, RegisterTile, vars
  <2>2. QED
    BY <1>3, <2>1 DEF wasReturnedBefore
<1>6. ASSUME BoundsRight(calls'), WayExists(disk, calls'),
             \A t \in tiles :
                Reaches(calls', t) \/ disk[t] = <<>> \/ \E i \in 1 .. Len(files') : files'[i] = t,
             \A i \in 1 .. Len(files') : files'[i] \in tiles
      PROVE  OpeningInv'
  <2>1. /\ fData' = NoFile /\ delivered' = <<>>
        /\ tiles = Relevant(disk', queryBounds')
        /\ disk' = disk
    BY <1>0, <1>3, <1>4, <1>5
  <2>2. QED
    BY <1>5, <1>6, <2>1, Zenon DEF OpeningInv
<1>7. CASE SkipTile
  <2>1. /\ calls # <<>> /\ calls' = Tail(calls) /\ files' = files
        /\ ~ Intersects(queryBounds, Head(calls).tileBounds) \/ ~ Exists(disk, Head(calls).path)
    BY <1>7 DEF SkipTile
  <2>2. /\ BoundsRight(calls') /\ WayExists(disk, calls')
        /\ \A t \in tiles : Reaches(calls, t) => Reaches(calls', t)
    BY <1>0, <1>3, <2>1, SkipKeeps DEF tiles
  <2>3. QED
    BY <1>3, <1>6, <2>1, <2>2
<1>8. CASE RegisterTile
  <2>1. PICK h : h = Head(calls).path
    OBVIOUS
  <2>2. /\ calls # <<>> /\ calls' = Descended(calls)
        /\ Intersects(queryBounds, Head(calls).tileBounds) /\ Exists(disk, h)
        /\ files' = IF disk[h] = <<>> THEN files ELSE Append(files, h)
    BY <1>8, <2>1 DEF RegisterTile, Descended
  <2>3. /\ BoundsRight(calls') /\ WayExists(disk, calls')
        /\ \A t \in Path : Reaches(calls, t) => t = h \/ Reaches(calls', t)
    BY <1>0, <1>3, <2>1, <2>2, DescendKeeps
  <2>4. h \in tiles
    BY <1>0, <1>3, <2>1, <2>2, EnteredIsRelevant DEF tiles
  <2>5. h \in Tiles
    BY <2>2 DEF Exists
  <2>6. /\ \A i \in 1 .. Len(files') : files'[i] \in tiles
        /\ \A i \in 1 .. Len(files) : i \in 1 .. Len(files') /\ files'[i] = files[i]
        /\ disk[h] = <<>> \/ \E i \in 1 .. Len(files') : files'[i] = h
    <3>1. CASE disk[h] = <<>>
      BY <1>3, <2>2, <3>1
    <3>2. CASE disk[h] # <<>>
      <4>1. files' = Append(files, h)
        BY <2>2, <3>2
      <4>2. /\ Len(files) \in Nat /\ Len(files') = Len(files) + 1
            /\ \A i \in 1 .. Len(files) : files'[i] = files[i]
            /\ files'[Len(files) + 1] = h
        BY <1>0, <2>5, <4>1
      <4>3. QED
        BY <1>3, <2>4, <4>2
    <3>3. QED
      BY <3>1, <3>2
  <2>7. ASSUME NEW t \in tiles
        PROVE  Reaches(calls', t) \/ disk[t] = <<>> \/ \E i \in 1 .. Len(files') : files'[i] = t
    BY <1>0, <1>3, <2>3, <2>6, Zenon
  <2>8. QED
    BY <1>6, <2>3, <2>6, <2>7
<1>9. CASE UNCHANGED vars
  <2>1. calls' = calls /\ files' = files
    BY <1>9 DEF vars
  <2>2. QED
    BY <1>3, <1>6, <2>1
<1>10. QED
  BY <1>2, <1>7, <1>8, <1>9

(* Only relevant tiles are registered, and no relevant tile is forgotten. *)
LEMMA OpeningInvariance ==
    ASSUME MaxChanges = 0
    PROVE  Spec => [](Inv /\ OpeningInv)
BY InitInv, StepInv, InitOpening, StepOpening, PTL DEF Spec

(* What is left to read: the records of the registered files and the rest  *)
(* of the open one.                                                        *)
InFiles(g) ==
    \E i \in 1 .. Len(files) :
        Exists(disk, files[i]) /\ \E k \in 1 .. Len(disk[files[i]]) : g = disk[files[i]][k]

InOpenFile(g) == fData # NoFile /\ \E k \in 1 .. Len(fData.rest) : g = fData.rest[k]

LEMMA UnreadMeans ==
    ASSUME NEW g
    PROVE  /\ g \in Unread <=> InFiles(g) \/ InOpenFile(g)
           /\ g \in Unread' <=> InFiles(g)' \/ InOpenFile(g)'
<1>1. g \in Unread <=> InFiles(g) \/ InOpenFile(g)
  BY DEF Unread, InFiles, InOpenFile
<1>2. g \in Unread' <=> InFiles(g)' \/ InOpenFile(g)'
  BY DEF Unread, InFiles, InOpenFile
<1>3. QED
  BY <1>1, <1>2

LEMMA UnreadType ==
    ASSUME TypeOK
    PROVE  Unread \subseteq Geometries
<1> SUFFICES ASSUME NEW g \in Unread PROVE g \in Geometries
  OBVIOUS
<1>1. CASE InFiles(g)
  <2>1. PICK i \in 1 .. Len(files) : Exists(disk, files[i]) /\
           \E k \in 1 .. Len(disk[files[i]]) : g = disk[files[i]][k]
    BY <1>1 DEF InFiles
  <2>2. disk[files[i]] \in Seq(Geometries)
    BY <2>1 DEF TypeOK, Exists
  <2>3. QED
    BY <2>1, <2>2
<1>2. CASE InOpenFile(g)
  <2>1. fData \in FileType
    BY <1>2 DEF InOpenFile, TypeOK
  <2>2. fData.rest \in Seq(Geometries)
    BY <2>1 DEF FileType
  <2>3. QED
    BY <1>2, <2>2 DEF InOpenFile
<1>3. QED
  BY <1>1, <1>2, UnreadMeans

LEMMA SameUnread ==
    ASSUME UNCHANGED <<disk, files, fData>>
    PROVE  Unread' = Unread
<1> SUFFICES ASSUME NEW g
             PROVE  InFiles(g) \/ InOpenFile(g) <=> InFiles(g)' \/ InOpenFile(g)'
  BY UnreadMeans
<1>1. disk' = disk /\ files' = files /\ fData' = fData
  OBVIOUS
<1>2. (InFiles(g)' <=> InFiles(g)) /\ (InOpenFile(g)' <=> InOpenFile(g))
  BY <1>1, Zenon DEF InFiles, InOpenFile, Exists
<1>3. QED
  BY <1>2

(* Opening a file only moves its records. *)
LEMMA OpenKeepsUnread ==
    ASSUME Inv, OpenFile
    PROVE  Unread' = Unread
<1>1. /\ TypeOK /\ fData = NoFile /\ files # <<>>
      /\ Exists(disk, LastFile) /\ disk' = disk
      /\ fData' = [path |-> LastFile, rest |-> disk[LastFile], cut |-> FALSE]
      /\ files' = SubSeq(files, 1, Len(files) - 1)
  BY DEF OpenFile, Inv, diskVars
<1>2. fData' \in FileType
  BY <1>1 DEF Exists, TypeOK, FileType
<1>3. fData' # NoFile /\ fData'.rest = disk[LastFile]
  BY <1>1, <1>2, NoFileAssumption
<1>4. PICK n \in Nat \ {0} : n = Len(files)
  BY <1>1, OpenEffect
<1>5. /\ Len(files') = n - 1
      /\ \A k \in 1 .. n - 1 : files'[k] = files[k]
  BY <1>1, <1>4, OpenEffect
<1>6. PICK last : last = LastFile
  OBVIOUS
<1>7. last = files[n]
  BY <1>4, <1>6 DEF LastFile
<1> SUFFICES ASSUME NEW g
             PROVE  InFiles(g) \/ InOpenFile(g) <=> InFiles(g)' \/ InOpenFile(g)'
  BY UnreadMeans
<1>8. InOpenFile(g)' <=> \E k \in 1 .. Len(disk[last]) : g = disk[last][k]
  BY <1>3, <1>6 DEF InOpenFile
<1>9. InFiles(g)' <=>
      \E i \in 1 .. n - 1 :
         Exists(disk, files[i]) /\ \E k \in 1 .. Len(disk[files[i]]) : g = disk[files[i]][k]
  <2>1. InFiles(g)' <=>
        \E i \in 1 .. n - 1 :
           Exists(disk, files'[i]) /\ \E k \in 1 .. Len(disk[files'[i]]) : g = disk[files'[i]][k]
    BY <1>1, <1>5, Zenon DEF InFiles, Exists
  <2>2. QED
    BY <1>5, <2>1, Zenon
<1>10. InFiles(g) <=>
       \E i \in 1 .. n :
          Exists(disk, files[i]) /\ \E k \in 1 .. Len(disk[files[i]]) : g = disk[files[i]][k]
  BY <1>4, Zenon DEF InFiles
<1>11. /\ ~ InOpenFile(g)
       /\ Exists(disk, files[n])
       /\ \A i : i \in 1 .. n <=> i \in 1 .. n - 1 \/ i = n
  BY <1>1, <1>6, <1>7 DEF InOpenFile
<1>12. QED
  BY <1>7, <1>8, <1>9, <1>10, <1>11, Zenon

(* Nothing is lost at the end of a file nobody touched. *)
LEMMA CloseKeepsUnread ==
    ASSUME Inv, changes = 0, CloseFile
    PROVE  Unread' = Unread
<1>1. /\ fData.rest = <<>> /\ fData' = NoFile
      /\ files' = files /\ disk' = disk
  BY DEF CloseFile, Inv, ChangesCounted, FilesIntact, diskVars
<1> SUFFICES ASSUME NEW g
             PROVE  InFiles(g) \/ InOpenFile(g) <=> InFiles(g)' \/ InOpenFile(g)'
  BY UnreadMeans
<1>2. InFiles(g)' <=> InFiles(g)
  BY <1>1, Zenon DEF InFiles, Exists
<1>3. ~ InOpenFile(g) /\ ~ InOpenFile(g)'
  BY <1>1 DEF InOpenFile
<1>4. QED
  BY <1>2, <1>3

(* Reading takes one record off. *)
LEMMA ReadTakesOne ==
    ASSUME Inv, ReadRecord
    PROVE  Unread = Unread' \cup {NextRecord}
<1>1. /\ fData \in FileType /\ fData # NoFile /\ fData.rest # <<>>
      /\ fData' = [fData EXCEPT !.rest = Tail(fData.rest)]
      /\ fData' \in FileType /\ files' = files /\ disk' = disk
  BY ReadEffect DEF ReadRecord, Inv, TypeOK, diskVars
<1>2. fData' # NoFile /\ fData'.rest = Tail(fData.rest)
  BY <1>1, NoFileAssumption DEF FileType
<1>3. PICK s \in Seq(Geometries) : s = fData.rest /\ s # <<>>
  BY <1>1 DEF FileType
<1>4. /\ \A g : (\E k \in 1 .. Len(s) : g = s[k])
                   <=> (\E k \in 1 .. Len(Tail(s)) : g = Tail(s)[k]) \/ g = Head(s)
  <2>1. /\ Len(s) \in Nat \ {0} /\ Len(Tail(s)) = Len(s) - 1 /\ Head(s) = s[1]
        /\ \A k \in 1 .. Len(s) - 1 : Tail(s)[k] = s[k + 1]
    BY <1>3
  <2>2. PICK n \in Nat \ {0} : n = Len(s)
    BY <2>1
  <2>3. ASSUME NEW g, NEW k \in 1 .. n, g = s[k]
        PROVE  (\E l \in 1 .. n - 1 : g = Tail(s)[l]) \/ g = Head(s)
    <3>1. CASE k = 1
      BY <2>1, <2>3, <3>1
    <3>2. CASE k # 1
      <4>1. k - 1 \in 1 .. n - 1 /\ (k - 1) + 1 = k
        BY <3>2
      <4>2. Tail(s)[k - 1] = s[k]
        BY <2>1, <2>2, <4>1
      <4>3. QED
        BY <2>3, <4>1, <4>2
    <3>3. QED
      BY <3>1, <3>2
  <2>4. ASSUME NEW g, NEW k \in 1 .. n - 1, g = Tail(s)[k]
        PROVE  \E l \in 1 .. n : g = s[l]
    <3>1. k + 1 \in 1 .. n /\ Tail(s)[k] = s[k + 1]
      BY <2>1, <2>2
    <3>2. QED
      BY <2>4, <3>1
  <2>5. Head(s) = s[1] /\ 1 \in 1 .. n
    BY <2>1
  <2>6. Len(s) = n /\ Len(Tail(s)) = n - 1
    BY <2>1, <2>2
  <2>7. QED
    BY <2>3, <2>4, <2>5, <2>6, ZenonT(60)
<1>5. PICK r : r = NextRecord
  OBVIOUS
<1>6. r = Head(s)
  BY <1>3, <1>5 DEF NextRecord
<1>7. ASSUME NEW g
      PROVE  g \in Unread <=> g \in Unread' \/ g = r
  <2>1. InFiles(g)' <=> InFiles(g)
    BY <1>1, Zenon DEF InFiles, Exists
  <2>2. InOpenFile(g) <=> \E k \in 1 .. Len(s) : g = s[k]
    BY <1>1, <1>3, Zenon DEF InOpenFile
  <2>3. InOpenFile(g)' <=> \E k \in 1 .. Len(Tail(s)) : g = Tail(s)[k]
    BY <1>2, <1>3, Zenon DEF InOpenFile
  <2>4. InOpenFile(g) <=> InOpenFile(g)' \/ g = r
    BY <1>4, <1>6, <2>2, <2>3, Zenon
  <2>5. QED
    BY <2>1, <2>4, UnreadMeans
<1>8. QED
  BY <1>5, <1>7, Zenon

LEMMA UnreturnedMeans ==
    ASSUME NEW u
    PROVE  /\ pc # "buildFileHierarchy" =>
                (u \in Unreturned <=>
                    \E g \in Unread : /\ u = Item(g) /\ Accepts(g, box_)
                                      /\ ~ wasReturnedBefore(EntityType(g), g.id))
           /\ pc' # "buildFileHierarchy" =>
                (u \in Unreturned' <=>
                    \E g \in Unread' : /\ u = Item(g) /\ Accepts(g, box_')
                                       /\ ~ wasReturnedBefore(EntityType(g), g.id)')
<1>1. pc # "buildFileHierarchy" =>
         (u \in Unreturned <=>
             \E g \in Unread : /\ u = Item(g) /\ Accepts(g, box_)
                               /\ ~ wasReturnedBefore(EntityType(g), g.id))
  BY DEF Unreturned
<1>2. pc' # "buildFileHierarchy" =>
         (u \in Unreturned' <=>
             \E g \in Unread' : /\ u = Item(g) /\ Accepts(g, box_')
                                /\ ~ wasReturnedBefore(EntityType(g), g.id)')
  BY DEF Unreturned
<1>3. QED
  BY <1>1, <1>2

(* A step that leaves records and marks alone leaves the answer alone.     *)
LEMMA SameAnswer ==
    ASSUME pc # "buildFileHierarchy", pc' # "buildFileHierarchy",
           box_' = box_, Unread' = Unread, UNCHANGED returnedVars
    PROVE  Unreturned' = Unreturned
<1>1. ASSUME NEW g
      PROVE  wasReturnedBefore(EntityType(g), g.id)' <=> wasReturnedBefore(EntityType(g), g.id)
  BY Zenon DEF returnedVars, wasReturnedBefore
<1>2. QED
  BY <1>1, UnreturnedMeans, Zenon

(* What reading the next record does to the rest of the answer. *)
LEMMA SkipKeepsAnswer ==
    ASSUME Inv, SkipReturned
    PROVE  Unreturned' = Unreturned
<1>1. /\ ReadRecord /\ pc' = "next" /\ UNCHANGED returnedVars /\ box_' = box_
      /\ pc # "buildFileHierarchy"
      /\ wasReturnedBefore(EntityType(NextRecord), NextRecord.id)
  BY DEF SkipReturned, ReadRecord, InNext, queryVars
<1>2. PICK r : r = NextRecord
  OBVIOUS
<1>3. Unread = Unread' \cup {r} /\ wasReturnedBefore(EntityType(r), r.id)
  BY <1>1, <1>2, ReadTakesOne
<1>4. ASSUME NEW g
      PROVE  wasReturnedBefore(EntityType(g), g.id)' <=> wasReturnedBefore(EntityType(g), g.id)
  BY <1>1, Zenon DEF returnedVars, wasReturnedBefore
<1>5. ASSUME NEW u
      PROVE  u \in Unreturned' <=> u \in Unreturned
  <2>1. pc' # "buildFileHierarchy"
    BY <1>1
  <2>2. u \in Unreturned <=>
            \E g \in Unread : /\ u = Item(g) /\ Accepts(g, box_)
                              /\ ~ wasReturnedBefore(EntityType(g), g.id)
    BY <1>1, UnreturnedMeans
  <2>3. u \in Unreturned' <=>
            \E g \in Unread' : /\ u = Item(g) /\ Accepts(g, box_)
                               /\ ~ wasReturnedBefore(EntityType(g), g.id)
    BY <1>1, <1>4, <2>1, UnreturnedMeans, Zenon
  <2>4. QED
    BY <1>3, <2>2, <2>3
<1>6. QED
  BY <1>5, Zenon

(* A new record that is taken leaves the answer if it was part of it; as   *)
(* the copies of an entity are alike, nothing else does.                   *)
LEMMA TakeEffect ==
    ASSUME Inv, OneGeometryPerEntity, TakeNew, pc' # "buildFileHierarchy"
    PROVE  /\ Accepts(NextRecord, box_) => /\ Item(NextRecord) \in Unreturned
                                           /\ Unreturned' = Unreturned \ {Item(NextRecord)}
           /\ ~ Accepts(NextRecord, box_) => Unreturned' = Unreturned
<1>1. /\ ReadRecord /\ box_' = box_ /\ pc # "buildFileHierarchy"
      /\ ~ wasReturnedBefore(EntityType(NextRecord), NextRecord.id)
      /\ markAsReturnedBefore(EntityType(NextRecord), NextRecord.id)
  BY DEF TakeNew, ReadRecord, InNext, queryVars
<1>2. PICK r \in Geometries : r = NextRecord
  BY <1>1, ReadEffect DEF Inv
<1>3. Unread = Unread' \cup {r} /\ Unread \subseteq Geometries
  BY <1>1, <1>2, ReadTakesOne, UnreadType DEF Inv
<1>4. /\ wasReturnedBefore(EntityType(r), r.id)'
      /\ ~ wasReturnedBefore(EntityType(r), r.id)
      /\ \A h \in Geometries :
           wasReturnedBefore(EntityType(h), h.id)
               => wasReturnedBefore(EntityType(h), h.id)'
      /\ \A h \in Geometries :
           wasReturnedBefore(EntityType(h), h.id)'
               => wasReturnedBefore(EntityType(h), h.id) \/ h = r
  <2>1. /\ TypeOK /\ BitsInBounds
        /\ markAsReturnedBefore(EntityType(r), r.id)
        /\ ~ wasReturnedBefore(EntityType(r), r.id)
    BY <1>1, <1>2 DEF Inv
  <2>2. /\ wasReturnedBefore(EntityType(r), r.id)'
        /\ \A h \in Geometries :
             wasReturnedBefore(EntityType(h), h.id)
                 => wasReturnedBefore(EntityType(h), h.id)'
        /\ \A h \in Geometries :
             wasReturnedBefore(EntityType(h), h.id)'
                 => wasReturnedBefore(EntityType(h), h.id) \/ Entity(h) = Entity(r)
    BY <2>1, MarkEffect
  <2>3. QED
    BY <2>1, <2>2, Zenon DEF OneGeometryPerEntity
<1>5. ASSUME NEW g \in Geometries, Item(g) = Item(r)
      PROVE  g = r
  <2>1. Entity(g) = Entity(r)
    BY <1>5 DEF Item
  <2>2. QED
    BY <2>1 DEF OneGeometryPerEntity
<1>6. ASSUME NEW u
      PROVE  /\ u \in Unreturned <=>
                   \E g \in Unread : /\ u = Item(g) /\ Accepts(g, box_)
                                     /\ ~ wasReturnedBefore(EntityType(g), g.id)
             /\ u \in Unreturned' <=>
                   \E g \in Unread' : /\ u = Item(g) /\ Accepts(g, box_)
                                      /\ ~ wasReturnedBefore(EntityType(g), g.id)'
  BY <1>1, UnreturnedMeans, Zenon
<1>7. ASSUME NEW u
      PROVE  u \in Unreturned' <=> u \in Unreturned /\ ~ (u = Item(r) /\ Accepts(r, box_))
  <2>1. ASSUME u \in Unreturned'
        PROVE  u \in Unreturned /\ u # Item(r)
    <3>1. PICK g \in Unread' : /\ u = Item(g) /\ Accepts(g, box_)
                               /\ ~ wasReturnedBefore(EntityType(g), g.id)'
      BY <1>6, <2>1, Zenon
    <3>2. g \in Unread /\ g \in Geometries
      BY <1>3
    <3>3. ~ wasReturnedBefore(EntityType(g), g.id) /\ g # r
      BY <1>4, <3>1, <3>2, Zenon
    <3>4. QED
      BY <1>5, <1>6, <3>1, <3>2, <3>3, Zenon
  <2>2. ASSUME u \in Unreturned, ~ (u = Item(r) /\ Accepts(r, box_))
        PROVE  u \in Unreturned'
    <3>1. PICK g \in Unread : /\ u = Item(g) /\ Accepts(g, box_)
                              /\ ~ wasReturnedBefore(EntityType(g), g.id)
      BY <1>6, <2>2, Zenon
    <3>2. g # r /\ g \in Geometries
      BY <1>3, <2>2, <3>1, Zenon
    <3>3. g \in Unread'
      BY <1>3, <3>2
    <3>4. ~ wasReturnedBefore(EntityType(g), g.id)'
      BY <1>4, <3>1, <3>2, Zenon
    <3>5. QED
      BY <1>6, <3>1, <3>3, <3>4, Zenon
  <2>3. QED
    BY <2>1, <2>2, Zenon
<1>8. Accepts(r, box_) => Item(r) \in Unreturned
  <2>1. r \in Unread
    BY <1>3
  <2>2. QED
    BY <1>4, <1>6, <2>1, Zenon
<1>9. CASE Accepts(r, box_)
  <2>1. Unreturned' = Unreturned \ {Item(r)}
    BY <1>7, <1>9
  <2>2. QED
    BY <1>2, <1>8, <1>9, <2>1, Zenon
<1>10. CASE ~ Accepts(r, box_)
  <2>1. Unreturned' = Unreturned
    BY <1>7, <1>10
  <2>2. QED
    BY <1>2, <1>10, <2>1, Zenon
<1>11. QED
  BY <1>9, <1>10

(* The registered files hold what Matches looks for. *)
LEMMA FinishOpens ==
    ASSUME Inv, OpeningInv, FinishConstruction
    PROVE  Unreturned' = Unreturned
<1> DEFINE tiles == Relevant(disk, queryBounds)
<1>1. /\ calls = <<>> /\ pc = "buildFileHierarchy" /\ pc' = "idle"
      /\ disk' = disk /\ files' = files /\ fData' = fData /\ box_' = box_
      /\ UNCHANGED returnedVars /\ TypeOK
  BY DEF FinishConstruction, diskVars, queryVars, Inv
<1>2. /\ \A t \in tiles : disk[t] = <<>> \/ \E i \in 1 .. Len(files) : files[i] = t
      /\ \A i \in 1 .. Len(files) : files[i] \in tiles
      /\ fData = NoFile
      /\ \A g \in Geometries : ~ wasReturnedBefore(EntityType(g), g.id)
  BY <1>1 DEF OpeningInv, Reaches
<1>3. ASSUME NEW t \in tiles
      PROVE  /\ Exists(disk, t) /\ DOMAIN disk[t] = 1 .. Len(disk[t])
             /\ \A k \in 1 .. Len(disk[t]) : disk[t][k] \in Geometries
             /\ disk[t] = <<>> => Len(disk[t]) = 0
  <2>1. Len(<<>>) = 0
    OBVIOUS
  <2>2. QED
    BY <1>1, <2>1, RelevantRecords, Zenon
<1>4. ASSUME NEW g
      PROVE  (\E c \in Matches(disk, queryBounds, box_) : g = disk[c[1]][c[2]]) <=>
             Accepts(g, box_) /\ \E t \in tiles : \E k \in 1 .. Len(disk[t]) : g = disk[t][k]
  <2>1. ASSUME NEW c
        PROVE  c \in Matches(disk, queryBounds, box_) <=>
               \E t \in tiles : \E k \in 1 .. Len(disk[t]) :
                  c = <<t, k>> /\ Accepts(disk[t][k], box_)
    BY <1>3 DEF Matches
  <2> HIDE DEF tiles
  <2>2. ASSUME NEW c \in Matches(disk, queryBounds, box_), g = disk[c[1]][c[2]]
        PROVE  Accepts(g, box_) /\ \E t \in tiles : \E k \in 1 .. Len(disk[t]) : g = disk[t][k]
    BY <2>1, <2>2
  <2>3. ASSUME NEW t \in tiles, NEW k \in 1 .. Len(disk[t]), g = disk[t][k], Accepts(g, box_)
        PROVE  \E c \in Matches(disk, queryBounds, box_) : g = disk[c[1]][c[2]]
    <3>1. <<t, k>> \in Matches(disk, queryBounds, box_)
      BY <2>1, <2>3
    <3>2. <<t, k>>[1] = t /\ <<t, k>>[2] = k
      OBVIOUS
    <3>3. QED
      BY <2>3, <3>1, <3>2, Zenon
  <2>4. QED
    BY <2>2, <2>3, Zenon
<1> HIDE DEF tiles
<1>5. ASSUME NEW g
      PROVE  g \in Unread' <=> \E t \in tiles : \E k \in 1 .. Len(disk[t]) : g = disk[t][k]
  <2>1. g \in Unread' <=> InFiles(g)'
    BY <1>1, <1>2, UnreadMeans, Zenon DEF InOpenFile
  <2>2. InFiles(g)' <=> InFiles(g)
    BY <1>1, Zenon DEF InFiles, Exists
  <2>3. ASSUME InFiles(g)
        PROVE  \E t \in tiles : \E k \in 1 .. Len(disk[t]) : g = disk[t][k]
    BY <1>2, <2>3 DEF InFiles
  <2>4. ASSUME NEW t \in tiles, NEW k \in 1 .. Len(disk[t]), g = disk[t][k]
        PROVE  InFiles(g)
    <3>1. disk[t] # <<>>
      BY <1>3
    <3>2. PICK i \in 1 .. Len(files) : files[i] = t
      BY <1>2, <3>1
    <3>3. Exists(disk, t)
      BY <1>3
    <3>4. QED
      BY <2>4, <3>2, <3>3, Zenon DEF InFiles
  <2>5. QED
    BY <2>1, <2>2, <2>3, <2>4, Zenon
<1>6. ASSUME NEW g \in Unread'
      PROVE  ~ wasReturnedBefore(EntityType(g), g.id)'
  <2>1. g \in Geometries
    BY <1>3, <1>5
  <2>2. wasReturnedBefore(EntityType(g), g.id)' <=> wasReturnedBefore(EntityType(g), g.id)
    BY <1>1, Zenon DEF returnedVars, wasReturnedBefore
  <2>3. QED
    BY <1>2, <2>1, <2>2
<1>7. ASSUME NEW u
      PROVE  u \in Unreturned' <=> \E g \in Unread' : u = Item(g) /\ Accepts(g, box_)
  BY <1>1, <1>6, UnreturnedMeans, Zenon
<1>8. ASSUME NEW u
      PROVE  u \in Unreturned <=>
             \E c \in Matches(disk, queryBounds, box_) : u = Item(disk[c[1]][c[2]])
  BY <1>1 DEF Unreturned
<1>9. ASSUME NEW u
      PROVE  u \in Unreturned' <=> u \in Unreturned
  <2>1. ASSUME u \in Unreturned' PROVE u \in Unreturned
    <3>1. PICK g \in Unread' : u = Item(g) /\ Accepts(g, box_)
      BY <1>7, <2>1
    <3>2. PICK c \in Matches(disk, queryBounds, box_) : g = disk[c[1]][c[2]]
      BY <1>4, <1>5, <3>1, Zenon
    <3>3. QED
      BY <1>8, <3>1, <3>2, Zenon
  <2>2. ASSUME u \in Unreturned PROVE u \in Unreturned'
    <3>1. PICK c \in Matches(disk, queryBounds, box_) : u = Item(disk[c[1]][c[2]])
      BY <1>8, <2>2
    <3>2. PICK g : g = disk[c[1]][c[2]]
      OBVIOUS
    <3>3. g \in Unread' /\ Accepts(g, box_)
      BY <1>4, <1>5, <3>2, Zenon
    <3>4. QED
      BY <1>7, <3>1, <3>2, <3>3, Zenon
  <2>3. QED
    BY <2>1, <2>2
<1>10. QED
  BY <1>9, Zenon

LEMMA StepOpens ==
    ASSUME MaxChanges = 0, Inv, OpeningInv, Next, pc = "buildFileHierarchy"
    PROVE  [Answer!Next]_(Answer!vars)
<1> USE DEF diskVars, queryVars, rendererVars
<1>1. SkipTile \/ RegisterTile \/ FinishConstruction
  BY NothingChanges
     DEF Next, Constructor, NextCall, OpenFile, OpenFails, CloseFile, ReadFails, SkipReturned,
         DropGeometry, ReturnFeature, DrawFails, TakeNew, ReadRecord, ReturnNull, InNext, Destroy
<1>2. CASE SkipTile \/ RegisterTile
  <2>1. /\ pc' = "buildFileHierarchy" /\ delivered' = delivered
        /\ disk' = disk /\ queryBounds' = queryBounds /\ box_' = box_
    BY <1>2 DEF SkipTile, RegisterTile
  <2>2. Unreturned' = Unreturned
    <3> DEFINE Kept == {Item(g) : g \in {disk[c[1]][c[2]] :
                                            c \in Matches(disk, queryBounds, box_)}}
    <3>1. Unreturned = Kept
      BY Zenon DEF Unreturned
    <3>2. Unreturned' = Kept'
      BY <2>1, Zenon DEF Unreturned
    <3>3. Kept' = Kept
      BY <2>1, Zenon DEF Matches, Relevant
    <3>4. QED
      BY <3>1, <3>2, <3>3
  <2>3. Phase' = Phase /\ Returned' = Returned
    BY <2>1, Zenon DEF Phase, Returned
  <2>4. Remaining' = Remaining
    BY <2>1, <2>2 DEF Remaining
  <2>5. QED
    BY <2>3, <2>4 DEF Answer!vars
<1>3. CASE FinishConstruction
  <2>1. pc = "buildFileHierarchy" /\ pc' = "idle" /\ delivered' = delivered
    BY <1>3 DEF FinishConstruction
  <2>2. Phase = "opening" /\ Phase' = "open" /\ Returned' = Returned
    BY <2>1 DEF Phase, Returned
  <2>3. Remaining' = Remaining
    BY <1>3, <2>1, FinishOpens DEF Remaining
  <2>4. Answer!Open
    BY <2>2, <2>3 DEF Answer!Open
  <2>5. QED
    BY <2>4 DEF Answer!Next
<1>4. QED
  BY <1>1, <1>2, <1>3

(* Each step of next() that returns nothing is a stutter, and a feature it *)
(* returns is an item of what remains of the answer, until null, or the    *)
(* loss of the process.                                                    *)
LEMMA StepServes ==
    ASSUME MaxChanges = 0, OneGeometryPerEntity, Inv, Next, pc # "buildFileHierarchy"
    PROVE  [Answer!Next]_(Answer!vars)
<1> USE DEF diskVars, queryVars, rendererVars
<1>1. \/ OpenFile \/ CloseFile
      \/ SkipReturned
      \/ DropGeometry
      \/ ReturnFeature
      \/ ReturnNull
      \/ OpenFails \/ ReadFails \/ DrawFails
      \/ Destroy
  BY NothingChanges
     DEF Next, Constructor, NextCall, SkipTile, RegisterTile, FinishConstruction
<1>2. changes = 0
  BY NothingChanges
<1>3. ASSUME pc \in {"idle", "next"}, pc' \in {"idle", "next"},
             Unreturned' = Unreturned, delivered' = delivered
      PROVE  UNCHANGED Answer!vars
  <2>1. Phase' = Phase /\ Returned' = Returned
    BY <1>3, Zenon DEF Phase, Returned
  <2>2. Remaining' = Remaining
    BY <1>3 DEF Remaining
  <2>3. QED
    BY <2>1, <2>2 DEF Answer!vars
<1>4. CASE OpenFile \/ CloseFile
  <2>1. /\ pc \in {"idle", "next"} /\ pc' \in {"idle", "next"}
        /\ box_' = box_ /\ delivered' = delivered /\ UNCHANGED returnedVars
    BY <1>4, NotExhausted DEF OpenFile, CloseFile
  <2>2. Unread' = Unread
    BY <1>2, <1>4, OpenKeepsUnread, CloseKeepsUnread
  <2>3. Unreturned' = Unreturned
    BY <2>1, <2>2, SameAnswer
  <2>4. QED
    BY <1>3, <2>1, <2>3
<1>5. CASE SkipReturned
  <2>1. pc \in {"idle", "next"} /\ pc' \in {"idle", "next"} /\ delivered' = delivered
    BY <1>5, NotExhausted DEF SkipReturned, ReadRecord
  <2>2. QED
    BY <1>3, <1>5, <2>1, SkipKeepsAnswer
<1>6. CASE DropGeometry
  <2>1. /\ pc \in {"idle", "next"} /\ pc' \in {"idle", "next"} /\ delivered' = delivered
        /\ TakeNew /\ ~ Accepts(NextRecord, box_)
    BY <1>6, NotExhausted DEF DropGeometry, TakeNew, ReadRecord
  <2>2. Unreturned' = Unreturned
    BY <2>1, TakeEffect
  <2>3. QED
    BY <1>3, <2>1, <2>2
<1>7. CASE ReturnFeature
  <2>1. /\ pc \in {"idle", "next"} /\ pc' = "idle"
        /\ delivered' = Append(delivered, [id |-> feature_id_, geometry |-> NextRecord])
        /\ TakeNew /\ Accepts(NextRecord, box_)
    BY <1>7, NotExhausted DEF ReturnFeature, TakeNew, ReadRecord
  <2>2. PICK r : r = Item(NextRecord)
    OBVIOUS
  <2>3. r \in Unreturned /\ Unreturned' = Unreturned \ {r}
    BY <2>1, <2>2, TakeEffect
  <2>4. Returned' = Returned \cup {r}
    <3>1. PICK n \in Nat : n = Len(delivered)
      BY DEF Inv, TypeOK
    <3>2. /\ Len(delivered') = n + 1
          /\ \A i \in 1 .. n : delivered'[i] = delivered[i]
          /\ delivered'[n + 1].geometry = NextRecord
      BY <2>1, <3>1 DEF Inv, TypeOK
    <3>3. ASSUME NEW u
          PROVE  u \in Returned' <=> u \in Returned \/ u = r
      <4>1. u \in Returned' <=>
            \E i \in 1 .. n + 1 : u = Item(delivered'[i].geometry)
        BY <3>2 DEF Returned, Item
      <4>2. u \in Returned <=> \E i \in 1 .. n : u = Item(delivered[i].geometry)
        BY <3>1 DEF Returned
      <4>3. /\ \A i \in 1 .. n : Item(delivered'[i].geometry) = Item(delivered[i].geometry)
            /\ Item(delivered'[n + 1].geometry) = r
        BY <2>2, <3>2, Zenon
      <4>4. \A i : i \in 1 .. n + 1 <=> i \in 1 .. n \/ i = n + 1
        BY <3>1
      <4>5. QED
        BY <4>1, <4>2, <4>3, <4>4, Zenon
    <3>4. QED
      BY <3>3
  <2>5. /\ Phase = "open" /\ Phase' = Phase
        /\ Remaining = Unreturned /\ Remaining' = Unreturned'
    BY <2>1 DEF Phase, Remaining
  <2>6. Answer!Return(r)
    BY <2>3, <2>4, <2>5 DEF Answer!Return
  <2>7. r \in Remaining
    BY <2>3, <2>5
  <2>8. QED
    BY <2>6, <2>7 DEF Answer!Next
<1>8. CASE ReturnNull /\ pc # "exhausted"
  <2>1. /\ pc \in {"idle", "next"} /\ pc' = "exhausted" /\ fData = NoFile /\ files = <<>>
        /\ delivered' = delivered /\ box_' = box_ /\ UNCHANGED returnedVars
        /\ UNCHANGED <<disk, files, fData>>
    BY <1>8 DEF ReturnNull, InNext
  <2>2. ASSUME NEW g PROVE g \notin Unread
    <3>1. ~ InFiles(g) /\ ~ InOpenFile(g)
      BY <2>1 DEF InFiles, InOpenFile
    <3>2. QED
      BY <3>1, UnreadMeans
  <2>3. Unread' = Unread
    BY <2>1, SameUnread
  <2>4. ASSUME NEW u PROVE u \notin Unreturned
    BY <2>1, <2>2, UnreturnedMeans
  <2>5. Unreturned = {}
    BY <2>4
  <2>6. Unreturned' = Unreturned
    BY <2>1, <2>3, SameAnswer
  <2>7. /\ Phase = "open" /\ Phase' = "ended"
        /\ Remaining = {} /\ Remaining' = Remaining /\ Returned' = Returned
    BY <2>1, <2>5, <2>6 DEF Phase, Remaining, Returned
  <2>8. Answer!ReturnNull
    BY <2>7 DEF Answer!ReturnNull
  <2>9. QED
    BY <2>8 DEF Answer!Next
<1>9. CASE Destroy
  <2>1. pc \in {"idle", "exhausted"} /\ pc' = "destroyed" /\ delivered' = delivered
    BY <1>9 DEF Destroy
  <2>2. /\ Phase \in {"open", "ended"} /\ Phase' = "closed"
        /\ Remaining' = {} /\ Returned' = Returned
    BY <2>1 DEF Phase, Remaining, Returned
  <2>3. Answer!Close
    BY <2>2 DEF Answer!Close
  <2>4. QED
    BY <2>3 DEF Answer!Next
<1>10. CASE ReturnNull /\ pc = "exhausted"
  <2>1. /\ pc' = pc /\ delivered' = delivered /\ box_' = box_ /\ UNCHANGED returnedVars
        /\ UNCHANGED <<disk, files, fData>>
    BY <1>10 DEF ReturnNull
  <2>2. Unreturned' = Unreturned
    BY <1>10, <2>1, SameUnread, SameAnswer
  <2>3. Phase' = Phase /\ Returned' = Returned /\ Remaining' = Remaining
    BY <2>1, <2>2, Zenon DEF Phase, Returned, Remaining
  <2>4. QED
    BY <2>3 DEF Answer!vars
<1>11. CASE OpenFails \/ ReadFails \/ DrawFails
  <2>1. pc \in {"idle", "next"} /\ pc' = "crashed" /\ delivered' = delivered
    BY <1>11, NotExhausted DEF OpenFails, ReadFails, DrawFails, TakeNew, ReadRecord
  <2>2. /\ Phase = "open" /\ Phase' = "closed"
        /\ Remaining' = {} /\ Returned' = Returned
    BY <2>1 DEF Phase, Remaining, Returned
  <2>3. QED
    BY <2>2 DEF Answer!Next, Answer!Lose
<1>12. QED
  BY <1>1, <1>4, <1>5, <1>6, <1>7, <1>8, <1>9, <1>10, <1>11

LEMMA InitAnswer == Init => Answer!Init
<1> SUFFICES ASSUME Init PROVE Answer!Init
  OBVIOUS
<1>1. TypeOK
  BY InitType
<1>2. pc = "buildFileHierarchy" /\ delivered = <<>>
  BY DEF Init
<1>3. Phase = "opening" /\ Returned = {} /\ Remaining = Unreturned
  BY <1>2 DEF Phase, Returned, Remaining
<1>4. ASSUME NEW c \in Matches(disk, queryBounds, box_)
      PROVE  Item(disk[c[1]][c[2]])
             \in [entity : {"NODE", "WAY", "RELATION"} \X Nat, zIndex : -128 .. 127]
  <2>1. PICK t \in Relevant(disk, queryBounds) : c \in {t} \X DOMAIN disk[t]
    BY DEF Matches
  <2>2. PICK g : g = disk[c[1]][c[2]]
    OBVIOUS
  <2>3. g \in Geometries
    BY <1>1, <2>1, <2>2, RelevantRecords
  <2>4. /\ EntityType(g) \in {"NODE", "WAY", "RELATION"}
        /\ g.id \in Nat /\ g.zIndex \in -128 .. 127
    BY <2>3, EntityTypes, GeometriesAssumption DEF GeometryType
  <2>5. Item(g) \in [entity : {"NODE", "WAY", "RELATION"} \X Nat, zIndex : -128 .. 127]
    BY <2>4 DEF Item, Entity
  <2>6. QED
    BY <2>2, <2>5, Zenon
<1>5. Unreturned \in SUBSET [entity : {"NODE", "WAY", "RELATION"} \X Nat, zIndex : -128 .. 127]
  <2>1. Unreturned = {Item(g) : g \in {disk[c[1]][c[2]] :
                                          c \in Matches(disk, queryBounds, box_)}}
    BY <1>2, Zenon DEF Unreturned
  <2>2. QED
    BY <1>4, <2>1
<1>6. QED
  BY <1>3, <1>5 DEF Answer!Init

(* Each step is one of FeatureQuery, or a stutter. *)
LEMMA StepAnswers ==
    ASSUME MaxChanges = 0, OneGeometryPerEntity, Inv, OpeningInv, [Next]_vars
    PROVE  [Answer!Next]_(Answer!vars)
<1>1. ASSUME UNCHANGED vars PROVE UNCHANGED Answer!vars
  <2>1. /\ UNCHANGED <<disk, queryBounds, box_, pc, files, fData, delivered>>
        /\ UNCHANGED returnedVars
    BY <1>1 DEF vars, diskVars, queryVars, rendererVars
  <2>2. Unreturned' = Unreturned
    <3>1. CASE pc = "buildFileHierarchy"
      <4>1. Unreturned' = {Item(g) : g \in {disk[c[1]][c[2]] :
                               c \in Matches(disk, queryBounds, box_)}}'
        BY <2>1, <3>1, Zenon DEF Unreturned
      <4>2. Unreturned = {Item(g) : g \in {disk[c[1]][c[2]] :
                              c \in Matches(disk, queryBounds, box_)}}
        BY <3>1, Zenon DEF Unreturned
      <4>3. QED
        BY <2>1, <4>1, <4>2, Zenon DEF Matches, Relevant
    <3>2. CASE pc # "buildFileHierarchy"
      BY <2>1, <3>2, SameUnread, SameAnswer
    <3>3. QED
      BY <3>1, <3>2
  <2>3. Phase' = Phase /\ Returned' = Returned
    BY <2>1, Zenon DEF Phase, Returned
  <2>4. Remaining' = Remaining
    BY <2>1, <2>2, Zenon DEF Remaining
  <2>5. QED
    BY <2>3, <2>4 DEF Answer!vars
<1>2. QED
  BY <1>1, StepOpens, StepServes

(* While nobody changes the tiles, and if all copies of an entity are      *)
(* alike, the streaming feature set implements FeatureQuery: next()        *)
(* returns every entity that a matching copy in a relevant tile belongs    *)
(* to, each once, before it returns null, and null again after that; only  *)
(* a file that cannot be opened, a record that is refused or a ring beyond *)
(* the limit cuts the answer short.                                        *)
THEOREM AnswersTheQuery ==
    ASSUME MaxChanges = 0, OneGeometryPerEntity
    PROVE  Spec => ImplementsFeatureQuery
BY StepAnswers, OpeningInvariance, InitAnswer, PTL DEF Spec, ImplementsFeatureQuery, Answer!Spec
-----------------------------------------------------------------------------
(* What the answer comes to *)

(* Every query box is within the range of int32_t centimetres. *)
QueriesInRange == \A q \in Queries : FitsInt32(q)

(* The queries are boxes, the corners in their order. *)
QueriesProper == \A q \in Queries : q.minx <= q.maxx /\ q.miny <= q.maxy

(* What a step keeps: the box is that of the query, and everything that    *)
(* was returned has passed it.                                             *)
Filtered ==
    /\ queryBounds \in Queries
    /\ box_ \in QueryEnvelopes(queryBounds)
    /\ \A d \in 1 .. Len(delivered) : Accepts(delivered[d].geometry, box_)

LEMMA InitFiltered == Init => Filtered
BY DEF Init, Filtered

LEMMA StepFiltered == Inv /\ Filtered /\ [Next]_vars => Filtered'
<1> SUFFICES ASSUME Inv, Filtered, [Next]_vars PROVE Filtered'
  OBVIOUS
<1> USE DEF diskVars, queryVars, returnedVars, rendererVars
<1>1. queryBounds' = queryBounds /\ box_' = box_
  BY DEF Next, Constructor, NextCall, SkipTile, RegisterTile, FinishConstruction, OpenFile,
         OpenFails, CloseFile, ReadFails, SkipReturned, DropGeometry, ReturnFeature, DrawFails,
         TakeNew, ReadRecord, ReturnNull, Destroy, ChangeTile, vars
<1>2. CASE ReturnFeature
  <2>1. PICK r : r = NextRecord
    OBVIOUS
  <2>2. Accepts(r, box_) /\ delivered' = Append(delivered, [id |-> feature_id_, geometry |-> r])
    BY <1>2, <2>1 DEF ReturnFeature
  <2>3. delivered \in Seq(FeatureRecord)
    BY DEF Inv, TypeOK
  <2>4. PICK n \in Nat : n = Len(delivered)
    BY <2>3
  <2>5. /\ Len(delivered') = n + 1
        /\ \A d \in 1 .. n : delivered'[d] = delivered[d]
        /\ delivered'[n + 1].geometry = r
    BY <2>2, <2>3, <2>4
  <2>6. ASSUME NEW d \in 1 .. n + 1
        PROVE  Accepts(delivered'[d].geometry, box_)
    <3>1. CASE d \in 1 .. n
      BY <2>4, <2>5, <3>1, Zenon DEF Filtered
    <3>2. CASE d = n + 1
      BY <2>2, <2>5, <3>2, Zenon
    <3>3. QED
      BY <2>4, <3>1, <3>2
  <2>7. QED
    BY <1>1, <2>5, <2>6, Zenon DEF Filtered
<1>3. CASE delivered' = delivered
  BY <1>1, <1>3, Zenon DEF Filtered
<1>4. QED
  BY <1>2, <1>3
     DEF Next, Constructor, NextCall, SkipTile, RegisterTile, FinishConstruction, OpenFile,
         OpenFails, CloseFile, ReadFails, SkipReturned, DropGeometry, DrawFails, ReadRecord,
         ReturnNull, Destroy, ChangeTile, vars

(* Whatever happens to the tiles, what is returned misses the query box by *)
(* less than a centimetre, if at all, when query boxes are in the range of *)
(* int32_t centimetres.                                                    *)
THEOREM AnswersAreNear ==
    ASSUME QueriesInRange
    PROVE  Spec => []AnswerSound
<1>1. Inv /\ Filtered => AnswerSound
  <2> SUFFICES ASSUME Inv, Filtered, NEW i \in 1 .. Len(delivered),
                      FeatureType(delivered[i].geometry) # "POINT"
               PROVE  Intersects(InUnits(delivered[i].geometry.bounds),
                                 Widened(queryBounds, UnitsPerCm - 1))
    BY DEF AnswerSound
  <2>1. queryBounds \in BoxType /\ box_ \in EnvelopeType
    BY DEF Inv, TypeOK
  <2>2. delivered[i].geometry \in GeometryType
    <3>1. delivered[i] \in FeatureRecord
      BY DEF Inv, TypeOK
    <3>2. QED
      BY <3>1, GeometriesAssumption DEF FeatureRecord
  <2>3. Accepts(delivered[i].geometry, box_)
    BY DEF Filtered
  <2>4. /\ box_.xMin = Truncate(queryBounds.minx) /\ box_.xMax = Truncate(queryBounds.maxx)
        /\ box_.yMin = Truncate(queryBounds.miny) /\ box_.yMax = Truncate(queryBounds.maxy)
    BY TruncatedBox DEF QueriesInRange, Filtered
  <2>5. QED
    BY <2>1, <2>2, <2>3, <2>4, AcceptedIsNear
<1>2. Spec => [](Inv /\ Filtered)
  BY InitInv, StepInv, InitFiltered, StepFiltered, PTL DEF Spec
<1>3. QED
  BY <1>1, <1>2, PTL

(* The items of all matching copies; what is returned and what remains     *)
(* make them up.                                                           *)
Wanted ==
    {Item(g) : g \in {disk[c[1]][c[2]] : c \in Matches(disk, queryBounds, box_)}}

AnswerKept ==
    /\ disk \in TileSets
    /\ Phase # "closed" => Remaining \cup Returned = Wanted
    /\ Phase = "ended" => Remaining = {}

LEMMA InitKept == Init => AnswerKept
<1> SUFFICES ASSUME Init PROVE AnswerKept
  OBVIOUS
<1>1. disk \in TileSets /\ pc = "buildFileHierarchy" /\ delivered = <<>>
  BY DEF Init
<1>2. Remaining = Wanted
  BY <1>1, Zenon DEF Remaining, Unreturned, Wanted
<1>3. Phase = "opening" /\ Returned = {}
  BY <1>1 DEF Phase, Returned
<1>4. QED
  BY <1>1, <1>2, <1>3 DEF AnswerKept

LEMMA StepKept ==
    ASSUME MaxChanges = 0, OneGeometryPerEntity, Inv, OpeningInv, AnswerKept, [Next]_vars
    PROVE  AnswerKept'
<1>1. UNCHANGED <<disk, queryBounds, box_>>
  BY NothingChanges
<1>2. Wanted' = Wanted
  BY <1>1, Zenon DEF Wanted, Matches, Relevant
<1>3. [Answer!Next]_(Answer!vars)
  BY StepAnswers
<1>4. /\ Phase # "closed" => Remaining \cup Returned = Wanted
      /\ Phase = "ended" => Remaining = {}
      /\ disk' \in TileSets
  BY <1>1 DEF AnswerKept
<1>5. CASE Answer!Open
  <2>1. Phase = "opening" /\ Phase' = "open" /\ Remaining' = Remaining /\ Returned' = Returned
    BY <1>5, Zenon DEF Answer!Open
  <2>2. QED
    BY <1>2, <1>4, <2>1 DEF AnswerKept
<1>6. CASE \E r \in Remaining : Answer!Return(r)
  <2>1. PICK r \in Remaining : Answer!Return(r)
    BY <1>6
  <2>2. /\ Phase = "open" /\ Phase' = "open"
        /\ Remaining' = Remaining \ {r} /\ Returned' = Returned \cup {r}
    BY <2>1, Zenon DEF Answer!Return
  <2>3. Remaining' \cup Returned' = Remaining \cup Returned
    BY <2>2
  <2>4. QED
    BY <1>2, <1>4, <2>2, <2>3 DEF AnswerKept
<1>7. CASE Answer!ReturnNull
  <2>1. /\ Phase = "open" /\ Phase' = "ended"
        /\ Remaining = {} /\ Remaining' = Remaining /\ Returned' = Returned
    BY <1>7, Zenon DEF Answer!ReturnNull
  <2>2. QED
    BY <1>2, <1>4, <2>1 DEF AnswerKept
<1>8. CASE Answer!Close \/ Answer!Lose
  <2>1. Phase' = "closed"
    BY <1>8, Zenon DEF Answer!Close, Answer!Lose
  <2>2. QED
    BY <1>4, <2>1 DEF AnswerKept
<1>9. CASE UNCHANGED Answer!vars
  <2>1. Phase' = Phase /\ Remaining' = Remaining /\ Returned' = Returned
    BY <1>9 DEF Answer!vars
  <2>2. QED
    BY <1>2, <1>4, <2>1 DEF AnswerKept
<1>10. QED
  BY <1>3, <1>5, <1>6, <1>7, <1>8, <1>9 DEF Answer!Next

LEMMA KeptIsComplete ==
    ASSUME QueriesInRange, QueriesProper, \A fs \in TileSets : WellLaid(fs),
           TypeOK, Filtered, AnswerKept
    PROVE  AnswerComplete
<1> SUFFICES ASSUME pc = "exhausted", NEW g \in Geometries, Stored(g), isValid(g.bounds),
                    Intersects(InUnits(g.bounds), queryBounds)
             PROVE  \E i \in 1 .. Len(delivered) : Entity(delivered[i].geometry) = Entity(g)
  BY DEF AnswerComplete
<1>1. /\ queryBounds \in Queries /\ queryBounds \in BoxType /\ box_ \in EnvelopeType
      /\ queryBounds.minx <= queryBounds.maxx /\ queryBounds.miny <= queryBounds.maxy
      /\ g \in GeometryType
  BY GeometriesAssumption DEF TypeOK, Filtered, QueriesProper
<1>2. FoundWhereItLies(disk, g)
  <2>1. PICK t \in Tiles : disk[t] # Missing /\ \E k \in 1 .. Len(disk[t]) : disk[t][k] = g
    BY DEF Stored
  <2>2. disk[t] \in Seq(Geometries)
    BY <2>1 DEF TypeOK
  <2>3. DOMAIN disk[t] = 1 .. Len(disk[t])
    BY <2>2
  <2>4. WellLaid(disk)
    BY DEF AnswerKept
  <2>5. QED
    BY <2>1, <2>3, <2>4, Zenon DEF WellLaid
<1>3. PICK t \in Relevant(disk, queryBounds) : \E k \in DOMAIN disk[t] : disk[t][k] = g
  BY <1>1, <1>2, MeetingIsRelevant
<1>4. PICK k \in DOMAIN disk[t] : disk[t][k] = g
  BY <1>3
<1>5. Accepts(g, box_)
  <2>1. /\ box_.xMin = Truncate(queryBounds.minx) /\ box_.xMax = Truncate(queryBounds.maxx)
        /\ box_.yMin = Truncate(queryBounds.miny) /\ box_.yMax = Truncate(queryBounds.maxy)
    BY <1>1, TruncatedBox DEF Filtered, QueriesInRange
  <2>2. QED
    BY <1>1, <2>1, MeetingIsAccepted
<1>6. <<t, k>> \in Matches(disk, queryBounds, box_)
  BY <1>4, <1>5 DEF Matches
<1>7. Item(g) \in Wanted
  <2>1. g \in {disk[c[1]][c[2]] : c \in Matches(disk, queryBounds, box_)}
    BY <1>4, <1>6
  <2>2. QED
    BY <2>1, Zenon DEF Wanted
<1>8. Item(g) \in Returned
  <2>1. Phase = "ended"
    BY DEF Phase
  <2>2. QED
    BY <1>7, <2>1 DEF AnswerKept
<1>9. PICK i \in 1 .. Len(delivered) : Item(g) = Item(delivered[i].geometry)
  BY <1>8, Zenon DEF Returned
<1>10. Entity(g) = Entity(delivered[i].geometry)
  BY <1>9 DEF Item
<1>11. QED
  BY <1>10

(* If the copies of an entity are alike, and each geometry can be found    *)
(* wherever it lies, then no entity that meets the query box is left out   *)
(* when next() returns null in a tile set that nobody changes.             *)
THEOREM AnswersInFull ==
    ASSUME MaxChanges = 0, OneGeometryPerEntity, QueriesInRange, QueriesProper,
           \A fs \in TileSets : WellLaid(fs)
    PROVE  Spec => []AnswerComplete
<1>1. Inv /\ Filtered /\ AnswerKept => AnswerComplete
  BY KeptIsComplete DEF Inv
<1>2. Spec => [](Inv /\ Filtered)
  BY InitInv, StepInv, InitFiltered, StepFiltered, PTL DEF Spec
<1>3. Spec => [](Inv /\ OpeningInv)
  BY OpeningInvariance
<1>4. Inv /\ OpeningInv /\ AnswerKept /\ [Next]_vars => AnswerKept'
  BY StepKept
<1>5. QED
  BY <1>1, <1>2, <1>3, <1>4, InitKept, PTL DEF Spec

-----------------------------------------------------------------------------
(* The loops of the constructor and of next() advance: what remains of     *)
(* Termination when fairness is left to TLC.                               *)

FilesFinite == \A fs \in TileSets : IsFiniteSet({t \in Tiles : fs[t] # Missing})

Stage ==
    CASE pc = "buildFileHierarchy" -> 2
      [] pc \in {"idle", "next"} -> 1
      [] pc \in {"exhausted", "destroyed", "crashed"} -> 0

(* What is left to do, the outermost loop first: the stage, the calls of   *)
(* buildFileHierarchy(), the registered files, the records of the open     *)
(* file and its end.                                                       *)
Left == << Stage, CallsLeft(disk, calls), Len(files),
           IF fData = NoFile THEN 0 ELSE Len(fData.rest) + 1 >>

(* No two pending calls come upon the same file, of which there are        *)
(* finitely many.                                                          *)
CallsBounded == Apart(calls) /\ IsFiniteSet(Pending(disk, calls))

LEMMA InitBounded ==
    ASSUME FilesFinite, Init
    PROVE  CallsBounded
<1>1. Len(calls) = 1
  BY DEF Init
<1>2. Apart(calls)
  BY <1>1 DEF Apart
<1>3. IsFiniteSet({t \in Tiles : disk[t] # Missing})
  BY DEF Init, FilesFinite
<1>4. Pending(disk, calls) \subseteq {t \in Tiles : disk[t] # Missing}
  BY DEF Pending, Exists
<1>5. QED
  BY <1>2, <1>3, <1>4, FS_Subset DEF CallsBounded

(* The descent: each call of buildFileHierarchy() leaves fewer to come.    *)
LEMMA CallAdvances ==
    ASSUME TypeOK, CallsBounded, SkipTile \/ RegisterTile
    PROVE  CallsBounded' /\ CallsLeft(disk, calls)' < CallsLeft(disk, calls)
<1>1. calls \in Seq(CallType) /\ calls # <<>> /\ disk' = disk
  BY DEF TypeOK, SkipTile, RegisterTile, diskVars
<1>2. CASE SkipTile
  <2>1. calls' = Tail(calls)
    BY <1>2 DEF SkipTile
  <2>2. Apart(Tail(calls))
    BY <1>1, TailApart DEF CallsBounded
  <2>3. QED
    BY <1>1, <2>1, <2>2, SkipAdvances DEF CallsBounded
<1>3. CASE RegisterTile
  <2>1. calls' = Descended(calls) /\ Exists(disk, Head(calls).path)
    BY <1>3 DEF RegisterTile, Descended
  <2>2. Apart(Descended(calls))
    BY <1>1, DescendApart DEF CallsBounded
  <2>3. QED
    BY <1>1, <2>1, <2>2, DescendAdvances DEF CallsBounded
<1>4. QED
  BY <1>2, <1>3

(* The tile writer adds nothing to be done. *)
LEMMA ChangeRetreatsNot ==
    ASSUME TypeOK, CallsBounded, NEW t \in Tiles, ChangeTile(t)
    PROVE  /\ CallsBounded'
           /\ CallsLeft(disk, calls)' <= CallsLeft(disk, calls)
           /\ UNCHANGED <<pc, files>>
           /\ Left'[4] = Left[4]
<1>1. PICK contents \in {Missing, <<>>} :
         /\ disk' = [disk EXCEPT ![t] = contents]
         /\ fData' = fData \/ (fData # NoFile /\ fData' = [fData EXCEPT !.cut = TRUE])
  BY Zenon DEF ChangeTile
<1>2. /\ UNCHANGED <<pc, calls, files>>
      /\ Exists(disk, t) /\ disk \in [Tiles -> Seq(Geometries) \cup {Missing}]
      /\ calls \in Seq(CallType) /\ fData \in FileType \cup {NoFile}
  BY DEF ChangeTile, TypeOK
<1>3. \A s \in Tiles : Exists(disk', s) => Exists(disk, s)
  BY <1>1, <1>2 DEF Exists
<1>4. /\ IsFiniteSet(Pending(disk', calls))
      /\ CallsLeft(disk', calls) <= CallsLeft(disk, calls)
  BY <1>2, <1>3, FewerFiles DEF CallsBounded
<1>5. Left'[4] = Left[4]
  <2>1. CASE fData' = fData
    BY <2>1 DEF Left
  <2>2. CASE fData # NoFile /\ fData' = [fData EXCEPT !.cut = TRUE]
    <3>1. fData \in FileType /\ fData' \in FileType /\ fData'.rest = fData.rest
      BY <1>2, <2>2 DEF FileType
    <3>2. fData' # NoFile
      BY <3>1, NoFileAssumption
    <3>3. QED
      BY <2>2, <3>1, <3>2 DEF Left
  <2>3. QED
    BY <1>1, <2>1, <2>2
<1>6. QED
  BY <1>2, <1>4, <1>5 DEF CallsBounded

LEMMA LeftType ==
    ASSUME TypeOK, CallsBounded
    PROVE  Left \in Nat \X Nat \X Nat \X Nat
<1>1. Stage \in Nat
  BY DEF TypeOK, Stage
<1>2. CallsLeft(disk, calls) \in Nat
  BY CallsLeftType DEF TypeOK, CallsBounded
<1>3. Len(files) \in Nat
  BY DEF TypeOK
<1>4. (IF fData = NoFile THEN 0 ELSE Len(fData.rest) + 1) \in Nat
  BY DEF TypeOK, FileType
<1>5. QED
  BY <1>1, <1>2, <1>3, <1>4 DEF Left

LEMMA StepAdvances ==
    ASSUME Inv, CallsBounded, [Next]_vars
    PROVE  /\ CallsBounded'
           /\ Constructor \/ NextCall => Below(Left', Left) \/ UNCHANGED vars
           /\ Left' = Left \/ Below(Left', Left)
<1> USE DEF diskVars
<1>0. TypeOK
  BY DEF Inv
<1> DEFINE inFile == IF fData = NoFile THEN 0 ELSE Len(fData.rest) + 1
<1>1. /\ Left = <<Stage, CallsLeft(disk, calls), Len(files), inFile>>
      /\ Left' = <<Stage', CallsLeft(disk, calls)', Len(files)', inFile'>>
      /\ Left[4] = inFile /\ Left'[4] = inFile'
  BY DEF Left
<1>2. \/ Stage' < Stage
      \/ Stage' = Stage /\ CallsLeft(disk, calls)' < CallsLeft(disk, calls)
      \/ /\ Stage' = Stage /\ CallsLeft(disk, calls)' = CallsLeft(disk, calls)
         /\ Len(files)' < Len(files)
      \/ /\ Stage' = Stage /\ CallsLeft(disk, calls)' = CallsLeft(disk, calls)
         /\ Len(files)' = Len(files) /\ inFile' < inFile
      => Below(Left', Left)
  BY <1>1, BelowAt, Zenon
<1>3. ASSUME UNCHANGED <<disk, calls>>
      PROVE  CallsBounded' /\ CallsLeft(disk, calls)' = CallsLeft(disk, calls)
  BY <1>3 DEF CallsBounded, Pending, CallsLeft, Exists, Reaches, Apart
<1> HIDE DEF inFile
<1>4. CASE SkipTile \/ RegisterTile
  <2>1. Stage' = Stage
    BY <1>4 DEF SkipTile, RegisterTile, Stage
  <2>2. QED
    BY <1>0, <1>2, <1>4, <2>1, CallAdvances
<1>5. CASE \/ FinishConstruction \/ OpenFails \/ ReadFails \/ DrawFails
           \/ ReturnNull /\ pc # "exhausted"
  <2>1. Stage' < Stage /\ UNCHANGED <<disk, calls>>
    <3>1. CASE FinishConstruction \/ (ReturnNull /\ pc # "exhausted")
      BY <3>1 DEF FinishConstruction, ReturnNull, InNext, Stage
    <3>2. CASE OpenFails \/ ReadFails \/ DrawFails
      BY <3>2, NotExhausted DEF OpenFails, ReadFails, DrawFails, TakeNew, ReadRecord, Stage
    <3>3. QED
      BY <1>5, <3>1, <3>2
  <2>2. QED
    BY <1>2, <1>3, <2>1
<1>6. CASE OpenFile
  <2>1. Stage' = Stage /\ UNCHANGED <<disk, calls>>
    BY <1>6, NotExhausted DEF OpenFile, Stage
  <2>2. Len(files') < Len(files)
    BY <1>0, <1>6, PopBack DEF OpenFile, TypeOK
  <2>3. QED
    BY <1>2, <1>3, <2>1, <2>2
<1>7. CASE CloseFile
  <2>1. Stage' = Stage /\ UNCHANGED <<disk, calls, files>> /\ fData # NoFile /\ fData' = NoFile
    BY <1>7, NotExhausted DEF CloseFile, Stage
  <2>2. fData \in FileType
    BY <1>0, <2>1 DEF TypeOK
  <2>3. inFile' < inFile
    BY <2>1, <2>2 DEF inFile, FileType
  <2>4. QED
    BY <1>2, <1>3, <2>1, <2>3
<1>8. CASE SkipReturned \/ DropGeometry \/ ReturnFeature
  <2>1. ReadRecord /\ pc' \in {"idle", "next"}
    BY <1>8 DEF SkipReturned, DropGeometry, ReturnFeature, TakeNew
  <2>2. Stage' = Stage /\ UNCHANGED <<disk, calls, files>>
    BY <2>1, NotExhausted DEF ReadRecord, Stage
  <2>3. /\ fData # NoFile /\ fData \in FileType /\ fData.rest # <<>>
        /\ fData' = [fData EXCEPT !.rest = Tail(fData.rest)]
    BY <1>0, <2>1 DEF ReadRecord, TypeOK
  <2>4. fData' \in FileType /\ fData'.rest = Tail(fData.rest)
    BY <1>0, <2>1, <2>3, ReadEffect DEF FileType
  <2>5. fData' # NoFile
    BY <2>4, NoFileAssumption
  <2>6. PICK rest \in Seq(Geometries) : rest = fData.rest
    BY <2>3 DEF FileType
  <2>7. Len(Tail(rest)) < Len(rest)
    BY <2>3, <2>6
  <2>8. inFile' = Len(Tail(rest)) + 1 /\ inFile = Len(rest) + 1
    BY <2>3, <2>4, <2>5, <2>6 DEF inFile
  <2>9. Len(Tail(rest)) \in Nat /\ Len(rest) \in Nat
    BY <2>3, <2>6
  <2>10. inFile' < inFile
    BY <2>7, <2>8, <2>9
  <2>11. QED
    BY <1>2, <1>3, <2>2, <2>10
<1>9. CASE Destroy
  <2>1. /\ UNCHANGED <<disk, calls, files, fData>>
        /\ Stage' = Stage \/ Stage' < Stage
    BY <1>9 DEF Destroy, Stage
  <2>2. ~ (Constructor \/ NextCall)
    BY <1>9 DEF Destroy, Constructor, NextCall, SkipTile, RegisterTile, FinishConstruction,
       OpenFile, OpenFails, CloseFile, ReadFails, SkipReturned, DropGeometry, ReturnFeature,
       DrawFails, TakeNew, ReadRecord, ReturnNull, InNext
  <2>3. QED
    BY <1>1, <1>2, <1>3, <2>1, <2>2 DEF inFile
<1>10. CASE (\E t \in Tiles : ChangeTile(t)) /\ ~ (Constructor \/ NextCall)
  <2>1. PICK t \in Tiles : ChangeTile(t)
    BY <1>10
  <2>2. /\ CallsBounded' /\ CallsLeft(disk, calls)' <= CallsLeft(disk, calls)
        /\ UNCHANGED <<pc, files>> /\ inFile' = inFile
    BY <1>0, <1>1, <2>1, ChangeRetreatsNot
  <2>3. Stage' = Stage
    BY <2>2 DEF Stage
  <2>4. CallsLeft(disk, calls) \in Nat /\ CallsLeft(disk, calls)' \in Nat
    <3>1. calls \in Seq(CallType) /\ calls' = calls
      BY <1>0, <2>1 DEF ChangeTile, TypeOK
    <3>2. QED
      BY <2>2, <3>1, CallsLeftType DEF CallsBounded
  <2>5. CASE CallsLeft(disk, calls)' = CallsLeft(disk, calls)
    BY <1>1, <1>10, <2>2, <2>3, <2>5
  <2>6. CASE CallsLeft(disk, calls)' < CallsLeft(disk, calls)
    BY <1>2, <1>10, <2>2, <2>3, <2>6
  <2>7. QED
    BY <2>2, <2>4, <2>5, <2>6
<1>11. CASE UNCHANGED vars
  <2>1. UNCHANGED <<disk, calls, files, fData, pc>>
    BY <1>11 DEF vars
  <2>2. QED
    BY <1>1, <1>3, <1>11, <2>1 DEF inFile, Stage
<1>12. CASE ReturnNull /\ pc = "exhausted"
  <2>1. UNCHANGED vars
    BY <1>12 DEF ReturnNull, vars, queryVars, returnedVars, rendererVars
  <2>2. QED
    BY <1>11, <2>1
<1>13. QED
  BY <1>4, <1>5, <1>6, <1>7, <1>8, <1>9, <1>10, <1>11, <1>12 DEF Next, Constructor, NextCall

(* Of finitely many files, every step of the constructor and of next(),    *)
(* but null again after null, leaves less to do, in a well-founded order,  *)
(* and neither the renderer nor the tile writer ever adds to it: no handle *)
(* is kept at the end of a file, no tile is come upon twice, and the loops *)
(* can only end.                                                           *)
THEOREM LoopsAdvance ==
    ASSUME FilesFinite
    PROVE  /\ Spec => [](Left \in Nat \X Nat \X Nat \X Nat)
           /\ Spec => [][/\ Constructor \/ NextCall => Below(Left', Left)
                         /\ Left' = Left \/ Below(Left', Left)]_vars
<1>1. Init => CallsBounded
  BY InitBounded
<1>2. Inv /\ CallsBounded /\ [Next]_vars
        => /\ CallsBounded'
           /\ Constructor \/ NextCall => Below(Left', Left) \/ UNCHANGED vars
           /\ Left' = Left \/ Below(Left', Left)
  BY StepAdvances
<1>3. Inv /\ CallsBounded => Left \in Nat \X Nat \X Nat \X Nat
  BY LeftType DEF Inv
<1>4. Spec => []Inv
  BY Invariance
<1>5. Spec => [](Left \in Nat \X Nat \X Nat \X Nat)
  BY <1>1, <1>2, <1>3, <1>4, PTL DEF Spec
<1>6. Spec => [][/\ Constructor \/ NextCall => Below(Left', Left)
                 /\ Left' = Left \/ Below(Left', Left)]_vars
  BY <1>1, <1>2, <1>4, PTL DEF Spec
<1>7. QED
  BY <1>5, <1>6
=============================================================================
