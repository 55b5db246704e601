---------------------- MODULE BufferedFeatureSetProofs ----------------------
(***************************************************************************)
(* Safety of BufferedFeatureSet for every tile set, every query, every     *)
(* number of changes by the tile writer.                                   *)
(***************************************************************************)
EXTENDS BufferedFeatureSet, TileSetProofs

(* The assumptions on the constants, under one name. *)
Constants ==
    /\ Geometries \subseteq GeometryType
    /\ TileSets \subseteq [Tiles -> Seq(Geometries) \cup {Missing}]
    /\ Queries \subseteq BoxType
    /\ Denials \subseteq SUBSET Tiles
    /\ MaxChanges \in Nat

LEMMA ConstantsHold == Constants
BY GeometriesAssumption, DenialsAssumption, BufferedAssumption
   DEF Constants

(* What a tile is loaded into: typed entries, with consecutive addresses   *)
(* none of which was used before.                                          *)
LEMMA NewEntriesType ==
    ASSUME TypeOK, NEW t \in Tiles, files[t] # Missing
    PROVE  /\ NewEntries(t) \in Seq(EntryType)
           /\ Len(NewEntries(t)) = Len(files[t])
           /\ Len(files[t]) \in Nat
           /\ \A k \in 1 .. Len(files[t]) :
                /\ NewEntries(t)[k].addr = allocations + k
                /\ NewEntries(t)[k].zIndex = NewEntries(t)[k].geometry.zIndex
                /\ NewEntries(t)[k].at = <<t, k>>
                /\ NewEntries(t)[k].geometry = files[t][k]
<1>1. files[t] \in Seq(Geometries) /\ allocations \in Nat
  BY DEF TypeOK
<1>2. \A k \in 1 .. Len(files[t]) : NewEntries(t)[k] \in EntryType
  <2> SUFFICES ASSUME NEW k \in 1 .. Len(files[t])
               PROVE  NewEntries(t)[k] \in EntryType
    OBVIOUS
  <2>1. files[t][k] \in Geometries
    BY <1>1
  <2>2. files[t][k].zIndex \in -128 .. 127
    BY <2>1, ConstantsHold DEF Constants, GeometryType
  <2>3. QED
    BY <1>1, <2>1, <2>2 DEF NewEntries, EntryType
<1>3. NewEntries(t) \in [1 .. Len(files[t]) -> EntryType]
  BY <1>2 DEF NewEntries
<1>4. QED
  BY <1>1, <1>3 DEF NewEntries

(* Sorting rearranges: the result is a sequence of the same length, its    *)
(* elements are those of s, each in one place, in descending order.        *)
LEMMA SortingRearranges ==
    ASSUME NEW s \in Seq(EntryType), NEW r \in SortedArrangements(s)
    PROVE  /\ r \in Seq(EntryType)
           /\ Len(r) = Len(s)
           /\ \E p \in [1 .. Len(s) -> 1 .. Len(s)] :
                /\ \A i, j \in 1 .. Len(s) : p[i] = p[j] => i = j
                /\ \A j \in 1 .. Len(s) : \E i \in 1 .. Len(s) : p[i] = j
                /\ \A i \in 1 .. Len(s) : r[i] = s[p[i]]
                /\ \A i, j \in 1 .. Len(s) : i < j => r[i].zIndex >= r[j].zIndex
<1>1. PICK p \in [1 .. Len(s) -> 1 .. Len(s)] :
         /\ r = [i \in 1 .. Len(s) |-> s[p[i]]]
         /\ \A i, j \in 1 .. Len(s) : p[i] = p[j] => i = j
         /\ \A j \in 1 .. Len(s) : \E i \in 1 .. Len(s) : p[i] = j
         /\ \A i, j \in 1 .. Len(s) : i < j => s[p[i]].zIndex >= s[p[j]].zIndex
  BY DEF SortedArrangements
<1>2. \A i \in 1 .. Len(s) : r[i] \in EntryType
  BY <1>1
<1>3. r \in Seq(EntryType) /\ Len(r) = Len(s)
  BY <1>1, <1>2
<1>4. QED
  BY <1>1, <1>3

-----------------------------------------------------------------------------
(* Type correctness *)

LEMMA InitType == Init => TypeOK
<1> SUFFICES ASSUME Init PROVE TypeOK
  OBVIOUS
<1>1. /\ files \in [Tiles -> Seq(Geometries) \cup {Missing}]
      /\ changes \in 0 .. MaxChanges
      /\ changed \subseteq Tiles /\ denied \subseteq Tiles
      /\ queryBounds \in BoxType
  BY ConstantsHold DEF Constants, Init
<1>2. box_ \in EnvelopeType
  BY <1>1, QueryEnvelopesType DEF Init
<1>3. calls \in Seq(CallType)
  BY FirstCallType DEF Init
<1>4. QED
  BY <1>1, <1>2, <1>3 DEF Init, TypeOK, Constructing

(* The innermost pending call. *)
LEMMA HeadCall ==
    ASSUME TypeOK, calls # <<>>
    PROVE  Head(calls) \in CallType /\ Tail(calls) \in Seq(CallType)
BY DEF TypeOK

LEMMA StepType ==
    ASSUME TypeOK, pc = "loadFileContents" => calls # <<>>, [Next]_vars
    PROVE  TypeOK'
<1> USE DEF diskVars, queryVars, heapVars, rendererVars
<1>1. CASE SkipTile
  BY <1>1, HeadCall DEF SkipTile, TypeOK
<1>2. CASE EnterTile
  <2>1. Subcalls(Head(calls)) \o Tail(calls) \in Seq(CallType)
    BY <1>2, HeadCall, SubcallsType DEF EnterTile
  <2>2. QED
    BY <1>2, <2>1 DEF EnterTile, TypeOK, Constructing
<1>3. CASE LoadFileContents
  <2> DEFINE t == Head(calls).path
  <2>1. t \in Tiles /\ files[t] # Missing
    BY <1>3 DEF LoadFileContents, Loadable, Exists
  <2>2. calls' \in Seq(CallType)
    BY <1>3, HeadCall, SubcallsType DEF LoadFileContents
  <2>3. loadedGeometries' \in Seq(EntryType)
    BY <1>3, <2>1, NewEntriesType DEF LoadFileContents, TypeOK
  <2>4. allocations' \in Nat /\ allocated' \subseteq Nat
    <3>1. Len(files[t]) \in Nat /\ allocations \in Nat /\ allocated \subseteq Nat
      BY <2>1, NewEntriesType DEF TypeOK
    <3>2. /\ allocations' = allocations + Len(files[t])
          /\ allocated' = allocated \cup allocations + 1 .. allocations'
      BY <1>3 DEF LoadFileContents
    <3>3. allocations' \in Nat
      BY <3>1, <3>2
    <3>4. \A a \in allocations + 1 .. allocations' : a \in Nat
      BY <3>1, <3>3
    <3>5. QED
      BY <3>1, <3>2, <3>3, <3>4, Zenon
  <2>5. QED
    BY <1>3, <2>2, <2>3, <2>4 DEF LoadFileContents, TypeOK, Constructing
<1>4. CASE LoadFails
  BY <1>4 DEF LoadFails, TypeOK
<1>5. CASE FinishConstruction
  <2>1. loadedGeometries' \in Seq(EntryType)
    BY <1>5, SortingRearranges DEF FinishConstruction, TypeOK
  <2>2. QED
    BY <1>5, <2>1 DEF FinishConstruction, TypeOK
<1>6. ASSUME TakeLast
      PROVE  /\ loadedGeometries' \in Seq(EntryType)
             /\ Back \in EntryType
             /\ allocated' \subseteq Nat
             /\ feature_id_' \in Nat
  <2>1. loadedGeometries \in Seq(EntryType) /\ loadedGeometries # <<>>
    BY <1>6 DEF TakeLast, TypeOK
  <2>2. loadedGeometries' \in Seq(EntryType) /\ Back \in EntryType
    BY <1>6, <2>1, PopBack DEF TakeLast, Back
  <2>3. allocated' \subseteq Nat
    BY <1>6, Zenon DEF TakeLast, TypeOK
  <2>4. feature_id_' \in Nat
    BY <1>6 DEF TakeLast, TypeOK
  <2>5. QED
    BY <2>2, <2>3, <2>4
<1>7. CASE DropGeometry
  BY <1>6, <1>7 DEF DropGeometry, TakeLast, TypeOK
<1>8. CASE ReturnFeature
  <2>1. delivered' \in Seq(FeatureRecord)
    BY <1>6, <1>8 DEF ReturnFeature, TypeOK, EntryType, FeatureRecord
  <2>2. QED
    BY <1>6, <1>8, <2>1 DEF ReturnFeature, TakeLast, TypeOK
<1>9. CASE ReturnNull \/ DrawFails
  BY <1>9 DEF ReturnNull, DrawFails, TypeOK
<1>10. CASE Destroy
  <2>1. loadedGeometries' \in Seq(EntryType)
    BY <1>10 DEF Destroy
  <2>2. allocated' \subseteq Nat
    BY <1>10, Zenon DEF Destroy, TypeOK
  <2>3. QED
    BY <1>10, <2>1, <2>2 DEF Destroy, TypeOK
<1>11. ASSUME NEW t \in Tiles, ChangeTile(t)
       PROVE  TypeOK'
  <2>1. files' \in [Tiles -> Seq(Geometries) \cup {Missing}]
    <3>1. PICK contents \in {Missing, <<>>} : files' = [files EXCEPT ![t] = contents]
      BY <1>11 DEF ChangeTile
    <3>2. contents \in Seq(Geometries) \cup {Missing}
      BY <3>1, EmptySeq, Zenon
    <3>3. files \in [Tiles -> Seq(Geometries) \cup {Missing}]
      BY DEF TypeOK
    <3>4. QED
      BY <3>1, <3>2, <3>3
  <2>2. changes' \in 0 .. MaxChanges
    BY <1>11, ConstantsHold DEF ChangeTile, TypeOK, Constants
  <2>3. QED
    BY <1>11, <2>1, <2>2 DEF ChangeTile, TypeOK
<1>12. CASE UNCHANGED vars
  BY <1>12 DEF vars, TypeOK
<1>13. QED
  BY <1>1, <1>2, <1>3, <1>4, <1>5, <1>7, <1>8, <1>9, <1>10, <1>11, <1>12
     DEF Next, Constructor, NextCall

-----------------------------------------------------------------------------
(* How the vector changes *)

Entries == 1 .. Len(loadedGeometries)

(* Loading appends entries whose addresses are the newly allocated ones,   *)
(* the records of the tile in their order.                                 *)
LEMMA LoadEffect ==
    ASSUME Inv, LoadFileContents
    PROVE  \E n, m \in Nat :
             /\ n = Len(loadedGeometries)
             /\ Len(loadedGeometries') = n + m
             /\ allocations' = allocations + m
             /\ allocated' = allocated \cup (allocations + 1 .. allocations + m)
             /\ \A i \in 1 .. n : loadedGeometries'[i] = loadedGeometries[i]
             /\ \A i \in n + 1 .. n + m :
                  /\ loadedGeometries'[i].addr = allocations + (i - n)
                  /\ loadedGeometries'[i].zIndex = loadedGeometries'[i].geometry.zIndex
                  /\ loadedGeometries'[i].at = <<Head(calls).path, i - n>>
                  /\ loadedGeometries'[i].geometry = files[Head(calls).path][i - n]
             /\ m = Len(files[Head(calls).path])
<1> DEFINE t == Head(calls).path
           n == Len(loadedGeometries)
           m == Len(files[t])
<1>1. /\ t \in Tiles /\ files[t] # Missing
      /\ loadedGeometries' = loadedGeometries \o NewEntries(t)
      /\ allocations' = allocations + m
      /\ allocated' = allocated \cup (allocations + 1 .. allocations + m)
  BY DEF LoadFileContents, Loadable, Exists
<1>2. /\ NewEntries(t) \in Seq(EntryType) /\ Len(NewEntries(t)) = m /\ m \in Nat
      /\ \A k \in 1 .. m : /\ NewEntries(t)[k].addr = allocations + k
                          /\ NewEntries(t)[k].zIndex = NewEntries(t)[k].geometry.zIndex
                          /\ NewEntries(t)[k].at = <<t, k>>
                          /\ NewEntries(t)[k].geometry = files[t][k]
  BY <1>1, NewEntriesType DEF Inv
<1>3. loadedGeometries \in Seq(EntryType) /\ n \in Nat
  BY DEF Inv, TypeOK
<1> HIDE DEF t, m, n
<1>4. /\ Len(loadedGeometries') = n + m
      /\ \A i \in 1 .. n : loadedGeometries'[i] = loadedGeometries[i]
      /\ \A i \in n + 1 .. n + m : loadedGeometries'[i] = NewEntries(t)[i - n]
  BY <1>1, <1>2, <1>3 DEF n
<1>5. \A i \in n + 1 .. n + m : i - n \in 1 .. m
  BY <1>2, <1>3
<1>6. \A i \in n + 1 .. n + m :
        /\ loadedGeometries'[i].addr = allocations + (i - n)
        /\ loadedGeometries'[i].zIndex = loadedGeometries'[i].geometry.zIndex
        /\ loadedGeometries'[i].at = <<t, i - n>>
        /\ loadedGeometries'[i].geometry = files[t][i - n]
  BY <1>2, <1>4, <1>5, ZenonT(60)
<1>7. n = Len(loadedGeometries) /\ t = Head(calls).path /\ m = Len(files[t])
  BY DEF n, t, m
<1>8. QED
  BY <1>1, <1>2, <1>3, <1>4, <1>6, <1>7, Zenon

(* next() takes the last entry off and leaves the others. *)
LEMMA TakeEffect ==
    ASSUME Inv, TakeLast
    PROVE  \E n \in Nat \ {0} :
             /\ n = Len(loadedGeometries)
             /\ Len(loadedGeometries') = n - 1
             /\ allocations' = allocations
             /\ allocated' = allocated \ {loadedGeometries[n].addr}
             /\ \A i \in 1 .. n - 1 : loadedGeometries'[i] = loadedGeometries[i]
<1>1. loadedGeometries \in Seq(EntryType) /\ loadedGeometries # <<>>
  BY DEF Inv, TypeOK, TakeLast
<1>2. QED
  BY <1>1, PopBack DEF TakeLast, Back

(* The end of the constructor keeps every entry, at a place of its own.    *)
LEMMA FinishEffect ==
    ASSUME Inv, FinishConstruction
    PROVE  /\ Len(loadedGeometries') = Len(loadedGeometries)
           /\ \E p \in [Entries -> Entries] :
                /\ \A i, j \in Entries : p[i] = p[j] => i = j
                /\ \A j \in Entries : \E i \in Entries : p[i] = j
                /\ \A i \in Entries : loadedGeometries'[i] = loadedGeometries[p[i]]
           /\ IsRoad => Sorted'
<1>1. loadedGeometries \in Seq(EntryType)
  BY DEF Inv, TypeOK
<1>2. CASE IsRoad
  <2>1. loadedGeometries' \in SortedArrangements(loadedGeometries)
    BY <1>2 DEF FinishConstruction
  <2>2. PICK p \in [Entries -> Entries] :
           /\ \A i, j \in Entries : p[i] = p[j] => i = j
           /\ \A j \in Entries : \E i \in Entries : p[i] = j
           /\ \A i \in Entries : loadedGeometries'[i] = loadedGeometries[p[i]]
           /\ \A i, j \in Entries :
                i < j => loadedGeometries'[i].zIndex >= loadedGeometries'[j].zIndex
    BY <1>1, <2>1, SortingRearranges DEF Entries
  <2>3. Len(loadedGeometries') = Len(loadedGeometries)
    BY <1>1, <2>1, SortingRearranges
  <2>4. Sorted'
    BY <2>2, <2>3 DEF Sorted, Entries
  <2>5. QED
    BY <2>2, <2>3, <2>4
<1>3. CASE ~ IsRoad
  <2> DEFINE p == [i \in Entries |-> i]
  <2>1. loadedGeometries' = loadedGeometries
    BY <1>3 DEF FinishConstruction
  <2>2. /\ p \in [Entries -> Entries]
        /\ \A i \in Entries : p[i] = i
    OBVIOUS
  <2> HIDE DEF p
  <2>3. QED
    BY <1>3, <2>1, <2>2
<1>4. QED
  BY <1>2, <1>3

-----------------------------------------------------------------------------
(* Every step keeps the heap owned by the vector: what is allocated is     *)
(* appended, what is deleted was taken off, sorting moves addresses only.  *)
LEMMA StepHeap ==
    ASSUME Inv, [Next]_vars
    PROVE  HeapOwned' /\ AddressesAllocated'
<1> USE DEF Entries
<1>0. /\ allocations \in Nat
      /\ Len(loadedGeometries) \in Nat
      /\ allocated = {loadedGeometries[i].addr : i \in Entries}
      /\ \A i, j \in Entries : loadedGeometries[i].addr = loadedGeometries[j].addr => i = j
      /\ \A i \in Entries : loadedGeometries[i].addr \in 1 .. allocations
  BY DEF Inv, TypeOK, HeapOwned, AddressesAllocated
<1>1. CASE LoadFileContents
  <2>1. PICK n, m \in Nat :
           /\ n = Len(loadedGeometries)
           /\ Len(loadedGeometries') = n + m
           /\ allocations' = allocations + m
           /\ allocated' = allocated \cup (allocations + 1 .. allocations + m)
           /\ \A i \in 1 .. n : loadedGeometries'[i] = loadedGeometries[i]
           /\ \A i \in n + 1 .. n + m : loadedGeometries'[i].addr = allocations + (i - n)
    BY <1>1, LoadEffect
  <2>2. \A i \in 1 .. n + m :
           \/ i \in 1 .. n /\ loadedGeometries'[i].addr = loadedGeometries[i].addr
           \/ i \in n + 1 .. n + m /\ loadedGeometries'[i].addr = allocations + (i - n)
    BY <2>1
  <2>3. AddressesAllocated'
    BY <1>0, <2>1, <2>2 DEF AddressesAllocated
  <2>4. \A i, j \in 1 .. n + m :
           loadedGeometries'[i].addr = loadedGeometries'[j].addr => i = j
    BY <1>0, <2>1, <2>2
  <2>5. ASSUME NEW a \in allocated'
        PROVE  \E i \in 1 .. n + m : loadedGeometries'[i].addr = a
    <3>1. CASE a \in allocated
      <4>1. PICK i \in 1 .. n : loadedGeometries[i].addr = a
        BY <1>0, <2>1, <3>1
      <4>2. i \in 1 .. n + m /\ loadedGeometries'[i].addr = a
        BY <2>1, <4>1
      <4>3. QED
        BY <4>2
    <3>2. CASE a \in allocations + 1 .. allocations + m
      <4>1. n + (a - allocations) \in n + 1 .. n + m
        BY <1>0, <2>1, <3>2
      <4>2. loadedGeometries'[n + (a - allocations)].addr = a
        BY <1>0, <2>1, <3>2, <4>1
      <4>3. QED
        BY <2>1, <4>1, <4>2
    <3>3. QED
      BY <2>1, <3>1, <3>2
  <2>6. ASSUME NEW i \in 1 .. n + m
        PROVE  loadedGeometries'[i].addr \in allocated'
    <3>1. CASE i \in 1 .. n
      <4>1. loadedGeometries'[i].addr = loadedGeometries[i].addr
        BY <2>1, <3>1
      <4>2. QED
        BY <1>0, <2>1, <3>1, <4>1
    <3>2. CASE i \in n + 1 .. n + m
      <4>1. /\ loadedGeometries'[i].addr = allocations + (i - n)
            /\ allocations + (i - n) \in allocations + 1 .. allocations + m
        BY <1>0, <2>1, <3>2
      <4>2. QED
        BY <2>1, <4>1
    <3>3. QED
      BY <2>2, <3>1, <3>2
  <2>7. allocated' = {loadedGeometries'[i].addr : i \in 1 .. n + m}
    BY <2>5, <2>6
  <2>8. QED
    BY <2>1, <2>3, <2>4, <2>7 DEF HeapOwned
<1>2. CASE FinishConstruction
  <2>1. PICK p \in [Entries -> Entries] :
           /\ \A i, j \in Entries : p[i] = p[j] => i = j
           /\ \A j \in Entries : \E i \in Entries : p[i] = j
           /\ \A i \in Entries : loadedGeometries'[i] = loadedGeometries[p[i]]
    BY <1>2, FinishEffect
  <2>2. /\ Len(loadedGeometries') = Len(loadedGeometries)
        /\ allocated' = allocated /\ allocations' = allocations
    BY <1>2, FinishEffect DEF FinishConstruction
  <2>3. ASSUME NEW a \in allocated
        PROVE  \E i \in Entries : loadedGeometries'[i].addr = a
    <3>1. PICK j \in Entries : loadedGeometries[j].addr = a
      BY <1>0
    <3>2. PICK i \in Entries : p[i] = j
      BY <2>1, <3>1
    <3>3. QED
      BY <2>1, <3>1, <3>2
  <2>4. HeapOwned'
    <3>1. ASSUME NEW i \in Entries
          PROVE  p[i] \in Entries /\ loadedGeometries'[i] = loadedGeometries[p[i]]
      BY <2>1
    <3>2. ASSUME NEW i \in Entries
          PROVE  loadedGeometries'[i].addr \in allocated
      <4>1. \A j \in Entries : loadedGeometries[j].addr \in allocated
        BY <1>0
      <4>2. QED
        BY <3>1, <4>1
    <3>3. ASSUME NEW i \in Entries, NEW j \in Entries,
                 loadedGeometries'[i].addr = loadedGeometries'[j].addr
          PROVE  i = j
      <4>1. loadedGeometries[p[i]].addr = loadedGeometries[p[j]].addr
        BY <3>1, <3>3
      <4>2. p[i] = p[j]
        BY <1>0, <3>1, <4>1
      <4>3. QED
        BY <2>1, <4>2
    <3>4. allocated = {loadedGeometries'[i].addr : i \in Entries}
      BY <2>3, <3>2
    <3>5. QED
      BY <2>2, <3>3, <3>4 DEF HeapOwned
  <2>5. AddressesAllocated'
    BY <1>0, <2>1, <2>2 DEF AddressesAllocated
  <2>6. QED
    BY <2>4, <2>5
<1>3. CASE TakeLast
  <2>1. PICK n \in Nat \ {0} :
           /\ n = Len(loadedGeometries)
           /\ Len(loadedGeometries') = n - 1
           /\ allocations' = allocations
           /\ allocated' = allocated \ {loadedGeometries[n].addr}
           /\ \A i \in 1 .. n - 1 : loadedGeometries'[i] = loadedGeometries[i]
    BY <1>3, TakeEffect
  <2>2. AddressesAllocated'
    BY <1>0, <2>1 DEF AddressesAllocated
  <2>3. \A i, j \in 1 .. n - 1 :
           loadedGeometries'[i].addr = loadedGeometries'[j].addr => i = j
    BY <1>0, <2>1
  <2>4. ASSUME NEW a \in allocated'
        PROVE  \E i \in 1 .. n - 1 : loadedGeometries'[i].addr = a
    <3>1. PICK i \in 1 .. n : loadedGeometries[i].addr = a /\ a # loadedGeometries[n].addr
      BY <1>0, <2>1
    <3>2. i \in 1 .. n - 1
      BY <2>1, <3>1
    <3>3. QED
      BY <2>1, <3>1, <3>2
  <2>5. ASSUME NEW i \in 1 .. n - 1
        PROVE  loadedGeometries'[i].addr \in allocated'
    <3>1. i \in Entries /\ n \in Entries /\ i # n
      BY <2>1
    <3>2. loadedGeometries[i].addr # loadedGeometries[n].addr
      BY <1>0, <3>1
    <3>3. QED
      BY <1>0, <2>1, <3>1, <3>2
  <2>6. QED
    BY <2>1, <2>2, <2>3, <2>4, <2>5 DEF HeapOwned
<1>4. CASE Destroy
  <2>1. loadedGeometries' = <<>> /\ allocated' = {}
    BY <1>0, <1>4 DEF Destroy
  <2>2. QED
    BY <2>1 DEF HeapOwned, AddressesAllocated
<1>5. CASE UNCHANGED heapVars
  BY <1>5 DEF heapVars, Inv, HeapOwned, AddressesAllocated
<1>6. QED
  BY <1>1, <1>2, <1>3, <1>4, <1>5
     DEF Next, Constructor, NextCall, SkipTile, EnterTile, LoadFails, DropGeometry,
         ReturnFeature, DrawFails, ReturnNull, ChangeTile, vars

-----------------------------------------------------------------------------
(* A file about to be loaded was just seen with contents, and it still has *)
(* them unless somebody has changed it; and null comes when nothing is     *)
(* left.                                                                   *)
LEMMA StepLoad ==
    ASSUME Inv, [Next]_vars
    PROVE  LoadPending' /\ NothingLeft'
<1> USE DEF diskVars, queryVars, heapVars, rendererVars
<1>0. LoadPending /\ NothingLeft /\ files \in [Tiles -> Seq(Geometries) \cup {Missing}]
  BY DEF Inv, TypeOK
<1>1. CASE EnterTile
  <2>1. /\ calls # <<>> /\ files' = files
        /\ pc' = "readFiles" \/ pc' = "loadFileContents"
        /\ pc' = "loadFileContents" =>
              /\ calls' = calls
              /\ Exists(files, Head(calls).path) /\ files[Head(calls).path] # <<>>
    BY <1>1 DEF EnterTile
  <2>2. QED
    BY <2>1 DEF LoadPending, NothingLeft, Exists
<1>2. ASSUME NEW t \in Tiles, ChangeTile(t)
      PROVE  LoadPending' /\ NothingLeft'
  <2>1. PICK contents : files' = [files EXCEPT ![t] = contents]
    BY <1>2 DEF ChangeTile
  <2>2. /\ calls' = calls /\ pc' = pc /\ changed' = changed \cup {t}
        /\ loadedGeometries' = loadedGeometries
    BY <1>2 DEF ChangeTile
  <2>3. \A s \in Tiles : s # t => files'[s] = files[s]
    BY <1>0, <2>1
  <2>4. LoadPending'
    BY <1>0, <2>2, <2>3 DEF LoadPending, Exists
  <2>5. QED
    BY <1>0, <2>2, <2>4 DEF NothingLeft
<1>3. CASE ReturnNull
  BY <1>3 DEF ReturnNull, LoadPending, NothingLeft
<1>4. CASE pc' \in {"readFiles", "idle", "next", "destroyed", "crashed"}
  BY <1>4 DEF LoadPending, NothingLeft
<1>5. CASE UNCHANGED vars
  BY <1>0, <1>5 DEF vars, LoadPending, NothingLeft, Exists
<1>6. QED
  BY <1>1, <1>2, <1>3, <1>4, <1>5
     DEF Next, Constructor, NextCall, SkipTile, LoadFileContents, LoadFails,
         FinishConstruction, DropGeometry, ReturnFeature, DrawFails, Destroy

(* In a road layer nothing left in the vector is below what was returned.  *)
LEMMA StepOrder ==
    ASSUME Inv, [Next]_vars, TypeOK'
    PROVE  SortKeys' /\ RoadOrder' /\ RoadsInOrder'
<1> USE DEF diskVars, queryVars, heapVars, rendererVars, Entries
<1>0. /\ Len(loadedGeometries) \in Nat
      /\ \A i \in Entries : loadedGeometries[i].zIndex = loadedGeometries[i].geometry.zIndex
      /\ RoadOrder /\ RoadsInOrder
      /\ delivered \in Seq(FeatureRecord)
  <2>1. TypeOK /\ SortKeys /\ RoadOrder /\ RoadsInOrder
    BY DEF Inv
  <2>2. loadedGeometries \in Seq(EntryType) /\ delivered \in Seq(FeatureRecord)
    BY <2>1 DEF TypeOK
  <2>3. QED
    BY <2>1, <2>2 DEF SortKeys
<1>1. CASE LoadFileContents
  <2>1. PICK n, m \in Nat :
           /\ n = Len(loadedGeometries)
           /\ Len(loadedGeometries') = n + m
           /\ \A i \in 1 .. n : loadedGeometries'[i] = loadedGeometries[i]
           /\ \A i \in n + 1 .. n + m :
                loadedGeometries'[i].zIndex = loadedGeometries'[i].geometry.zIndex
    BY <1>1, LoadEffect
  <2>2. SortKeys'
    <3>1. ASSUME NEW i \in 1 .. n + m
          PROVE  loadedGeometries'[i].zIndex = loadedGeometries'[i].geometry.zIndex
      <4>1. CASE i \in 1 .. n
        BY <1>0, <2>1, <4>1
      <4>2. CASE i \in n + 1 .. n + m
        BY <2>1, <4>2
      <4>3. QED
        BY <2>1, <4>1, <4>2
    <3>2. QED
      BY <2>1, <3>1 DEF SortKeys
  <2>3. /\ pc = "loadFileContents" /\ pc' = "readFiles" /\ delivered' = delivered
    BY <1>1 DEF LoadFileContents
  <2>4. QED
    BY <1>0, <2>2, <2>3 DEF RoadOrder, RoadsInOrder, Constructing
<1>2. CASE FinishConstruction
  <2>1. PICK p \in [Entries -> Entries] :
           \A i \in Entries : loadedGeometries'[i] = loadedGeometries[p[i]]
    BY <1>2, FinishEffect
  <2>2. /\ Len(loadedGeometries') = Len(loadedGeometries)
        /\ IsRoad => Sorted'
    BY <1>2, FinishEffect
  <2>3. delivered = <<>> /\ delivered' = delivered /\ pc' = "idle"
    BY <1>0, <1>2 DEF FinishConstruction, RoadOrder, Constructing
  <2>4. SortKeys'
    BY <1>0, <2>1, <2>2 DEF SortKeys
  <2>5. DeliveredBelow' /\ RoadsInOrder'
    BY <2>3 DEF DeliveredBelow, RoadsInOrder
  <2>6. QED
    BY <2>2, <2>3, <2>4, <2>5 DEF RoadOrder, Constructing
<1>3. CASE DropGeometry \/ ReturnFeature
  <2>0. TakeLast
    BY <1>3 DEF DropGeometry, ReturnFeature
  <2>1. PICK n \in Nat \ {0} :
           /\ n = Len(loadedGeometries)
           /\ Len(loadedGeometries') = n - 1
           /\ \A i \in 1 .. n - 1 : loadedGeometries'[i] = loadedGeometries[i]
    BY <2>0, TakeEffect
  <2>2. SortKeys'
    BY <1>0, <2>1 DEF SortKeys
  <2>3. pc \in {"idle", "next", "exhausted"}
    BY <2>0 DEF TakeLast, InNext
  <2>4. IsRoad => Sorted /\ DeliveredBelow
    BY <1>0, <2>3 DEF RoadOrder, Constructing
  <2>5. IsRoad => Sorted'
    BY <2>1, <2>4 DEF Sorted
  <2>6. CASE DropGeometry
    <3>1. delivered' = delivered /\ pc' = "next"
      BY <2>6 DEF DropGeometry
    <3>2. IsRoad => DeliveredBelow'
      BY <2>1, <2>4, <3>1 DEF DeliveredBelow
    <3>3. QED
      BY <1>0, <2>2, <2>5, <3>1, <3>2 DEF RoadOrder, RoadsInOrder, Constructing
  <2>7. CASE ReturnFeature
    <3>1. /\ pc' = "idle"
          /\ delivered' = Append(delivered, [id |-> feature_id_, at |-> Back.at,
                                             geometry |-> Back.geometry])
      BY <2>7 DEF ReturnFeature
    <3>2. /\ Len(delivered) \in Nat
          /\ Len(delivered') = Len(delivered) + 1
          /\ \A d \in 1 .. Len(delivered) : delivered'[d] = delivered[d]
          /\ delivered'[Len(delivered) + 1].geometry = loadedGeometries[n].geometry
      BY <1>0, <2>1, <3>1 DEF Back
    <3>3. ASSUME NEW i \in 1 .. n
          PROVE  loadedGeometries[i].zIndex \in Int
      <4>1. loadedGeometries \in Seq(EntryType)
        BY DEF Inv, TypeOK
      <4>2. loadedGeometries[i] \in EntryType
        BY <2>1, <4>1
      <4>3. QED
        BY <4>2 DEF EntryType
    <3>4. ASSUME IsRoad
          PROVE  DeliveredBelow' /\ RoadsInOrder'
      <4>1. loadedGeometries[n].geometry.zIndex = loadedGeometries[n].zIndex
        BY <1>0, <2>1
      <4>2. \A i \in 1 .. n : loadedGeometries[n].zIndex <= loadedGeometries[i].zIndex
        BY <2>1, <2>4, <3>3, <3>4 DEF Sorted
      <4>3. \A d \in 1 .. Len(delivered), i \in 1 .. n :
               delivered[d].geometry.zIndex <= loadedGeometries[i].zIndex
        BY <2>1, <2>4, <3>4 DEF DeliveredBelow
      <4>4. DeliveredBelow'
        BY <2>1, <3>2, <4>1, <4>2, <4>3 DEF DeliveredBelow
      <4>5. RoadsInOrder'
        <5> SUFFICES ASSUME NEW i \in 1 .. Len(delivered) + 1,
                            NEW j \in 1 .. Len(delivered) + 1, i < j
                     PROVE  delivered'[i].geometry.zIndex <= delivered'[j].geometry.zIndex
          BY <3>2 DEF RoadsInOrder
        <5>1. i \in 1 .. Len(delivered)
          BY <3>2
        <5>2. CASE j = Len(delivered) + 1
          BY <2>1, <3>2, <4>1, <4>3, <5>1, <5>2
        <5>3. CASE j \in 1 .. Len(delivered)
          BY <1>0, <3>2, <3>4, <5>1, <5>3 DEF RoadsInOrder
        <5>4. QED
          BY <3>2, <5>2, <5>3, SMTT(30)
      <4>6. QED
        BY <4>4, <4>5
    <3>5. QED
      BY <2>2, <2>5, <3>1, <3>4 DEF RoadOrder, RoadsInOrder, Constructing
  <2>8. QED
    BY <1>3, <2>6, <2>7
<1>4. ASSUME loadedGeometries' = loadedGeometries, delivered' = delivered,
             pc' \in Constructing => pc \in Constructing,
             pc \in Constructing \cup {"crashed"} => pc' \in Constructing \cup {"crashed"}
      PROVE  SortKeys' /\ RoadOrder' /\ RoadsInOrder'
  BY <1>0, <1>4 DEF SortKeys, RoadOrder, Sorted, DeliveredBelow, RoadsInOrder
<1>5. CASE SkipTile \/ EnterTile \/ LoadFails
  <2>1. /\ loadedGeometries' = loadedGeometries /\ delivered' = delivered
        /\ pc \in Constructing /\ pc' \in Constructing \cup {"crashed"}
    BY <1>5 DEF SkipTile, EnterTile, LoadFails, Constructing
  <2>2. QED
    BY <1>4, <2>1
<1>6. CASE ReturnNull \/ DrawFails
  BY <1>4, <1>6 DEF ReturnNull, DrawFails, InNext, Constructing
<1>7. CASE Destroy
  <2>1. /\ loadedGeometries' = <<>> /\ delivered' = delivered
        /\ pc' = "destroyed"
    BY <1>7 DEF Destroy
  <2>2. QED
    BY <1>0, <2>1 DEF SortKeys, RoadOrder, Sorted, DeliveredBelow, RoadsInOrder, Constructing
<1>8. CASE \E t \in Tiles : ChangeTile(t)
  BY <1>4, <1>8 DEF ChangeTile
<1>9. CASE UNCHANGED vars
  BY <1>4, <1>9 DEF vars
<1>10. QED
  BY <1>1, <1>2, <1>3, <1>5, <1>6, <1>7, <1>8, <1>9 DEF Next, Constructor, NextCall

-----------------------------------------------------------------------------
LEMMA InitInv == Init => Inv
<1> SUFFICES ASSUME Init PROVE Inv
  OBVIOUS
<1>1. TypeOK
  BY InitType
<1>2. loadedGeometries = <<>> /\ delivered = <<>> /\ pc = "readFiles" /\ allocated = {}
  BY DEF Init
<1>3. QED
  BY <1>1, <1>2
     DEF Inv, HeapOwned, AddressesAllocated, LoadPending, NothingLeft,
         SortKeys, RoadOrder, RoadsInOrder, Constructing

LEMMA StepInv == Inv /\ [Next]_vars => Inv'
<1> SUFFICES ASSUME Inv, [Next]_vars PROVE Inv'
  OBVIOUS
<1>1. TypeOK'
  BY StepType DEF Inv, LoadPending
<1>2. QED
  BY <1>1, StepHeap, StepLoad, StepOrder DEF Inv

(* Whatever the tile set, the query and the tile writer do, Inv holds. *)
THEOREM Invariance == Spec => []Inv
BY InitInv, StepInv, PTL DEF Spec

(* Every variable of the feature set keeps its type. *)
THEOREM TypeCorrect == Spec => []TypeOK
<1>1. Inv => TypeOK
  BY DEF Inv
<1>2. QED
  BY <1>1, Invariance, PTL

(* The feature set owns every geometry it allocated until it deletes it,   *)
(* and deletes each once: next() and the destructor neither leak one nor   *)
(* free one twice, also when tiles change while they are read.             *)
THEOREM NoLeakNoDoubleDelete == Spec => []HeapOwned
<1>1. Inv => HeapOwned
  BY DEF Inv
<1>2. QED
  BY <1>1, Invariance, PTL

(* The features of a road layer come in ascending order of their z-index,  *)
(* however std::sort arranges equal keys.                                  *)
THEOREM RoadsAscend == Spec => []RoadsInOrder
<1>1. Inv => RoadsInOrder
  BY DEF Inv
<1>2. QED
  BY <1>1, Invariance, PTL

(* The process is lost only to what the tile files are: in the constructor *)
(* to a tile that was changed after its stat(), may not be opened, or ends *)
(* inside a record, in next() to a polygon with a ring beyond the limit.   *)
THEOREM CrashesExplained == Spec => CrashExplained
<1> DEFINE Explained ==
        \/ /\ pc = "loadFileContents"
           /\ LET tile == Head(calls).path
              IN  \/ tile \in changed \cup denied
                  \/ Exists(files, tile) /\ EndsUnfinished(files[tile])
        \/ InNext /\ loadedGeometries # <<>> /\ RingTooLong(Back.geometry)
<1>1. ASSUME Inv, LoadFails
      PROVE  Explained
  BY <1>1 DEF LoadFails, Loadable, Inv, LoadPending
<1>2. ASSUME DrawFails
      PROVE  Explained
  BY <1>2 DEF DrawFails
<1>3. ASSUME Next, pc # "crashed", pc' = "crashed"
      PROVE  LoadFails \/ DrawFails
  BY <1>3
     DEF Next, Constructor, NextCall, SkipTile, EnterTile, LoadFileContents,
         FinishConstruction, DropGeometry, ReturnFeature, ReturnNull, Destroy, ChangeTile
<1>4. Inv /\ [Next]_vars => [pc # "crashed" /\ pc' = "crashed" => Explained]_vars
  BY <1>1, <1>2, <1>3
<1>5. QED
  BY <1>4, Invariance, PTL DEF Spec, CrashExplained
-----------------------------------------------------------------------------
(* The answer, up to less than a centimetre *)

(* Every query box is within the range of int32_t centimetres. *)
QueriesInRange == \A q \in Queries : FitsInt32(q)

(* What a step keeps: the box is that of the query, and everything that    *)
(* was returned has passed it.                                             *)
Filtered ==
    /\ queryBounds \in Queries
    /\ box_ \in QueryEnvelopes(queryBounds)
    /\ \A d \in 1 .. Len(delivered) : Accepts(delivered[d].geometry, box_)

LEMMA InitFiltered == Init => Filtered
BY DEF Init, Filtered

LEMMA StepFiltered == Inv /\ Filtered /\ [Next]_vars => Filtered'
<1> SUFFICES ASSUME Inv, Filtered, [Next]_vars PROVE Filtered'
  OBVIOUS
<1> USE DEF diskVars, queryVars, heapVars, rendererVars
<1>1. queryBounds' = queryBounds /\ box_' = box_
  BY DEF Next, Constructor, NextCall, SkipTile, EnterTile, LoadFileContents, LoadFails,
         FinishConstruction, DropGeometry, ReturnFeature, TakeLast, DrawFails, ReturnNull,
         Destroy, ChangeTile, vars
<1>2. CASE ReturnFeature
  <2>1. /\ Accepts(Back.geometry, box_)
        /\ delivered' = Append(delivered, [id |-> feature_id_, geometry |-> Back.geometry,
                                           at |-> Back.at])
    BY <1>2 DEF ReturnFeature
  <2>2. delivered \in Seq(FeatureRecord)
    BY DEF Inv, TypeOK
  <2>3. /\ Len(delivered') = Len(delivered) + 1 /\ Len(delivered) \in Nat
        /\ \A d \in 1 .. Len(delivered) : delivered'[d] = delivered[d]
        /\ delivered'[Len(delivered) + 1].geometry = Back.geometry
    BY <2>1, <2>2
  <2>4. ASSUME NEW d \in 1 .. Len(delivered')
        PROVE  Accepts(delivered'[d].geometry, box_)
    <3>1. CASE d \in 1 .. Len(delivered)
      BY <2>3, <3>1, Zenon DEF Filtered
    <3>2. CASE d = Len(delivered) + 1
      BY <2>1, <2>3, <3>2, Zenon
    <3>3. QED
      BY <2>3, <3>1, <3>2
  <2>5. QED
    BY <1>1, <2>4, Zenon DEF Filtered
<1>3. CASE delivered' = delivered
  BY <1>1, <1>3, Zenon DEF Filtered
<1>4. QED
  BY <1>2, <1>3
     DEF Next, Constructor, NextCall, SkipTile, EnterTile, LoadFileContents, LoadFails,
         FinishConstruction, DropGeometry, TakeLast, DrawFails, ReturnNull, Destroy,
         ChangeTile, vars

LEMMA FilteredIsSound ==
    ASSUME QueriesInRange, TypeOK, Filtered
    PROVE  AnswerSound
<1> SUFFICES ASSUME NEW i \in 1 .. Len(delivered),
                    FeatureType(delivered[i].geometry) # "POINT"
             PROVE  Intersects(InUnits(delivered[i].geometry.bounds),
                               Widened(queryBounds, UnitsPerCm - 1))
  BY DEF AnswerSound
<1>1. queryBounds \in BoxType /\ box_ \in EnvelopeType
  BY DEF TypeOK
<1>2. delivered[i].geometry \in GeometryType
  <2>1. delivered[i] \in FeatureRecord
    BY DEF TypeOK
  <2>2. QED
    BY <2>1, ConstantsHold DEF FeatureRecord, Constants
<1>3. Accepts(delivered[i].geometry, box_)
  BY DEF Filtered
<1>4. /\ box_.xMin = Truncate(queryBounds.minx) /\ box_.xMax = Truncate(queryBounds.maxx)
      /\ box_.yMin = Truncate(queryBounds.miny) /\ box_.yMax = Truncate(queryBounds.maxy)
  BY TruncatedBox DEF QueriesInRange, Filtered
<1>5. QED
  BY <1>1, <1>2, <1>3, <1>4, AcceptedIsNear

(* When the query boxes are in the range of int32_t centimetres, what is   *)
(* returned misses the query box by less than a centimetre, if at all.     *)
THEOREM AnswersAreNear ==
    ASSUME QueriesInRange
    PROVE  Spec => []AnswerSound
<1>1. Inv /\ Filtered => AnswerSound
  BY FilteredIsSound DEF Inv
<1>2. Spec => [](Inv /\ Filtered)
  BY InitInv, StepInv, InitFiltered, StepFiltered, PTL DEF Spec
<1>3. QED
  BY <1>1, <1>2, PTL
-----------------------------------------------------------------------------
(* No copy twice *)

LEMMA EntryTile ==
    ASSUME TypeOK, NEW i \in 1 .. Len(loadedGeometries)
    PROVE  loadedGeometries[i].at[1] \in Path
<1>1. loadedGeometries[i] \in EntryType
  BY DEF TypeOK
<1>2. QED
  BY <1>1, TilesAssumption DEF EntryType, Path

(* The innermost pending call turns to its children: the subtrees stay     *)
(* apart, nothing new is in them, and the tile itself is in none.          *)
LEMMA CallsDescend ==
    ASSUME TypeOK, SubtreesApart, calls # <<>>,
           calls' = Subcalls(Head(calls)) \o Tail(calls)
    PROVE  /\ SubtreesApart'
           /\ \A p \in Path :
                (p = Head(calls).path \/ \A c \in 1 .. Len(calls) : ~ Under(p, calls[c].path))
                => \A c \in 1 .. Len(calls') : ~ Under(p, calls'[c].path)
<1>1. calls \in Seq(CallType) /\ calls' = Descended(calls)
  BY DEF TypeOK, Descended
<1>2. Apart(calls)
  BY DEF SubtreesApart, Apart
<1>3. /\ Apart(Descended(calls))
      /\ \A p \in Path : (p = Head(calls).path \/ ~ Reaches(calls, p))
                         => ~ Reaches(Descended(calls), p)
  BY <1>1, <1>2, DescendApart
<1>4. QED
  BY <1>1, <1>3 DEF SubtreesApart, Apart, Reaches

LEMMA InitOnce == Init => OnceInv
BY DEF Init, OnceInv, SubtreesApart, NotReadAgain, LoadedOnce, ReturnedOrKept, CopyOnce

(* Nothing is returned before construction is done. *)
LEMMA NothingReturnedYet ==
    ASSUME Inv, pc \in Constructing
    PROVE  delivered = <<>>
BY DEF Inv, RoadOrder

LEMMA StepOnce == Inv /\ OnceInv /\ [Next]_vars => OnceInv'
<1> SUFFICES ASSUME Inv, OnceInv, [Next]_vars PROVE OnceInv'
  OBVIOUS
<1> USE DEF diskVars, queryVars, heapVars, rendererVars
<1>0. /\ TypeOK /\ Len(loadedGeometries) \in Nat
      /\ SubtreesApart /\ NotReadAgain /\ LoadedOnce /\ ReturnedOrKept /\ CopyOnce
  BY DEF Inv, OnceInv, TypeOK
<1>1. CASE SkipTile
  <2>1. /\ calls # <<>> /\ calls' = Tail(calls)
        /\ loadedGeometries' = loadedGeometries /\ delivered' = delivered
    BY <1>1 DEF SkipTile
  <2>2. /\ Len(calls) \in Nat \ {0} /\ Len(calls') = Len(calls) - 1
        /\ \A i \in 1 .. Len(calls) - 1 : calls'[i] = calls[i + 1]
    <3>1. calls \in Seq(CallType)
      BY <1>0 DEF TypeOK
    <3>2. QED
      BY <2>1, <3>1, EmptySeq
  <2>3. \A i \in 1 .. Len(calls') : i + 1 \in 1 .. Len(calls) /\ calls'[i] = calls[i + 1]
    BY <2>2
  <2>4. SubtreesApart'
    <3> SUFFICES ASSUME NEW i \in 1 .. Len(calls'), NEW j \in 1 .. Len(calls'),
                        Under(calls'[i].path, calls'[j].path)
                 PROVE  i = j
      BY DEF SubtreesApart
    <3>1. i + 1 = j + 1
      BY <1>0, <2>3 DEF SubtreesApart
    <3>2. QED
      BY <3>1
  <2>5. NotReadAgain'
    BY <1>0, <2>1, <2>3 DEF NotReadAgain
  <2>6. QED
    BY <1>0, <2>1, <2>4, <2>5 DEF OnceInv, LoadedOnce, ReturnedOrKept, CopyOnce
<1>2. CASE EnterTile
  <2>1. calls # <<>> /\ loadedGeometries' = loadedGeometries /\ delivered' = delivered
    BY <1>2 DEF EnterTile
  <2>2. CASE calls' = calls
    BY <1>0, <2>1, <2>2
       DEF OnceInv, SubtreesApart, NotReadAgain, LoadedOnce, ReturnedOrKept, CopyOnce
  <2>3. CASE calls' = Subcalls(Head(calls)) \o Tail(calls)
    <3>1. /\ SubtreesApart'
          /\ \A p \in Path : (\A c \in 1 .. Len(calls) : ~ Under(p, calls[c].path))
                              => \A c \in 1 .. Len(calls') : ~ Under(p, calls'[c].path)
      BY <1>0, <2>1, <2>3, CallsDescend
    <3>2. NotReadAgain'
      BY <1>0, <2>1, <3>1, EntryTile DEF NotReadAgain
    <3>3. QED
      BY <1>0, <2>1, <3>1, <3>2 DEF OnceInv, LoadedOnce, ReturnedOrKept, CopyOnce
  <2>4. QED
    BY <1>2, <2>2, <2>3 DEF EnterTile
<1>3. CASE LoadFileContents
  <2> DEFINE t == Head(calls).path
  <2>1. /\ calls # <<>> /\ calls' = Subcalls(Head(calls)) \o Tail(calls)
        /\ delivered = <<>> /\ delivered' = <<>>
    BY <1>3, NothingReturnedYet DEF LoadFileContents, Inv, LoadPending, Constructing
  <2>2. PICK n, m \in Nat :
           /\ n = Len(loadedGeometries)
           /\ Len(loadedGeometries') = n + m
           /\ \A i \in 1 .. n : loadedGeometries'[i] = loadedGeometries[i]
           /\ \A i \in n + 1 .. n + m : loadedGeometries'[i].at = <<t, i - n>>
    BY <1>3, LoadEffect
  <2>3. t \in Path /\ 1 \in 1 .. Len(calls) /\ t = calls[1].path
    BY <1>0, <2>1, HeadPath DEF TypeOK
  <2>4. /\ SubtreesApart'
        /\ \A p \in Path :
             (p = t \/ \A c \in 1 .. Len(calls) : ~ Under(p, calls[c].path))
             => \A c \in 1 .. Len(calls') : ~ Under(p, calls'[c].path)
    BY <1>0, <2>1, CallsDescend
  <2>5. \A i \in 1 .. n :
           /\ loadedGeometries[i].at[1] \in Path
           /\ \A c \in 1 .. Len(calls) : ~ Under(loadedGeometries[i].at[1], calls[c].path)
    BY <1>0, <2>2, EntryTile DEF NotReadAgain
  <2>6. \A i \in 1 .. n : loadedGeometries[i].at[1] # t
    BY <2>3, <2>5, UnderItself
  <2>7. \A i \in 1 .. n + m : i \in 1 .. n \/ i \in n + 1 .. n + m
    BY <2>2
  <2>8. NotReadAgain'
    <3>1. ASSUME NEW i \in 1 .. n + m
          PROVE  /\ loadedGeometries'[i].at[1] \in Path
                 /\ \/ loadedGeometries'[i].at[1] = t
                    \/ \A c \in 1 .. Len(calls) :
                          ~ Under(loadedGeometries'[i].at[1], calls[c].path)
      BY <2>2, <2>3, <2>5, <2>7
    <3>2. QED
      BY <2>2, <2>4, <3>1 DEF NotReadAgain
  <2>9. LoadedOnce'
    <3> SUFFICES ASSUME NEW i \in 1 .. n + m, NEW j \in 1 .. n + m,
                        loadedGeometries'[i].at = loadedGeometries'[j].at
                 PROVE  i = j
      BY <2>2 DEF LoadedOnce
    <3>1. CASE i \in 1 .. n /\ j \in 1 .. n
      BY <1>0, <2>2, <3>1 DEF LoadedOnce
    <3>2. CASE i \in n + 1 .. n + m /\ j \in n + 1 .. n + m
      <4>1. i - n = j - n
        BY <2>2, <3>2
      <4>2. QED
        BY <2>2, <4>1
    <3>3. CASE i \in 1 .. n /\ j \in n + 1 .. n + m
      BY <2>2, <2>6, <3>3
    <3>4. CASE i \in n + 1 .. n + m /\ j \in 1 .. n
      BY <2>2, <2>6, <3>4
    <3>5. QED
      BY <2>7, <3>1, <3>2, <3>3, <3>4
  <2>10. QED
    BY <2>1, <2>4, <2>8, <2>9 DEF OnceInv, ReturnedOrKept, CopyOnce
<1>4. CASE FinishConstruction
  <2>1. /\ calls = <<>> /\ calls' = calls
        /\ delivered = <<>> /\ delivered' = <<>>
    BY <1>4, NothingReturnedYet DEF FinishConstruction, Constructing
  <2>2. PICK p \in [Entries -> Entries] :
           /\ \A i, j \in Entries : p[i] = p[j] => i = j
           /\ \A i \in Entries : loadedGeometries'[i] = loadedGeometries[p[i]]
    BY <1>4, FinishEffect
  <2>3. Len(loadedGeometries') = Len(loadedGeometries)
    BY <1>4, FinishEffect
  <2>4. LoadedOnce'
    <3> SUFFICES ASSUME NEW i \in Entries, NEW j \in Entries,
                        loadedGeometries'[i].at = loadedGeometries'[j].at
                 PROVE  i = j
      BY <2>3 DEF LoadedOnce, Entries
    <3>1. p[i] \in Entries /\ p[j] \in Entries
      BY <2>2
    <3>2. loadedGeometries[p[i]].at = loadedGeometries[p[j]].at
      BY <2>2
    <3>3. p[i] = p[j]
      BY <1>0, <3>1, <3>2 DEF LoadedOnce, Entries
    <3>4. QED
      BY <2>2, <3>3
  <2>5. QED
    BY <2>1, <2>4
       DEF OnceInv, SubtreesApart, NotReadAgain, ReturnedOrKept, CopyOnce
<1>5. CASE DropGeometry \/ ReturnFeature
  <2>0. TakeLast /\ calls' = calls
    BY <1>5 DEF DropGeometry, ReturnFeature, TakeLast
  <2>1. PICK n \in Nat \ {0} :
           /\ n = Len(loadedGeometries)
           /\ Len(loadedGeometries') = n - 1
           /\ \A i \in 1 .. n - 1 : loadedGeometries'[i] = loadedGeometries[i]
    BY <2>0, TakeEffect
  <2>2. \A i \in 1 .. n - 1 : i \in 1 .. n /\ i # n
    BY <2>1
  <2>3. SubtreesApart' /\ NotReadAgain' /\ LoadedOnce'
    BY <1>0, <2>0, <2>1, <2>2 DEF SubtreesApart, NotReadAgain, LoadedOnce
  <2>4. CASE DropGeometry
    <3>1. delivered' = delivered
      BY <2>4 DEF DropGeometry
    <3>2. ReturnedOrKept'
      <4> SUFFICES ASSUME NEW d \in 1 .. Len(delivered), NEW i \in 1 .. n - 1
                   PROVE  delivered[d].at # loadedGeometries'[i].at
        BY <2>1, <3>1 DEF ReturnedOrKept
      <4>1. QED
        BY <1>0, <2>1, <2>2 DEF ReturnedOrKept
    <3>3. CopyOnce'
      BY <1>0, <3>1 DEF CopyOnce
    <3>4. QED
      BY <2>3, <3>2, <3>3 DEF OnceInv
  <2>5. CASE ReturnFeature
    <3>1. /\ Len(delivered) \in Nat
          /\ Len(delivered') = Len(delivered) + 1
          /\ \A d \in 1 .. Len(delivered) : delivered'[d] = delivered[d]
          /\ delivered'[Len(delivered) + 1].at = loadedGeometries[n].at
      <4>1. delivered' = Append(delivered, [id |-> feature_id_, geometry |-> Back.geometry,
                                            at |-> Back.at])
        BY <2>5 DEF ReturnFeature
      <4>2. delivered \in Seq(FeatureRecord)
        BY <1>0 DEF TypeOK
      <4>3. QED
        BY <2>1, <4>1, <4>2 DEF Back
    <3>2. \A d \in 1 .. Len(delivered) + 1 :
             d \in 1 .. Len(delivered) \/ d = Len(delivered) + 1
      BY <3>1
    <3>3. n \in 1 .. n
      BY <2>1
    <3>4. ReturnedOrKept'
      <4> SUFFICES ASSUME NEW d \in 1 .. Len(delivered) + 1, NEW i \in 1 .. n - 1
                   PROVE  delivered'[d].at # loadedGeometries'[i].at
        BY <2>1, <3>1 DEF ReturnedOrKept
      <4>1. loadedGeometries'[i] = loadedGeometries[i] /\ i \in 1 .. n /\ i # n
        BY <2>1, <2>2
      <4>2. CASE d \in 1 .. Len(delivered)
        BY <1>0, <2>1, <3>1, <4>1, <4>2 DEF ReturnedOrKept
      <4>3. CASE d = Len(delivered) + 1
        BY <1>0, <2>1, <3>1, <3>3, <4>1, <4>3 DEF LoadedOnce
      <4>4. QED
        BY <3>2, <4>2, <4>3
    <3>5. CopyOnce'
      BY <1>0, <2>1, <3>1, <3>2, <3>3 DEF ReturnedOrKept, CopyOnce
    <3>6. QED
      BY <2>3, <3>4, <3>5 DEF OnceInv
  <2>6. QED
    BY <1>5, <2>4, <2>5
<1>6. CASE Destroy
  <2>1. loadedGeometries' = <<>> /\ calls' = calls /\ delivered' = delivered
    BY <1>6 DEF Destroy
  <2>2. QED
    BY <1>0, <2>1
       DEF OnceInv, SubtreesApart, NotReadAgain, LoadedOnce, ReturnedOrKept, CopyOnce
<1>7. CASE UNCHANGED <<calls, loadedGeometries, delivered>>
  BY <1>0, <1>7
     DEF OnceInv, SubtreesApart, NotReadAgain, LoadedOnce, ReturnedOrKept, CopyOnce
<1>8. QED
  BY <1>1, <1>2, <1>3, <1>4, <1>5, <1>6, <1>7
     DEF Next, Constructor, NextCall, LoadFails, DrawFails, ReturnNull, ChangeTile, vars

LEMMA OnceInvariance == Spec => [](Inv /\ OnceInv)
BY InitInv, StepInv, InitOnce, StepOnce, PTL DEF Spec

(* No file is read twice and no copy of a geometry returned twice, however *)
(* the tiles change during the query.                                      *)
THEOREM NoCopyTwice == Spec => []CopyOnce
<1>1. OnceInv => CopyOnce
  BY DEF OnceInv
<1>2. QED
  BY <1>1, OnceInvariance, PTL
-----------------------------------------------------------------------------
(* The promise of FeatureQuery, once construction is done *)

(* What next() takes off is the item that FeatureQuery returns or, if the  *)
(* box rejects it, no item of the answer: the others are kept.             *)
LEMMA TakeUnreturned ==
    ASSUME Inv, OnceInv, TakeLast, pc' \notin Constructing, pc' # "crashed"
    PROVE  /\ Accepts(Back.geometry, box_) =>
                /\ Item(Back) \in Unreturned
                /\ Unreturned' = Unreturned \ {Item(Back)}
                /\ IsRoad => \A u \in Unreturned : Item(Back).zIndex <= u.zIndex
           /\ ~ Accepts(Back.geometry, box_) => Unreturned' = Unreturned
<1>1. PICK n \in Nat \ {0} :
         /\ n = Len(loadedGeometries)
         /\ Len(loadedGeometries') = n - 1
         /\ \A i \in 1 .. n - 1 : loadedGeometries'[i] = loadedGeometries[i]
  BY TakeEffect
<1>2. /\ box_' = box_ /\ pc \notin Constructing \cup {"crashed"}
      /\ Back = loadedGeometries[n]
  BY <1>1 DEF TakeLast, InNext, queryVars, Constructing, Back
<1>3. /\ Unreturned = {Item(loadedGeometries[i]) :
                          i \in {i \in 1 .. n : Accepts(loadedGeometries[i].geometry, box_)}}
      /\ Unreturned' = {Item(loadedGeometries'[i]) :
                          i \in {i \in 1 .. n - 1 : Accepts(loadedGeometries'[i].geometry, box_)}}
  BY <1>1, <1>2, Zenon DEF Unreturned
<1>4. \A i \in 1 .. n : i \in 1 .. n - 1 <=> i # n
  BY <1>1
<1>5. n \in 1 .. n
  BY <1>1
<1>6. ASSUME NEW u
      PROVE  u \in Unreturned' <=>
               \E i \in 1 .. n : /\ i # n
                                 /\ Accepts(loadedGeometries[i].geometry, box_)
                                 /\ u = Item(loadedGeometries[i])
  <2>1. \A i \in 1 .. n - 1 : i \in 1 .. n
    BY <1>1
  <2>2. QED
    BY <1>1, <1>3, <1>4, <2>1, Zenon
<1>7. ASSUME NEW u
      PROVE  u \in Unreturned <=>
               \E i \in 1 .. n : /\ Accepts(loadedGeometries[i].geometry, box_)
                                 /\ u = Item(loadedGeometries[i])
  BY <1>3, Zenon
<1>8. ASSUME NEW i \in 1 .. n, i # n
      PROVE  Item(loadedGeometries[i]) # Item(Back)
  <2>1. loadedGeometries[i].at # loadedGeometries[n].at
    BY <1>1, <1>5, <1>8 DEF OnceInv, LoadedOnce
  <2>2. QED
    BY <1>2, <2>1 DEF Item
<1>9. CASE Accepts(Back.geometry, box_)
  <2>1. Item(Back) \in Unreturned
    BY <1>2, <1>5, <1>7, <1>9, Zenon
  <2>2. \A u : u \in Unreturned' <=> u \in Unreturned /\ u # Item(Back)
    BY <1>2, <1>6, <1>7, <1>8, Zenon
  <2>3. Unreturned' = Unreturned \ {Item(Back)}
    BY <2>2, Zenon
  <2>4. ASSUME IsRoad, NEW u \in Unreturned
        PROVE  Item(Back).zIndex <= u.zIndex
    <3>1. PICK i \in 1 .. n : u = Item(loadedGeometries[i])
      BY <1>7, <2>4
    <3>2. Sorted
      BY <1>2, <2>4 DEF Inv, RoadOrder, Constructing
    <3>3. loadedGeometries[i].zIndex \in Int
      <4>1. loadedGeometries[i] \in EntryType
        BY <1>1 DEF Inv, TypeOK
      <4>2. QED
        BY <4>1 DEF EntryType
    <3>4. loadedGeometries[n].zIndex <= loadedGeometries[i].zIndex
      BY <1>1, <3>2, <3>3 DEF Sorted
    <3>5. QED
      BY <1>2, <3>1, <3>4 DEF Item
  <2>5. QED
    BY <1>9, <2>1, <2>3, <2>4
<1>10. CASE ~ Accepts(Back.geometry, box_)
  <2>1. \A u : u \in Unreturned' <=> u \in Unreturned
    BY <1>2, <1>6, <1>7, <1>10, Zenon
  <2>2. QED
    BY <1>10, <2>1, Zenon
<1>11. QED
  BY <1>9, <1>10

(* A returned feature is added to what the renderer has been given. *)
LEMMA ReturnGiven ==
    ASSUME Inv, ReturnFeature
    PROVE  Returned' = Returned \cup {Item(Back)}
<1>1. delivered' = Append(delivered, [id |-> feature_id_, geometry |-> Back.geometry,
                                      at |-> Back.at])
  BY DEF ReturnFeature
<1>2. delivered \in Seq(FeatureRecord)
  BY DEF Inv, TypeOK
<1> DEFINE n == Len(delivered)
           Of(f) == [at |-> f.at, zIndex |-> f.geometry.zIndex]
<1>3. /\ n \in Nat /\ Len(delivered') = n + 1
      /\ \A i \in 1 .. n : delivered'[i] = delivered[i]
      /\ delivered'[n + 1].at = Back.at /\ delivered'[n + 1].geometry = Back.geometry
  BY <1>1, <1>2
<1>4. Of(delivered'[n + 1]) = Item(Back)
  <2>1. Back.zIndex = Back.geometry.zIndex
    <3>1. loadedGeometries \in Seq(EntryType) /\ loadedGeometries # <<>>
      BY DEF Inv, TypeOK, ReturnFeature, TakeLast
    <3>2. Len(loadedGeometries) \in 1 .. Len(loadedGeometries)
      BY <3>1, PopBack
    <3>3. QED
      BY <3>2 DEF Inv, SortKeys, Back
  <2>2. QED
    BY <1>3, <2>1 DEF Item
<1>5. /\ Returned = {Of(delivered[i]) : i \in 1 .. n}
      /\ Returned' = {Of(delivered'[i]) : i \in 1 .. n + 1}
  BY <1>3 DEF Returned
<1> HIDE DEF n, Of
<1>6. \A i \in 1 .. n + 1 : i \in 1 .. n \/ i = n + 1
  BY <1>3
<1>7. n + 1 \in 1 .. n + 1 /\ \A i \in 1 .. n : i \in 1 .. n + 1
  BY <1>3
<1>8. \A u : u \in Returned' <=> u \in Returned \/ u = Item(Back)
  BY <1>3, <1>4, <1>5, <1>6, <1>7, Zenon
<1>9. QED
  BY <1>8, Zenon

(* Every step after construction is one of FeatureQuery, or changes        *)
(* nothing that the renderer can tell.                                     *)
LEMMA StepServes ==
    ASSUME Inv, OnceInv, [Next]_vars, pc \notin Constructing
    PROVE  [Answer!Next]_(Answer!vars)
<1> USE DEF diskVars, queryVars, heapVars, rendererVars
<1>0. /\ pc = "exhausted" => loadedGeometries = <<>>
      /\ pc # "crashed" => Remaining = Unreturned
      /\ pc' # "crashed" => Remaining' = Unreturned'
  BY DEF Inv, NothingLeft, Remaining
<1>1. CASE DropGeometry
  <2>1. /\ pc \in {"idle", "next"} /\ pc' = "next" /\ TakeLast /\ delivered' = delivered
        /\ ~ Accepts(Back.geometry, box_)
    BY <1>0, <1>1 DEF DropGeometry, TakeLast, InNext
  <2>2. Remaining' = Remaining
    BY <1>0, <2>1, TakeUnreturned DEF Constructing
  <2>3. Phase' = Phase
    BY <2>1 DEF Phase, Constructing
  <2>4. Returned' = Returned
    BY <2>1 DEF Returned
  <2>5. QED
    BY <2>2, <2>3, <2>4 DEF Answer!vars
<1>2. CASE ReturnFeature
  <2>1. /\ pc \in {"idle", "next"} /\ pc' = "idle" /\ TakeLast
        /\ Accepts(Back.geometry, box_)
    BY <1>0, <1>2 DEF ReturnFeature, TakeLast, InNext
  <2>2. /\ Item(Back) \in Remaining
        /\ Remaining' = Remaining \ {Item(Back)}
        /\ IsRoad => \A u \in Remaining : Item(Back).zIndex <= u.zIndex
    BY <1>0, <2>1, TakeUnreturned DEF Constructing
  <2>3. Phase = "open" /\ Phase' = "open"
    BY <2>1 DEF Phase, Constructing
  <2>4. Returned' = Returned \cup {Item(Back)}
    BY <1>2, ReturnGiven
  <2>5. Answer!Return(Item(Back))
    BY <2>2, <2>3, <2>4 DEF Answer!Return
  <2>6. QED
    BY <2>2, <2>5 DEF Answer!Next
<1>3. CASE ReturnNull /\ pc # "exhausted"
  <2>1. /\ pc \in {"idle", "next"} /\ pc' = "exhausted"
        /\ loadedGeometries = <<>> /\ loadedGeometries' = <<>>
        /\ delivered' = delivered
    BY <1>3 DEF ReturnNull, InNext
  <2>2. Remaining = {} /\ Remaining' = {}
    BY <1>0, <2>1 DEF Unreturned, Constructing
  <2>3. Phase = "open" /\ Phase' = "ended" /\ Returned' = Returned
    BY <2>1 DEF Phase, Constructing, Returned
  <2>4. QED
    BY <2>2, <2>3 DEF Answer!Next, Answer!ReturnNull
<1>4. CASE Destroy
  <2>1. /\ pc \in {"idle", "exhausted"} /\ pc' = "destroyed"
        /\ loadedGeometries' = <<>> /\ delivered' = delivered
    BY <1>4 DEF Destroy
  <2>2. Remaining' = {}
    BY <1>0, <2>1 DEF Unreturned, Constructing
  <2>3. Phase \in {"open", "ended"} /\ Phase' = "closed" /\ Returned' = Returned
    BY <2>1 DEF Phase, Constructing, Returned
  <2>4. QED
    BY <2>2, <2>3 DEF Answer!Next, Answer!Close
<1>5. CASE DrawFails
  <2>1. pc \in {"idle", "next"} /\ pc' = "crashed" /\ delivered' = delivered
    BY <1>0, <1>5 DEF DrawFails, InNext
  <2>2. /\ Phase = "open" /\ Phase' = "closed"
        /\ Remaining' = {} /\ Returned' = Returned
    BY <2>1 DEF Phase, Remaining, Constructing, Returned
  <2>3. QED
    BY <2>2 DEF Answer!Next, Answer!Lose
<1>6. CASE UNCHANGED <<pc, box_, loadedGeometries, delivered>>
  <2>1. Unreturned' = Unreturned
    BY <1>6 DEF Unreturned
  <2>2. Remaining' = Remaining /\ Phase' = Phase /\ Returned' = Returned
    BY <1>6, <2>1 DEF Remaining, Phase, Returned
  <2>3. QED
    BY <2>2 DEF Answer!vars
<1>7. CASE ReturnNull /\ pc = "exhausted"
  BY <1>6, <1>7 DEF ReturnNull
<1>8. QED
  BY <1>1, <1>2, <1>3, <1>4, <1>5, <1>6, <1>7
     DEF Next, Constructor, NextCall, SkipTile, EnterTile, LoadFileContents, LoadFails,
         FinishConstruction, ChangeTile, vars, Constructing

(* Once the constructor is done the feature set behaves as FeatureQuery    *)
(* says, whatever happens to the tiles: each acceptable entry of the       *)
(* vector is returned once, roads in order, null only at the end, unless   *)
(* the feature set is closed or the process lost before.                   *)
THEOREM ServesTheAnswer ==
    Spec => [][pc \notin Constructing => [Answer!Next]_(Answer!vars)]_vars
<1>1. /\ Inv /\ OnceInv /\ [Next]_vars
      => [pc \notin Constructing => [Answer!Next]_(Answer!vars)]_vars
  BY StepServes
<1>2. QED
  BY <1>1, OnceInvariance, PTL DEF Spec
-----------------------------------------------------------------------------
(* The whole promise, while nobody changes the tiles *)

(* Every record of the tile t is in the vector. *)
Loaded(t) ==
    \A k \in 1 .. Len(files[t]) : \E i \in Entries : loadedGeometries[i].at = <<t, k>>

(* While the tiles are read: each relevant tile is loaded or in the        *)
(* subtree of a pending call, and only relevant tiles have been loaded.    *)
OpeningInv ==
    pc \in Constructing =>
        /\ BoundsRight(calls) /\ WayExists(files, calls)
        /\ \A t \in Relevant(files, queryBounds) : Reaches(calls, t) \/ Loaded(t)
        /\ \A i \in Entries :
              \E t \in Relevant(files, queryBounds) : \E k \in 1 .. Len(files[t]) :
                 /\ loadedGeometries[i].at = <<t, k>>
                 /\ loadedGeometries[i].geometry = files[t][k]
        /\ pc = "loadFileContents" => Intersects(queryBounds, Head(calls).tileBounds)

LEMMA InitOpening == Init => OpeningInv
<1> SUFFICES ASSUME Init PROVE OpeningInv
  OBVIOUS
<1>1. BoundsRight(calls) /\ WayExists(files, calls) /\ \A t \in Path : Reaches(calls, t)
  BY FirstCallCovers DEF Init
<1>2. \A t \in Relevant(files, queryBounds) : t \in Path
  BY RelevantIsReachable
<1>3. pc = "readFiles" /\ Entries = {}
  BY DEF Init, Entries
<1>4. QED
  BY <1>1, <1>2, <1>3 DEF OpeningInv

(* The records of a relevant tile. *)
LEMMA RelevantRecords ==
    ASSUME TypeOK, NEW t \in Relevant(files, queryBounds)
    PROVE  /\ t \in Tiles /\ files[t] \in Seq(Geometries)
           /\ \A k \in 1 .. Len(files[t]) :
                k \in Nat /\ files[t][k] \in Geometries /\ files[t][k].zIndex \in -128 .. 127
<1>1. t \in Tiles /\ t \in Path
  BY RelevantIsReachable
<1>2. Exists(files, t)
  BY <1>1, RelevantIsReachable, UnderItself
<1>3. files[t] \in Seq(Geometries)
  BY <1>1, <1>2 DEF TypeOK, Exists
<1>4. \A k \in 1 .. Len(files[t]) : files[t][k] \in Geometries
  BY <1>3
<1>5. \A g \in Geometries : g.zIndex \in -128 .. 127
  BY ConstantsHold DEF Constants, GeometryType
<1>6. QED
  BY <1>1, <1>3, <1>4, <1>5

(* Without changes, only the constructor itself takes steps before its end. *)
LEMMA OpeningSteps ==
    ASSUME MaxChanges = 0, Inv, Next, pc \in Constructing
    PROVE  Constructor
<1>1. changes = 0
  BY DEF Inv, TypeOK
<1>2. ASSUME NEW t \in Tiles
      PROVE  ~ ChangeTile(t)
  BY <1>1 DEF ChangeTile
<1>3. ~ NextCall /\ ~ Destroy
  BY DEF NextCall, DropGeometry, ReturnFeature, TakeLast, DrawFails, ReturnNull, InNext,
         Destroy, Constructing
<1>4. QED
  BY <1>2, <1>3 DEF Next

LEMMA StepOpening ==
    ASSUME MaxChanges = 0, Inv, OpeningInv, Next, pc \in Constructing
    PROVE  OpeningInv'
<1> USE DEF diskVars, queryVars, heapVars, rendererVars
<1> DEFINE tiles == Relevant(files, queryBounds)
           h == Head(calls).path
<1>0. /\ TypeOK /\ calls \in Seq(CallType) /\ queryBounds \in BoxType
      /\ BoundsRight(calls) /\ WayExists(files, calls)
      /\ \A t \in tiles : Reaches(calls, t) \/ Loaded(t)
      /\ \A i \in Entries :
            \E t \in tiles : \E k \in 1 .. Len(files[t]) :
               /\ loadedGeometries[i].at = <<t, k>>
               /\ loadedGeometries[i].geometry = files[t][k]
      /\ \A t \in tiles : t \in Path
  BY RelevantIsReachable DEF Inv, TypeOK, OpeningInv
<1> HIDE DEF tiles, h
<1>1. ASSUME calls # <<>>, files' = files, queryBounds' = queryBounds,
             loadedGeometries' = loadedGeometries, pc' = "readFiles",
             BoundsRight(calls'), WayExists(files, calls'),
             \A t \in tiles : Reaches(calls, t) => Reaches(calls', t) \/ Loaded(t)
      PROVE  OpeningInv'
  <2>1. tiles' = tiles /\ Entries' = Entries
    BY <1>1, Zenon DEF tiles, Entries
  <2>2. ASSUME NEW t \in tiles
        PROVE  Loaded(t) => Loaded(t)'
    BY <1>1, <2>1, Zenon DEF Loaded
  <2>3. WayExists(files', calls') /\ BoundsRight(calls')
    BY <1>1, Zenon
  <2>4. ASSUME NEW t \in tiles'
        PROVE  Reaches(calls', t) \/ Loaded(t)'
    BY <1>0, <1>1, <2>1, <2>2, <2>4, Zenon
  <2>5. \A i \in Entries' :
            \E t \in tiles' : \E k \in 1 .. Len(files'[t]) :
               /\ loadedGeometries'[i].at = <<t, k>>
               /\ loadedGeometries'[i].geometry = files'[t][k]
    BY <1>0, <1>1, <2>1, Zenon
  <2>6. QED
    BY <1>1, <2>3, <2>4, <2>5 DEF OpeningInv, tiles
<1>2. CASE SkipTile
  <2>1. /\ calls # <<>> /\ calls' = Tail(calls) /\ pc = "readFiles" /\ pc' = pc
        /\ files' = files /\ queryBounds' = queryBounds
        /\ loadedGeometries' = loadedGeometries
        /\ ~ Intersects(queryBounds, Head(calls).tileBounds) \/ ~ Exists(files, h)
    BY <1>2 DEF SkipTile, h
  <2>2. /\ BoundsRight(calls') /\ WayExists(files, calls')
        /\ \A t \in tiles : Reaches(calls, t) => Reaches(calls', t)
    BY <1>0, <2>1, SkipKeeps DEF tiles, h
  <2>3. QED
    BY <1>1, <2>1, <2>2
<1>3. CASE EnterTile
  <2>1. /\ calls # <<>> /\ pc = "readFiles"
        /\ files' = files /\ queryBounds' = queryBounds
        /\ loadedGeometries' = loadedGeometries
        /\ Intersects(queryBounds, Head(calls).tileBounds) /\ Exists(files, h)
    BY <1>3 DEF EnterTile, h
  <2>2. CASE files[h] = <<>>
    <3>1. calls' = Descended(calls) /\ pc' = "readFiles"
      BY <1>3, <2>1, <2>2 DEF EnterTile, Descended, h
    <3>2. /\ BoundsRight(calls') /\ WayExists(files, calls')
          /\ \A t \in Path : Reaches(calls, t) => t = h \/ Reaches(calls', t)
      BY <1>0, <2>1, <3>1, DescendKeeps DEF h
    <3>3. Loaded(h)
      BY <2>2 DEF Loaded
    <3>4. \A t \in tiles : Reaches(calls, t) => Reaches(calls', t) \/ Loaded(t)
      BY <1>0, <3>2, <3>3, Zenon
    <3>5. QED
      BY <1>1, <2>1, <3>1, <3>2, <3>4
  <2>3. CASE files[h] # <<>>
    <3>1. calls' = calls /\ pc' = "loadFileContents"
      BY <1>3, <2>3 DEF EnterTile, h
    <3>2. tiles' = tiles /\ Entries' = Entries
      BY <2>1, Zenon DEF tiles, Entries
    <3>3. \A t : Loaded(t)' <=> Loaded(t)
      BY <2>1, <3>2, Zenon DEF Loaded
    <3>4. \A t \in tiles' : Reaches(calls', t) \/ Loaded(t)'
      BY <1>0, <3>1, <3>2, <3>3, Zenon
    <3>5. \A i \in Entries' :
              \E t \in tiles' : \E k \in 1 .. Len(files'[t]) :
                 /\ loadedGeometries'[i].at = <<t, k>>
                 /\ loadedGeometries'[i].geometry = files'[t][k]
      BY <1>0, <2>1, <3>2, Zenon
    <3>6. QED
      BY <1>0, <2>1, <3>1, <3>4, <3>5 DEF OpeningInv, tiles
  <2>4. QED
    BY <2>2, <2>3
<1>4. CASE LoadFileContents
  <2>1. /\ calls # <<>> /\ calls' = Descended(calls) /\ pc = "loadFileContents"
        /\ pc' = "readFiles" /\ files' = files /\ queryBounds' = queryBounds
        /\ Exists(files, h) /\ Intersects(queryBounds, Head(calls).tileBounds)
    BY <1>4 DEF LoadFileContents, Loadable, OpeningInv, Inv, LoadPending, Descended,
                Constructing, h
  <2>2. PICK n, m \in Nat :
           /\ n = Len(loadedGeometries)
           /\ Len(loadedGeometries') = n + m
           /\ \A i \in 1 .. n : loadedGeometries'[i] = loadedGeometries[i]
           /\ \A i \in n + 1 .. n + m :
                /\ loadedGeometries'[i].at = <<h, i - n>>
                /\ loadedGeometries'[i].geometry = files[h][i - n]
           /\ m = Len(files[h])
    BY <1>4, LoadEffect DEF h
  <2>3. h \in tiles
    BY <1>0, <2>1, EnteredIsRelevant DEF tiles, h
  <2>4. /\ BoundsRight(calls') /\ WayExists(files, calls')
        /\ \A t \in Path : Reaches(calls, t) => t = h \/ Reaches(calls', t)
    BY <1>0, <2>1, DescendKeeps DEF h
  <2>5. tiles' = tiles
    BY <2>1, Zenon DEF tiles
  <2>6. Entries = 1 .. n /\ Entries' = 1 .. n + m
    BY <2>2 DEF Entries
  <2>7. ASSUME NEW t, t = h
        PROVE  Loaded(t)'
    <3> SUFFICES ASSUME NEW k \in 1 .. m
                 PROVE  \E i \in 1 .. n + m : loadedGeometries'[i].at = <<t, k>>
      BY <2>1, <2>2, <2>6, <2>7, Zenon DEF Loaded
    <3>1. n + k \in n + 1 .. n + m /\ n + k \in 1 .. n + m /\ (n + k) - n = k
      BY <2>2
    <3>2. QED
      BY <2>2, <2>7, <3>1
  <2>8. ASSUME NEW t, Loaded(t)
        PROVE  Loaded(t)'
    <3> SUFFICES ASSUME NEW k \in 1 .. Len(files[t])
                 PROVE  \E i \in 1 .. n + m : loadedGeometries'[i].at = <<t, k>>
      BY <2>1, <2>6, Zenon DEF Loaded
    <3>1. PICK i \in 1 .. n : loadedGeometries[i].at = <<t, k>>
      BY <2>6, <2>8 DEF Loaded
    <3>2. i \in 1 .. n + m /\ loadedGeometries'[i] = loadedGeometries[i]
      BY <2>2
    <3>3. QED
      BY <3>1, <3>2
  <2>9. ASSUME NEW t \in tiles
        PROVE  Reaches(calls', t) \/ Loaded(t)'
    BY <1>0, <2>4, <2>7, <2>8, <2>9, Zenon
  <2>10. ASSUME NEW i \in 1 .. n + m
         PROVE  \E t \in tiles : \E k \in 1 .. Len(files[t]) :
                   /\ loadedGeometries'[i].at = <<t, k>>
                   /\ loadedGeometries'[i].geometry = files[t][k]
    <3>1. CASE i \in 1 .. n
      <4>1. loadedGeometries'[i] = loadedGeometries[i] /\ i \in Entries
        BY <2>2, <2>6, <3>1
      <4>2. QED
        BY <1>0, <4>1, Zenon
    <3>2. CASE i \in n + 1 .. n + m
      <4>1. i - n \in 1 .. Len(files[h])
        BY <2>2, <3>2
      <4>2. QED
        BY <2>2, <2>3, <3>2, <4>1, Zenon
    <3>3. QED
      BY <2>2, <3>1, <3>2
  <2>11. QED
    <3>1. tiles' = Relevant(files', queryBounds') /\ WayExists(files', calls')
      BY <2>1, <2>4, Zenon DEF tiles
    <3>2. \A t \in tiles' : Reaches(calls', t) \/ Loaded(t)'
      BY <2>5, <2>9, Zenon
    <3>3. \A i \in Entries' :
              \E t \in tiles' : \E k \in 1 .. Len(files'[t]) :
                 /\ loadedGeometries'[i].at = <<t, k>>
                 /\ loadedGeometries'[i].geometry = files'[t][k]
      BY <2>1, <2>5, <2>6, <2>10, Zenon
    <3>4. QED
      BY <2>1, <2>4, <3>1, <3>2, <3>3 DEF OpeningInv
<1>5. CASE FinishConstruction \/ LoadFails
  BY <1>5 DEF FinishConstruction, LoadFails, OpeningInv, Constructing
<1>6. QED
  BY <1>2, <1>3, <1>4, <1>5, OpeningSteps DEF Constructor

(* The end of construction opens the answer: what the vector holds of      *)
(* acceptable entries are the matching copies.                             *)
LEMMA FinishOpens ==
    ASSUME Inv, OpeningInv, FinishConstruction
    PROVE  Unreturned' = Unreturned
<1> DEFINE tiles == Relevant(files, queryBounds)
           ItemOf(c) == [at |-> c, zIndex |-> files[c[1]][c[2]].zIndex]
<1>1. /\ calls = <<>> /\ pc = "readFiles" /\ pc \in Constructing
      /\ pc' = "idle" /\ pc' \notin Constructing
      /\ files' = files /\ box_' = box_
  BY DEF FinishConstruction, diskVars, queryVars, Constructing
<1>2. PICK p \in [Entries -> Entries] :
         /\ \A j \in Entries : \E i \in Entries : p[i] = j
         /\ \A i \in Entries : loadedGeometries'[i] = loadedGeometries[p[i]]
  BY FinishEffect
<1>3. Len(loadedGeometries') = Len(loadedGeometries)
  BY FinishEffect
<1>4. \A t \in tiles : Loaded(t)
  BY <1>1 DEF OpeningInv, Reaches
<1>5. \A i \in Entries :
         \E t \in tiles : \E k \in 1 .. Len(files[t]) :
            /\ loadedGeometries[i].at = <<t, k>>
            /\ loadedGeometries[i].geometry = files[t][k]
            /\ loadedGeometries[i].zIndex = files[t][k].zIndex
  BY <1>1 DEF OpeningInv, Inv, SortKeys, Entries
<1>6. /\ Unreturned = {ItemOf(c) : c \in Matches(files, queryBounds, box_)}
      /\ Unreturned' = {Item(loadedGeometries'[i]) :
                           i \in {i \in Entries : Accepts(loadedGeometries'[i].geometry, box_)}}
  BY <1>1, <1>3, Zenon DEF Unreturned, Entries
<1>7. ASSUME NEW t \in tiles
      PROVE  DOMAIN files[t] = 1 .. Len(files[t])
  <2>1. files[t] \in Seq(Geometries)
    BY RelevantRecords DEF Inv
  <2>2. QED
    BY <2>1
<1>8. ASSUME NEW c
      PROVE  c \in Matches(files, queryBounds, box_) <=>
               \E t \in tiles : \E k \in 1 .. Len(files[t]) :
                  c = <<t, k>> /\ Accepts(files[t][k], box_)
  BY <1>7 DEF Matches
<1> HIDE DEF tiles
<1>9. ASSUME NEW u \in Unreturned
      PROVE  u \in Unreturned'
  <2>0. PICK t \in tiles : \E k \in 1 .. Len(files[t]) :
           u = ItemOf(<<t, k>>) /\ Accepts(files[t][k], box_)
    BY <1>6, <1>8, Zenon
  <2>1. PICK k \in 1 .. Len(files[t]) : u = ItemOf(<<t, k>>) /\ Accepts(files[t][k], box_)
    BY <2>0
  <2>2. PICK j \in Entries : loadedGeometries[j].at = <<t, k>>
    BY <1>4 DEF Loaded
  <2>3. /\ loadedGeometries[j].geometry = files[t][k]
        /\ loadedGeometries[j].zIndex = files[t][k].zIndex
    <3>1. PICK s \in tiles : \E l \in 1 .. Len(files[s]) :
             /\ loadedGeometries[j].at = <<s, l>>
             /\ loadedGeometries[j].geometry = files[s][l]
             /\ loadedGeometries[j].zIndex = files[s][l].zIndex
      BY <1>5
    <3>2. PICK l \in 1 .. Len(files[s]) :
             /\ loadedGeometries[j].at = <<s, l>>
             /\ loadedGeometries[j].geometry = files[s][l]
             /\ loadedGeometries[j].zIndex = files[s][l].zIndex
      BY <3>1
    <3>3. s = t /\ l = k
      BY <2>2, <3>2
    <3>4. QED
      BY <3>2, <3>3
  <2>4. PICK i \in Entries : loadedGeometries'[i] = loadedGeometries[j]
    BY <1>2
  <2>5. u = Item(loadedGeometries'[i])
    BY <2>1, <2>2, <2>3, <2>4 DEF Item
  <2>6. QED
    BY <1>6, <2>1, <2>3, <2>4, <2>5, Zenon
<1>10. ASSUME NEW u, u \in Unreturned'
       PROVE  u \in Unreturned
  <2>1. PICK i \in Entries : /\ u = Item(loadedGeometries'[i])
                             /\ Accepts(loadedGeometries'[i].geometry, box_)
    BY <1>6, <1>10, Zenon
  <2>2. PICK j \in Entries : loadedGeometries'[i] = loadedGeometries[j]
    BY <1>2
  <2>3. PICK t \in tiles : \E k \in 1 .. Len(files[t]) :
           /\ loadedGeometries[j].at = <<t, k>>
           /\ loadedGeometries[j].geometry = files[t][k]
           /\ loadedGeometries[j].zIndex = files[t][k].zIndex
    BY <1>5
  <2>4. PICK k \in 1 .. Len(files[t]) :
           /\ loadedGeometries[j].at = <<t, k>>
           /\ loadedGeometries[j].geometry = files[t][k]
           /\ loadedGeometries[j].zIndex = files[t][k].zIndex
    BY <2>3
  <2>5. <<t, k>> \in Matches(files, queryBounds, box_)
    <3>1. Accepts(files[t][k], box_)
      BY <2>1, <2>2, <2>4
    <3>2. QED
      BY <1>8, <3>1
  <2>6. u = ItemOf(<<t, k>>)
    BY <2>1, <2>2, <2>4 DEF Item
  <2>7. QED
    BY <1>6, <2>5, <2>6, Zenon
<1>11. QED
  BY <1>9, <1>10, Zenon

(* Construction is one step of FeatureQuery, its last, or the loss of the  *)
(* process.                                                                *)
LEMMA StepOpens ==
    ASSUME MaxChanges = 0, Inv, OpeningInv, Next, pc \in Constructing
    PROVE  [Answer!Next]_(Answer!vars)
<1> USE DEF diskVars, queryVars, heapVars, rendererVars
<1>1. CASE SkipTile \/ EnterTile \/ LoadFileContents
  <2>1. /\ pc' \in Constructing
        /\ files' = files /\ queryBounds' = queryBounds /\ box_' = box_
        /\ delivered' = delivered
    BY <1>1 DEF SkipTile, EnterTile, LoadFileContents, Constructing
  <2>2. Unreturned' = Unreturned
    <3> DEFINE Kept == {[at |-> c, zIndex |-> files[c[1]][c[2]].zIndex] :
                           c \in Matches(files, queryBounds, box_)}
    <3>1. Unreturned = Kept
      BY Zenon DEF Unreturned
    <3>2. Unreturned' = Kept'
      BY <2>1, Zenon DEF Unreturned
    <3>3. Kept' = Kept
      BY <2>1, Zenon DEF Matches, Relevant
    <3>4. QED
      BY <3>1, <3>2, <3>3
  <2>3. Phase = "opening" /\ Phase' = "opening" /\ Remaining' = Remaining
    BY <2>1, <2>2 DEF Phase, Remaining, Constructing
  <2>4. Returned' = Returned
    BY <2>1, Zenon DEF Returned
  <2>5. QED
    BY <2>3, <2>4 DEF Answer!vars
<1>2. CASE FinishConstruction
  <2>1. pc = "readFiles" /\ pc' = "idle" /\ delivered' = delivered
    BY <1>2 DEF FinishConstruction
  <2>2. Phase = "opening" /\ Phase' = "open" /\ Returned' = Returned
    BY <2>1 DEF Phase, Returned, Constructing
  <2>3. Unreturned' = Unreturned
    BY <1>2, FinishOpens
  <2>4. Remaining' = Remaining
    BY <2>1, <2>3 DEF Remaining
  <2>5. Answer!Open
    BY <2>2, <2>4 DEF Answer!Open
  <2>6. QED
    BY <2>5 DEF Answer!Next
<1>3. CASE LoadFails
  <2>1. pc = "loadFileContents" /\ pc' = "crashed" /\ delivered' = delivered
    BY <1>3 DEF LoadFails
  <2>2. /\ Phase = "opening" /\ Phase' = "closed"
        /\ Remaining' = {} /\ Returned' = Returned
    BY <2>1 DEF Phase, Remaining, Returned, Constructing
  <2>3. QED
    BY <2>2 DEF Answer!Next, Answer!Lose
<1>4. QED
  BY <1>1, <1>2, <1>3, OpeningSteps DEF Constructor

LEMMA InitAnswer == Init => Answer!Init
<1> SUFFICES ASSUME Init PROVE Answer!Init
  OBVIOUS
<1>1. TypeOK
  BY InitType
<1>2. pc \in Constructing /\ pc = "readFiles" /\ delivered = <<>>
  BY DEF Init, Constructing
<1>3. Phase = "opening" /\ Returned = {}
  BY <1>2 DEF Phase, Returned
<1>4. ASSUME NEW c \in Matches(files, queryBounds, box_)
      PROVE  [at |-> c, zIndex |-> files[c[1]][c[2]].zIndex]
             \in [at : Tiles \X Nat, zIndex : -128 .. 127]
  <2>1. PICK t \in Relevant(files, queryBounds) : c \in {t} \X DOMAIN files[t]
    BY DEF Matches
  <2>2. /\ t \in Tiles /\ DOMAIN files[t] = 1 .. Len(files[t])
        /\ \A k \in 1 .. Len(files[t]) : k \in Nat /\ files[t][k].zIndex \in -128 .. 127
    BY <1>1, RelevantRecords, SMTT(30)
  <2>3. /\ c \in Tiles \X Nat /\ c[1] = t /\ c[2] \in 1 .. Len(files[t])
    BY <2>1, <2>2
  <2>4. QED
    BY <2>2, <2>3
<1>5. Unreturned \in SUBSET [at : Tiles \X Nat, zIndex : -128 .. 127]
  BY <1>2, <1>4, ZenonT(60) DEF Unreturned
<1>6. Remaining = Unreturned
  BY <1>2 DEF Remaining
<1>7. QED
  BY <1>3, <1>5, <1>6 DEF Answer!Init

(* Only relevant tiles are loaded, and no relevant tile is forgotten. *)
LEMMA OpeningInvariance ==
    ASSUME MaxChanges = 0
    PROVE  Spec => [](Inv /\ OnceInv /\ OpeningInv)
<1>1. OpeningInv /\ Inv /\ [Next]_vars => OpeningInv'
  <2> SUFFICES ASSUME OpeningInv, Inv, [Next]_vars PROVE OpeningInv'
    OBVIOUS
  <2>1. CASE Next /\ pc \in Constructing
    BY <2>1, StepOpening
  <2>2. CASE Next /\ pc \notin Constructing
    <3>1. pc' \notin Constructing
      BY <2>2
         DEF Next, Constructor, NextCall, SkipTile, EnterTile, LoadFileContents, LoadFails,
             FinishConstruction, DropGeometry, ReturnFeature, TakeLast, DrawFails, ReturnNull,
             InNext, Destroy, ChangeTile, Constructing
    <3>2. QED
      BY <3>1 DEF OpeningInv
  <2>3. CASE UNCHANGED vars
    <3>1. UNCHANGED <<files, queryBounds, pc, calls, loadedGeometries>>
      BY <2>3 DEF vars, diskVars, queryVars, heapVars
    <3>2. \A t : Loaded(t)' <=> Loaded(t)
      BY <3>1, Zenon DEF Loaded, Entries
    <3>3. QED
      BY <3>1, <3>2, ZenonT(60) DEF OpeningInv, Entries
  <2>4. QED
    BY <2>1, <2>2, <2>3
<1>2. QED
  BY <1>1, InitOpening, OnceInvariance, PTL DEF Spec

(* While nobody changes the tiles, the buffered feature set implements     *)
(* FeatureQuery: construction gathers exactly the copies that Matches      *)
(* defines, whatever the layout of the tiles, and next() returns each of   *)
(* them once, roads in order, before it returns null, and null again after *)
(* that; only a tile that cannot be loaded or a ring beyond the limit cuts *)
(* the answer short.                                                       *)
THEOREM AnswersTheQuery ==
    ASSUME MaxChanges = 0
    PROVE  Spec => ImplementsFeatureQuery
<1>1. Inv /\ OnceInv /\ OpeningInv /\ [Next]_vars => [Answer!Next]_(Answer!vars)
  <2>1. ASSUME UNCHANGED vars PROVE UNCHANGED Answer!vars
    <3>1. UNCHANGED <<files, queryBounds, box_, pc, loadedGeometries, delivered>>
      BY <2>1 DEF vars, diskVars, queryVars, heapVars, rendererVars
    <3>2. Unreturned' = Unreturned /\ Phase' = Phase /\ Returned' = Returned
      BY <3>1, Zenon DEF Unreturned, Phase, Returned
    <3>3. QED
      BY <3>1, <3>2 DEF Answer!vars, Remaining
  <2>2. QED
    BY <2>1, StepOpens, StepServes
<1>2. QED
  BY <1>1, OpeningInvariance, InitAnswer, PTL DEF Spec, ImplementsFeatureQuery, Answer!Spec
-----------------------------------------------------------------------------
(* Completeness *)

(* Every entry of the vector, and every returned feature, is a record on   *)
(* disk; what is returned and what is left to return make up the answer.   *)
Wanted ==
    {[at |-> c, zIndex |-> files[c[1]][c[2]].zIndex] :
        c \in Matches(files, queryBounds, box_)}

OnDisk(e) == e.geometry = files[e.at[1]][e.at[2]]

AnswerKept ==
    /\ files \in TileSets
    /\ pc \notin {"destroyed", "crashed"} => Unreturned \cup Returned = Wanted
    /\ \A i \in Entries : OnDisk(loadedGeometries[i])
    /\ \A d \in 1 .. Len(delivered) : OnDisk(delivered[d])

LEMMA InitKept == Init => AnswerKept
<1> SUFFICES ASSUME Init PROVE AnswerKept
  OBVIOUS
<1>1. /\ files \in TileSets /\ pc = "readFiles" /\ pc \in Constructing
      /\ loadedGeometries = <<>> /\ delivered = <<>>
  BY DEF Init, Constructing
<1>2. Unreturned = Wanted
  BY <1>1, Zenon DEF Unreturned, Wanted
<1>3. Returned = {}
  BY <1>1 DEF Returned
<1>4. QED
  BY <1>1, <1>2, <1>3 DEF AnswerKept, Entries

(* Without changes, the disk and the query stay as they are. *)
LEMMA NothingChanges ==
    ASSUME MaxChanges = 0, Inv, [Next]_vars
    PROVE  /\ UNCHANGED <<files, queryBounds, box_>>
           /\ pc \in {"destroyed", "crashed"} => UNCHANGED vars
<1>1. changes = 0
  BY DEF Inv, TypeOK
<1>2. \A t \in Tiles : ~ ChangeTile(t)
  BY <1>1 DEF ChangeTile
<1>3. QED
  BY <1>2
     DEF Next, Constructor, NextCall, SkipTile, EnterTile, LoadFileContents, LoadFails,
         FinishConstruction, DropGeometry, ReturnFeature, TakeLast, DrawFails, ReturnNull,
         InNext, Destroy, vars, diskVars, queryVars, heapVars, rendererVars

LEMMA StepOnDisk ==
    ASSUME MaxChanges = 0, Inv, OpeningInv, AnswerKept, [Next]_vars
    PROVE  /\ \A i \in Entries' : OnDisk(loadedGeometries[i])'
           /\ \A d \in 1 .. Len(delivered') : OnDisk(delivered[d])'
<1> USE DEF diskVars, queryVars, heapVars, rendererVars
<1>0. /\ files' = files
      /\ Len(loadedGeometries) \in Nat
      /\ \A i \in Entries : OnDisk(loadedGeometries[i])
      /\ \A d \in 1 .. Len(delivered) : OnDisk(delivered[d])
  BY NothingChanges DEF Inv, TypeOK, AnswerKept
<1>1. ASSUME NEW e, NEW r, r' = e, OnDisk(e)
      PROVE  OnDisk(r)'
  BY <1>0, <1>1 DEF OnDisk
<1>2. CASE LoadFileContents
  <2>1. pc \in Constructing /\ delivered' = delivered
    BY <1>2 DEF LoadFileContents, Constructing
  <2>2. PICK n, m \in Nat :
           /\ n = Len(loadedGeometries)
           /\ Len(loadedGeometries') = n + m
           /\ \A i \in 1 .. n : loadedGeometries'[i] = loadedGeometries[i]
           /\ \A i \in n + 1 .. n + m :
                /\ loadedGeometries'[i].at = <<Head(calls).path, i - n>>
                /\ loadedGeometries'[i].geometry = files[Head(calls).path][i - n]
    BY <1>2, LoadEffect
  <2>3. ASSUME NEW i \in 1 .. n + m
        PROVE  loadedGeometries'[i].geometry
               = files[loadedGeometries'[i].at[1]][loadedGeometries'[i].at[2]]
    <3>1. CASE i \in 1 .. n
      BY <1>0, <2>2, <3>1 DEF OnDisk, Entries
    <3>2. CASE i \in n + 1 .. n + m
      BY <2>2, <3>2
    <3>3. QED
      BY <2>2, <3>1, <3>2
  <2>4. QED
    BY <1>0, <2>1, <2>2, <2>3 DEF OnDisk, Entries
<1>3. CASE FinishConstruction
  <2>1. delivered' = delivered
    BY <1>3 DEF FinishConstruction
  <2>2. PICK p \in [Entries -> Entries] :
           \A i \in Entries : loadedGeometries'[i] = loadedGeometries[p[i]]
    BY <1>3, FinishEffect
  <2>3. Entries' = Entries
    BY <1>3, FinishEffect DEF Entries
  <2>4. \A i \in Entries : p[i] \in Entries
    BY <2>2
  <2>5. QED
    BY <1>0, <2>1, <2>2, <2>3, <2>4 DEF OnDisk
<1>4. CASE DropGeometry \/ ReturnFeature
  <2>0. TakeLast
    BY <1>4 DEF DropGeometry, ReturnFeature
  <2>1. PICK n \in Nat \ {0} :
           /\ n = Len(loadedGeometries)
           /\ Len(loadedGeometries') = n - 1
           /\ \A i \in 1 .. n - 1 : loadedGeometries'[i] = loadedGeometries[i]
    BY <2>0, TakeEffect
  <2>2. \A i \in 1 .. n - 1 : i \in Entries
    BY <2>1 DEF Entries
  <2>3. \A i \in Entries' : OnDisk(loadedGeometries[i])'
    BY <1>0, <2>1, <2>2 DEF OnDisk, Entries
  <2>4. CASE DropGeometry
    <3>1. delivered' = delivered
      BY <2>4 DEF DropGeometry
    <3>2. QED
      BY <1>0, <2>3, <3>1 DEF OnDisk
  <2>5. CASE ReturnFeature
    <3>1. delivered' = Append(delivered, [id |-> feature_id_, geometry |-> Back.geometry,
                                          at |-> Back.at])
      BY <2>5 DEF ReturnFeature
    <3>2. delivered \in Seq(FeatureRecord)
      BY DEF Inv, TypeOK
    <3>3. /\ Len(delivered) \in Nat
          /\ Len(delivered') = Len(delivered) + 1
          /\ \A d \in 1 .. Len(delivered) : delivered'[d] = delivered[d]
          /\ delivered'[Len(delivered) + 1].at = Back.at
          /\ delivered'[Len(delivered) + 1].geometry = Back.geometry
      BY <3>1, <3>2
    <3>4. Back.geometry = files[Back.at[1]][Back.at[2]]
      BY <1>0, <2>1 DEF Back, OnDisk, Entries
    <3>5. ASSUME NEW d \in 1 .. Len(delivered) + 1
          PROVE  delivered'[d].geometry = files[delivered'[d].at[1]][delivered'[d].at[2]]
      <4>1. CASE d \in 1 .. Len(delivered)
        BY <1>0, <3>3, <4>1 DEF OnDisk
      <4>2. CASE d = Len(delivered) + 1
        BY <3>3, <3>4, <4>2
      <4>3. QED
        BY <3>3, <4>1, <4>2
    <3>6. QED
      BY <1>0, <2>3, <3>3, <3>5 DEF OnDisk
  <2>6. QED
    BY <1>4, <2>4, <2>5
<1>5. CASE Destroy
  BY <1>0, <1>5 DEF Destroy, OnDisk, Entries
<1>6. CASE UNCHANGED <<loadedGeometries, delivered>>
  BY <1>0, <1>6 DEF OnDisk, Entries
<1>7. QED
  BY <1>2, <1>3, <1>4, <1>5, <1>6
     DEF Next, Constructor, NextCall, SkipTile, EnterTile, LoadFails, DrawFails, ReturnNull,
         ChangeTile, vars

LEMMA StepKept ==
    ASSUME MaxChanges = 0, Inv, Inv', OnceInv, OpeningInv, AnswerKept, [Next]_vars
    PROVE  AnswerKept'
<1> USE DEF diskVars, queryVars, heapVars, rendererVars
<1>1. /\ UNCHANGED <<files, queryBounds, box_>>
      /\ pc \in {"destroyed", "crashed"} => UNCHANGED vars
  BY NothingChanges
<1>2. files' \in TileSets
  BY <1>1 DEF AnswerKept
<1>3. Wanted' = Wanted
  BY <1>1, Zenon DEF Wanted, Matches, Relevant
<1>4. ASSUME pc' \notin {"destroyed", "crashed"}
      PROVE  Unreturned' \cup Returned' = Wanted'
  <2>1. CASE UNCHANGED vars
    <3>1. UNCHANGED <<pc, files, queryBounds, box_, loadedGeometries, delivered>>
      BY <2>1 DEF vars
    <3>2. /\ Unreturned' = Unreturned /\ Returned' = Returned
          /\ pc \notin {"destroyed", "crashed"}
      BY <1>4, <3>1, Zenon DEF Unreturned, Returned
    <3>3. QED
      BY <1>3, <3>2 DEF AnswerKept
  <2>2. CASE pc \notin {"destroyed", "crashed"} /\ Next
    <3>1. Unreturned \cup Returned = Wanted
      BY <2>2 DEF AnswerKept
    <3>2. [Answer!Next]_(Answer!vars)
      BY <2>2, StepOpens, StepServes
    <3>3. Phase' # "closed"
      <4>1. pc' \in Constructing \cup {"idle", "next", "exhausted", "destroyed", "crashed"}
        BY DEF Inv, TypeOK
      <4>2. QED
        BY <1>4, <4>1 DEF Phase, Constructing
    <3>4. Remaining' \cup Returned' = Remaining \cup Returned
      <4>1. CASE Answer!Open \/ Answer!ReturnNull
        BY <4>1, Zenon DEF Answer!Open, Answer!ReturnNull
      <4>2. CASE \E u \in Remaining : Answer!Return(u)
        BY <4>2, Zenon DEF Answer!Return
      <4>3. CASE UNCHANGED Answer!vars
        BY <4>3 DEF Answer!vars
      <4>4. ~ Answer!Close /\ ~ Answer!Lose
        BY <3>3 DEF Answer!Close, Answer!Lose
      <4>5. QED
        BY <3>2, <4>1, <4>2, <4>3, <4>4 DEF Answer!Next
    <3>5. Remaining = Unreturned /\ Remaining' = Unreturned'
      BY <1>4, <2>2 DEF Remaining
    <3>6. QED
      BY <1>3, <3>1, <3>4, <3>5
  <2>3. QED
    BY <1>1, <2>1, <2>2
<1>5. QED
  BY <1>2, <1>4, StepOnDisk DEF AnswerKept

(* The queries are boxes, the corners in their order. *)
QueriesProper == \A q \in Queries : q.minx <= q.maxx /\ q.miny <= q.maxy

LEMMA KeptIsComplete ==
    ASSUME QueriesInRange, QueriesProper, \A fs \in TileSets : WellLaid(fs),
           TypeOK, NothingLeft, Filtered, AnswerKept
    PROVE  AnswerComplete
<1> SUFFICES ASSUME pc = "exhausted", NEW g \in Geometries, Stored(g), isValid(g.bounds),
                    Intersects(InUnits(g.bounds), queryBounds)
             PROVE  Delivered(g)
  BY DEF AnswerComplete
<1>1. /\ queryBounds \in Queries /\ queryBounds \in BoxType /\ box_ \in EnvelopeType
      /\ queryBounds.minx <= queryBounds.maxx /\ queryBounds.miny <= queryBounds.maxy
      /\ g \in GeometryType
  BY ConstantsHold DEF TypeOK, Filtered, QueriesProper, Constants
<1>2. FoundWhereItLies(files, g)
  <2>1. PICK t \in Tiles : files[t] # Missing /\ \E k \in 1 .. Len(files[t]) : files[t][k] = g
    BY DEF Stored
  <2>2. files[t] \in Seq(Geometries)
    BY <2>1 DEF TypeOK
  <2>3. DOMAIN files[t] = 1 .. Len(files[t])
    BY <2>2
  <2>4. WellLaid(files)
    BY DEF AnswerKept
  <2>5. QED
    BY <2>1, <2>3, <2>4, Zenon DEF WellLaid
<1>3. PICK t \in Relevant(files, queryBounds) : \E k \in DOMAIN files[t] : files[t][k] = g
  BY <1>1, <1>2, MeetingIsRelevant
<1>4. PICK k \in DOMAIN files[t] : files[t][k] = g
  BY <1>3
<1>5. Accepts(g, box_)
  <2>1. /\ box_.xMin = Truncate(queryBounds.minx) /\ box_.xMax = Truncate(queryBounds.maxx)
        /\ box_.yMin = Truncate(queryBounds.miny) /\ box_.yMax = Truncate(queryBounds.maxy)
    BY <1>1, TruncatedBox DEF Filtered, QueriesInRange
  <2>2. QED
    BY <1>1, <2>1, MeetingIsAccepted
<1>6. <<t, k>> \in Matches(files, queryBounds, box_)
  BY <1>4, <1>5 DEF Matches
<1> DEFINE u == [at |-> <<t, k>>, zIndex |-> files[t][k].zIndex]
<1>7. u \in Wanted
  BY <1>6 DEF Wanted
<1>8. Unreturned = {} /\ Unreturned \cup Returned = Wanted
  BY DEF AnswerKept, NothingLeft, Unreturned, Constructing
<1>9. u \in Returned
  BY <1>7, <1>8
<1>10. PICK d \in 1 .. Len(delivered) : delivered[d].at = <<t, k>>
  BY <1>9 DEF Returned
<1>11. delivered[d].geometry = g
  BY <1>4, <1>10 DEF AnswerKept, OnDisk
<1>12. QED
  BY <1>11 DEF Delivered

(* In a tile set that nobody changes, in which each geometry can be found  *)
(* wherever it lies, no geometry that meets the query box is left out when *)
(* next() returns null.                                                    *)
THEOREM AnswersInFull ==
    ASSUME MaxChanges = 0, QueriesInRange, QueriesProper,
           \A fs \in TileSets : WellLaid(fs)
    PROVE  Spec => []AnswerComplete
<1>1. Inv /\ Filtered /\ AnswerKept => AnswerComplete
  BY KeptIsComplete DEF Inv
<1>2. Spec => [](Inv /\ Filtered)
  BY InitInv, StepInv, InitFiltered, StepFiltered, PTL DEF Spec
<1>3. Spec => [](OnceInv /\ OpeningInv)
  BY OnceInvariance, OpeningInvariance, PTL
<1>4. Inv /\ OnceInv /\ OpeningInv /\ AnswerKept /\ [Next]_vars => AnswerKept'
  BY StepInv, StepKept
<1>5. QED
  BY <1>1, <1>2, <1>3, <1>4, InitKept, PTL DEF Spec

-----------------------------------------------------------------------------
(* The loops of the constructor and of next() advance: what remains of     *)
(* Termination when fairness is left to TLC.                               *)

FilesFinite == \A fs \in TileSets : IsFiniteSet({t \in Tiles : fs[t] # Missing})

Stage ==
    CASE pc \in Constructing -> 2
      [] pc \in {"idle", "next"} -> 1
      [] pc \in {"exhausted", "destroyed", "crashed"} -> 0

(* What is left to do, the outermost loop first: the stage, the calls of   *)
(* readFiles(), whether the innermost has yet to find its file, the loaded *)
(* geometries.                                                             *)
Left == << Stage, CallsLeft(files, calls), IF pc = "readFiles" THEN 1 ELSE 0,
           Len(loadedGeometries) >>

(* No two pending calls come upon the same file, of which there are        *)
(* finitely many.                                                          *)
CallsBounded == Apart(calls) /\ IsFiniteSet(Pending(files, calls))

LEMMA InitBounded ==
    ASSUME FilesFinite, Init
    PROVE  CallsBounded
<1>1. Len(calls) = 1
  BY DEF Init
<1>2. Apart(calls)
  BY <1>1 DEF Apart
<1>3. IsFiniteSet({t \in Tiles : files[t] # Missing})
  BY DEF Init, FilesFinite
<1>4. Pending(files, calls) \subseteq {t \in Tiles : files[t] # Missing}
  BY DEF Pending, Exists
<1>5. QED
  BY <1>2, <1>3, <1>4, FS_Subset DEF CallsBounded

(* A call that returns leaves fewer to come. *)
LEMMA ReturnAdvances ==
    ASSUME TypeOK, CallsBounded, calls # <<>>, files' = files,
           \/ calls' = Tail(calls)
           \/ calls' = Descended(calls) /\ Exists(files, Head(calls).path)
    PROVE  CallsBounded' /\ CallsLeft(files, calls)' < CallsLeft(files, calls)
<1>1. calls \in Seq(CallType)
  BY DEF TypeOK
<1>2. CASE calls' = Tail(calls)
  <2>1. Apart(Tail(calls))
    BY <1>1, TailApart DEF CallsBounded
  <2>2. QED
    BY <1>1, <1>2, <2>1, SkipAdvances DEF CallsBounded
<1>3. CASE calls' = Descended(calls) /\ Exists(files, Head(calls).path)
  <2>1. Apart(Descended(calls))
    BY <1>1, DescendApart DEF CallsBounded
  <2>2. QED
    BY <1>1, <1>3, <2>1, DescendAdvances DEF CallsBounded
<1>4. QED
  BY <1>2, <1>3

(* The tile writer adds nothing to be done. *)
LEMMA ChangeRetreatsNot ==
    ASSUME TypeOK, CallsBounded, NEW t \in Tiles, ChangeTile(t)
    PROVE  /\ CallsBounded'
           /\ CallsLeft(files, calls)' <= CallsLeft(files, calls)
           /\ CallsLeft(files, calls)' \in Nat /\ CallsLeft(files, calls) \in Nat
           /\ UNCHANGED <<pc, loadedGeometries>>
<1>1. PICK contents \in {Missing, <<>>} : files' = [files EXCEPT ![t] = contents]
  BY Zenon DEF ChangeTile
<1>2. /\ UNCHANGED <<pc, calls, loadedGeometries>>
      /\ Exists(files, t) /\ files \in [Tiles -> Seq(Geometries) \cup {Missing}]
      /\ calls \in Seq(CallType)
  BY DEF ChangeTile, heapVars, TypeOK
<1>3. \A s \in Tiles : Exists(files', s) => Exists(files, s)
  BY <1>1, <1>2 DEF Exists
<1>4. /\ IsFiniteSet(Pending(files', calls))
      /\ CallsLeft(files', calls) <= CallsLeft(files, calls)
  BY <1>2, <1>3, FewerFiles DEF CallsBounded
<1>5. CallsLeft(files', calls) \in Nat /\ CallsLeft(files, calls) \in Nat
  BY <1>2, <1>4, CallsLeftType DEF CallsBounded
<1>6. QED
  BY <1>2, <1>4, <1>5 DEF CallsBounded

LEMMA LeftType ==
    ASSUME TypeOK, CallsBounded
    PROVE  Left \in Nat \X Nat \X Nat \X Nat
<1>1. Stage \in Nat
  BY DEF TypeOK, Stage, Constructing
<1>2. CallsLeft(files, calls) \in Nat
  BY CallsLeftType DEF TypeOK, CallsBounded
<1>3. Len(loadedGeometries) \in Nat
  BY DEF TypeOK
<1>4. QED
  BY <1>1, <1>2, <1>3 DEF Left

LEMMA StepAdvances ==
    ASSUME Inv, CallsBounded, [Next]_vars
    PROVE  /\ CallsBounded'
           /\ Constructor \/ NextCall => Below(Left', Left) \/ UNCHANGED vars
           /\ Left' = Left \/ Below(Left', Left)
<1> USE DEF diskVars, heapVars
<1> DEFINE toFind == IF pc = "readFiles" THEN 1 ELSE 0
<1>0. TypeOK /\ LoadPending /\ NothingLeft
  BY DEF Inv
<1>1. /\ Left = <<Stage, CallsLeft(files, calls), toFind, Len(loadedGeometries)>>
      /\ Left' = <<Stage', CallsLeft(files, calls)', toFind', Len(loadedGeometries)'>>
  BY DEF Left
<1>2. \/ Stage' < Stage
      \/ Stage' = Stage /\ CallsLeft(files, calls)' < CallsLeft(files, calls)
      \/ /\ Stage' = Stage /\ CallsLeft(files, calls)' = CallsLeft(files, calls)
         /\ toFind' < toFind
      \/ /\ Stage' = Stage /\ CallsLeft(files, calls)' = CallsLeft(files, calls)
         /\ toFind' = toFind /\ Len(loadedGeometries)' < Len(loadedGeometries)
      => Below(Left', Left)
  BY <1>1, BelowAt, Zenon
<1>3. ASSUME UNCHANGED <<files, calls>>
      PROVE  CallsBounded' /\ CallsLeft(files, calls)' = CallsLeft(files, calls)
  BY <1>3 DEF CallsBounded, Pending, CallsLeft, Exists, Reaches, Apart
<1>4. CASE SkipTile
  <2>1. Stage' = Stage /\ calls # <<>> /\ files' = files /\ calls' = Tail(calls)
    BY <1>4 DEF SkipTile, Stage
  <2>2. QED
    BY <1>0, <1>2, <2>1, ReturnAdvances
<1>5. CASE EnterTile
  <2>1. /\ Stage' = Stage /\ calls # <<>> /\ files' = files
        /\ Exists(files, Head(calls).path) /\ pc = "readFiles"
        /\ \/ calls' = Descended(calls)
           \/ calls' = calls /\ pc' = "loadFileContents"
    BY <1>5 DEF EnterTile, Stage, Constructing, Descended
  <2>2. CASE calls' = Descended(calls)
    BY <1>0, <1>2, <2>1, <2>2, ReturnAdvances
  <2>3. CASE calls' = calls /\ pc' = "loadFileContents"
    <3>1. toFind' < toFind
      BY <2>1, <2>3
    <3>2. QED
      BY <1>2, <1>3, <2>1, <2>3, <3>1
  <2>4. QED
    BY <2>1, <2>2, <2>3
<1>6. CASE LoadFileContents
  <2>1. /\ Stage' = Stage /\ calls # <<>> /\ files' = files
        /\ Exists(files, Head(calls).path) /\ calls' = Descended(calls)
    BY <1>0, <1>6 DEF LoadFileContents, Loadable, LoadPending, Stage, Constructing, Descended
  <2>2. QED
    BY <1>0, <1>2, <2>1, ReturnAdvances
<1>7. CASE LoadFails \/ FinishConstruction \/ DrawFails \/ (ReturnNull /\ pc # "exhausted")
  <2>1. Stage' < Stage /\ UNCHANGED <<files, calls>>
    BY <1>0, <1>7 DEF LoadFails, FinishConstruction, DrawFails, ReturnNull, InNext,
                      NothingLeft, Stage, Constructing
  <2>2. QED
    BY <1>2, <1>3, <2>1
<1>8. CASE DropGeometry \/ ReturnFeature
  <2>1. TakeLast /\ pc' \in {"idle", "next"}
    BY <1>8 DEF DropGeometry, ReturnFeature
  <2>2. Stage' = Stage /\ toFind' = toFind /\ UNCHANGED <<files, calls>>
    BY <1>0, <2>1 DEF TakeLast, InNext, NothingLeft, Stage, Constructing
  <2>3. Len(loadedGeometries') < Len(loadedGeometries)
    BY <1>0, <2>1, PopBack DEF TakeLast, TypeOK
  <2>4. QED
    BY <1>2, <1>3, <2>2, <2>3
<1>9. CASE Destroy
  <2>1. /\ UNCHANGED <<files, calls>> /\ toFind' = toFind /\ loadedGeometries' = <<>>
        /\ Stage' = Stage \/ Stage' < Stage
    BY <1>9 DEF Destroy, Stage, Constructing
  <2>2. ~ (Constructor \/ NextCall)
    BY <1>9 DEF Destroy, Constructor, NextCall, SkipTile, EnterTile, LoadFileContents,
       LoadFails, FinishConstruction, DropGeometry, ReturnFeature, DrawFails, ReturnNull
  <2>3. Len(loadedGeometries)' = Len(loadedGeometries)
        \/ Len(loadedGeometries)' < Len(loadedGeometries)
    BY <1>0, <2>1 DEF TypeOK
  <2>4. QED
    BY <1>1, <1>2, <1>3, <2>1, <2>2, <2>3
<1>10. CASE (\E t \in Tiles : ChangeTile(t)) /\ ~ (Constructor \/ NextCall)
  <2>1. PICK t \in Tiles : ChangeTile(t)
    BY <1>10
  <2>2. /\ CallsBounded' /\ CallsLeft(files, calls)' <= CallsLeft(files, calls)
        /\ CallsLeft(files, calls)' \in Nat /\ CallsLeft(files, calls) \in Nat
        /\ UNCHANGED <<pc, loadedGeometries>>
    BY <1>0, <2>1, ChangeRetreatsNot
  <2>3. Stage' = Stage /\ toFind' = toFind
    BY <2>2 DEF Stage
  <2>4. CASE CallsLeft(files, calls)' = CallsLeft(files, calls)
    BY <1>1, <1>10, <2>2, <2>3, <2>4
  <2>5. CASE CallsLeft(files, calls)' < CallsLeft(files, calls)
    BY <1>2, <1>10, <2>2, <2>3, <2>5
  <2>6. QED
    BY <2>2, <2>4, <2>5
<1>11. CASE UNCHANGED vars
  <2>1. UNCHANGED <<files, calls, loadedGeometries, pc>>
    BY <1>11 DEF vars
  <2>2. QED
    BY <1>1, <1>3, <1>11, <2>1 DEF Stage
<1>12. CASE ReturnNull /\ pc = "exhausted"
  <2>1. UNCHANGED vars
    BY <1>12 DEF ReturnNull, vars, queryVars, rendererVars
  <2>2. QED
    BY <1>11, <2>1
<1>13. QED
  BY <1>4, <1>5, <1>6, <1>7, <1>8, <1>9, <1>10, <1>11, <1>12 DEF Next, Constructor, NextCall

(* Of finitely many files, every step of the constructor and of next(),    *)
(* but null again after null, leaves less to do, in a well-founded order,  *)
(* and neither the renderer nor the tile writer ever adds to it: no tile   *)
(* is come upon twice, every turn of the loop of next() takes a geometry   *)
(* off.                                                                    *)
THEOREM LoopsAdvance ==
    ASSUME FilesFinite
    PROVE  /\ Spec => [](Left \in Nat \X Nat \X Nat \X Nat)
           /\ Spec => [][/\ Constructor \/ NextCall => Below(Left', Left)
                         /\ Left' = Left \/ Below(Left', Left)]_vars
<1>1. Init => CallsBounded
  BY InitBounded
<1>2. Inv /\ CallsBounded /\ [Next]_vars
        => /\ CallsBounded'
           /\ Constructor \/ NextCall => Below(Left', Left) \/ UNCHANGED vars
           /\ Left' = Left \/ Below(Left', Left)
  BY StepAdvances
<1>3. Inv /\ CallsBounded => Left \in Nat \X Nat \X Nat \X Nat
  BY LeftType DEF Inv
<1>4. Spec => []Inv
  BY Invariance
<1>5. Spec => [](Left \in Nat \X Nat \X Nat \X Nat)
  BY <1>1, <1>2, <1>3, <1>4, PTL DEF Spec
<1>6. Spec => [][/\ Constructor \/ NextCall => Below(Left', Left)
                 /\ Left' = Left \/ Below(Left', Left)]_vars
  BY <1>1, <1>2, <1>4, PTL DEF Spec
<1>7. QED
  BY <1>5, <1>6
=============================================================================
