------------------------- MODULE BufferedFeatureSet -------------------------
(***************************************************************************)
(* BufferedCoordsFeatureSet (src/src/bufferedCoordsFeatureSet.cc), the     *)
(* feature set the plugin hands to Mapnik: its constructor walks the       *)
(* quadtree of tile files depth first and loads every record of every      *)
(* relevant tile, sorts them when the tile set holds roads, and next()     *)
(* takes them from the back until one passes the query box.                *)
(*                                                                         *)
(* The object belongs to one rendering thread.  The tile files do not: the *)
(* tools that maintain the tile set may remove or empty a file at any      *)
(* moment, in particular between the stat() and the fopen() of one tile,   *)
(* and may have left it in the middle of a record.                         *)
(***************************************************************************)
EXTENDS TileSet

CONSTANTS
    IsRoad,         \* path.find("road") != npos
    TileSets,       \* the tile sets a run may find on disk
    Queries,        \* the query boxes
    MaxChanges      \* bound: how often the tile writer may change a file

ASSUME BufferedAssumption ==
    /\ IsRoad \in BOOLEAN
    /\ TileSets \subseteq [Tiles -> Seq(Geometries) \cup {Missing}]
    /\ \A fs \in TileSets : WrittenInOrder(fs)
    /\ Queries \subseteq BoxType
    /\ MaxChanges \in Nat

VARIABLES
    files,              \* the tile files
    changes,            \* how often the tile writer has changed one
    changed,            \* history: those changed since stat() last found them
    denied,             \* the tiles that fopen() will not open
    queryBounds,
    box_,
    pc,
    calls,              \* pending calls of readFiles(), innermost first
    loadedGeometries,   \* vector of (z-index, pointer) pairs; the pointer is
                        \* its address, and the record there with its origin
    allocated,          \* addresses of the GenericGeometry objects on the heap
    allocations,        \* how many were ever allocated
    feature_id_,
    delivered           \* history: the features next() has returned

diskVars == <<files, changes, changed, denied>>
queryVars == <<queryBounds, box_>>
heapVars == <<loadedGeometries, allocated, allocations>>
rendererVars == <<feature_id_, delivered>>
vars == <<diskVars, queryVars, pc, calls, heapVars, rendererVars>>

(* One loaded geometry; "at" remembers which record of which tile it is.   *)
EntryType == [zIndex : -128 .. 127, addr : Nat, geometry : Geometries,
              at : Tiles \X Nat]

(* A feature, as far as the renderer can tell geometries apart.            *)
FeatureRecord == [id : Nat, geometry : Geometries, at : Tiles \X Nat]

Constructing == {"readFiles", "loadFileContents"}

-----------------------------------------------------------------------------
Init ==
    /\ files \in TileSets
    /\ changes = 0 /\ changed = {}
    /\ denied \in Denials
    /\ queryBounds \in Queries
    /\ box_ \in QueryEnvelopes(queryBounds)
    /\ pc = "readFiles"
    /\ calls = <<Call(<<>>, World)>>
    /\ loadedGeometries = <<>>
    /\ allocated = {}
    /\ allocations = 0
    /\ feature_id_ = 1
    /\ delivered = <<>>

(* readFiles() returns at once: the tile misses the query box or is no     *)
(* regular file.                                                           *)
SkipTile ==
    /\ pc = "readFiles" /\ calls # <<>>
    /\ \/ ~ Intersects(queryBounds, Head(calls).tileBounds)
       \/ ~ Exists(files, Head(calls).path)
    /\ calls' = Tail(calls)
    /\ UNCHANGED <<diskVars, queryVars, pc, heapVars, rendererVars>>

(* Mutants of EnterTile: an empty file ends the descent; and an empty file *)
(* is loaded like any other.                                               *)
EnterTileOrStop ==
    /\ pc = "readFiles" /\ calls # <<>>
    /\ Intersects(queryBounds, Head(calls).tileBounds)
    /\ Exists(files, Head(calls).path)
    /\ IF files[Head(calls).path] = <<>>
       THEN calls' = Tail(calls) /\ UNCHANGED pc
       ELSE pc' = "loadFileContents" /\ UNCHANGED calls
    /\ changed' = changed \ {Head(calls).path}
    /\ UNCHANGED <<files, changes, denied, queryVars, heapVars, rendererVars>>

EnterTileUnmeasured ==
    /\ pc = "readFiles" /\ calls # <<>>
    /\ Intersects(queryBounds, Head(calls).tileBounds)
    /\ Exists(files, Head(calls).path)
    /\ pc' = "loadFileContents"
    /\ changed' = changed \ {Head(calls).path}
    /\ UNCHANGED <<files, changes, denied, queryVars, calls, heapVars, rendererVars>>

(* readFiles() finds a file: an empty one only leads to its children, a    *)
(* file with contents is loaded first.                                     *)
EnterTile ==
    /\ pc = "readFiles" /\ calls # <<>>
    /\ Intersects(queryBounds, Head(calls).tileBounds)
    /\ Exists(files, Head(calls).path)
    /\ IF files[Head(calls).path] = <<>>
       THEN calls' = Subcalls(Head(calls)) \o Tail(calls) /\ UNCHANGED pc
       ELSE pc' = "loadFileContents" /\ UNCHANGED calls
    /\ changed' = changed \ {Head(calls).path}
    /\ UNCHANGED <<files, changes, denied, queryVars, heapVars, rendererVars>>

(* Mutant of NewEntries: the z-index byte is read as unsigned. *)
NewEntriesUnsigned(tile) ==
    [k \in 1 .. Len(files[tile]) |->
        [zIndex |-> files[tile][k].zIndex % 256, addr |-> allocations + k,
         geometry |-> files[tile][k], at |-> <<tile, k>>]]

(* The heap objects loadFileContents() makes of the records of a tile. *)
NewEntries(tile) ==
    [k \in 1 .. Len(files[tile]) |->
        [zIndex |-> files[tile][k].zIndex, addr |-> allocations + k,
         geometry |-> files[tile][k], at |-> <<tile, k>>]]

(* A file can be opened, holds something, and ends with a whole record.    *)
Loadable(tile) ==
    /\ Exists(files, tile) /\ tile \notin denied
    /\ files[tile] # <<>> /\ ~ EndsUnfinished(files[tile])

LoadFileContents ==
    /\ pc = "loadFileContents"
    /\ LET tile == Head(calls).path
       IN  /\ Loadable(tile)
           /\ loadedGeometries' = loadedGeometries \o NewEntries(tile)
           /\ allocations' = allocations + Len(files[tile])
           /\ allocated' = allocated \cup allocations + 1 .. allocations'
    /\ calls' = Subcalls(Head(calls)) \o Tail(calls)
    /\ pc' = "readFiles"
    /\ UNCHANGED <<diskVars, queryVars, rendererVars>>

(* The file that stat() saw is gone or cannot be opened (fseek() on the    *)
(* null that fopen() returned), has been emptied (fread() of nothing, and  *)
(* the assertion on nRead), or ends inside a record (the loop goes on      *)
(* beyond the data, until the assertion behind it).  What the process had  *)
(* loaded until then is lost with it.                                      *)
LoadFails ==
    /\ pc = "loadFileContents"
    /\ ~ Loadable(Head(calls).path)
    /\ pc' = "crashed"
    /\ UNCHANGED <<diskVars, queryVars, calls, heapVars, rendererVars>>

(* Mutant of SortedArrangements: the order a front-to-back reader expects. *)
AscendingArrangements(s) ==
    LET n == Len(s)
        orders == {p \in [1 .. n -> 1 .. n] :
                      /\ {p[i] : i \in 1 .. n} = 1 .. n
                      /\ \A i, j \in 1 .. n : i < j => s[p[i]].zIndex <= s[p[j]].zIndex}
    IN  {[i \in 1 .. n |-> s[p[i]]] : p \in orders}

(* std::sort is not stable: any arrangement with the larger z-indexes      *)
(* first.                                                                  *)
SortedArrangements(s) ==
    LET n == Len(s)
        Sorting(p) == /\ \A i, j \in 1 .. n : p[i] = p[j] => i = j
                      /\ \A j \in 1 .. n : \E i \in 1 .. n : p[i] = j
                      /\ \A i, j \in 1 .. n : i < j => s[p[i]].zIndex >= s[p[j]].zIndex
    IN  {[i \in 1 .. n |-> s[p[i]]] : p \in {p \in [1 .. n -> 1 .. n] : Sorting(p)}}

(* Mutant of FinishConstruction: roads are not sorted. *)
FinishUnsorted ==
    /\ pc = "readFiles" /\ calls = <<>>
    /\ pc' = "idle"
    /\ UNCHANGED <<diskVars, queryVars, calls, heapVars, rendererVars>>

FinishConstruction ==
    /\ pc = "readFiles" /\ calls = <<>>
    /\ IF IsRoad THEN loadedGeometries' \in SortedArrangements(loadedGeometries)
       ELSE UNCHANGED loadedGeometries
    /\ pc' = "idle"
    /\ UNCHANGED <<diskVars, queryVars, calls, allocated, allocations, rendererVars>>

-----------------------------------------------------------------------------
(* next(): each step is one turn of its loop, which takes the last         *)
(* geometry, numbers a feature for it, and deletes it.  The renderer may   *)
(* call next() again after null.                                           *)

InNext == pc \in {"idle", "next", "exhausted"}

Back == loadedGeometries[Len(loadedGeometries)]

TakeLast ==
    /\ InNext
    /\ loadedGeometries # <<>> /\ ~ RingTooLong(Back.geometry)
    /\ loadedGeometries' = SubSeq(loadedGeometries, 1, Len(loadedGeometries) - 1)
    /\ allocated' = allocated \ {Back.addr}
    /\ feature_id_' = feature_id_ + 1
    /\ UNCHANGED <<diskVars, queryVars, calls, allocations>>

DropGeometry ==
    /\ TakeLast
    /\ ~ Accepts(Back.geometry, box_)
    /\ pc' = "next"
    /\ UNCHANGED delivered

ReturnFeature ==
    /\ TakeLast
    /\ Accepts(Back.geometry, box_)
    /\ pc' = "idle"
    /\ delivered' = Append(delivered, [id |-> feature_id_, geometry |-> Back.geometry,
                                       at |-> Back.at])

(* The assertion on the points of a ring ends the process, and with it the *)
(* geometry that was taken.                                                *)
DrawFails ==
    /\ InNext
    /\ loadedGeometries # <<>> /\ RingTooLong(Back.geometry)
    /\ pc' = "crashed"
    /\ UNCHANGED <<diskVars, queryVars, calls, heapVars, rendererVars>>

(* Mutant of ReturnNull: the loop of next() has no way out. *)
ReturnNothing ==
    /\ InNext
    /\ loadedGeometries = <<>>
    /\ pc' = "next"
    /\ UNCHANGED <<diskVars, queryVars, calls, heapVars, rendererVars>>

(* Nothing is left: null, now and at every later call. *)
ReturnNull ==
    /\ InNext
    /\ loadedGeometries = <<>>
    /\ pc' = "exhausted"
    /\ UNCHANGED <<diskVars, queryVars, calls, heapVars, rendererVars>>

(* Mutant of Destroy: only the vector is cleared. *)
DestroyVectorOnly ==
    /\ pc \in {"idle", "exhausted"}
    /\ pc' = "destroyed"
    /\ loadedGeometries' = <<>>
    /\ UNCHANGED <<diskVars, queryVars, calls, allocated, allocations, rendererVars>>

(* The destructor, between two calls of next(). *)
Destroy ==
    /\ pc \in {"idle", "exhausted"}
    /\ pc' = "destroyed"
    /\ allocated' = allocated
                      \ {loadedGeometries[i].addr : i \in 1 .. Len(loadedGeometries)}
    /\ loadedGeometries' = <<>>
    /\ UNCHANGED <<diskVars, queryVars, calls, allocations, rendererVars>>

-----------------------------------------------------------------------------
(* The tools that maintain the tile set remove a file or empty it. *)
ChangeTile(t) ==
    /\ changes < MaxChanges
    /\ Exists(files, t)
    /\ \E contents \in {Missing, <<>>} :
          /\ files[t] # contents
          /\ files' = [files EXCEPT ![t] = contents]
    /\ changes' = changes + 1 /\ changed' = changed \cup {t}
    /\ UNCHANGED <<denied, queryVars, pc, calls, heapVars, rendererVars>>

Constructor == SkipTile \/ EnterTile \/ LoadFileContents \/ LoadFails \/ FinishConstruction

NextCall == DropGeometry \/ ReturnFeature \/ DrawFails \/ ReturnNull

Next ==
    \/ Constructor
    \/ NextCall
    \/ Destroy
    \/ \E t \in Tiles : ChangeTile(t)

(* The constructor and next() are loops that nothing blocks, and the       *)
(* renderer calls next() until it gets null.                               *)
Fairness == WF_vars(Constructor) /\ WF_vars(NextCall)

Spec == Init /\ [][Next]_vars

FairSpec == Spec /\ Fairness

-----------------------------------------------------------------------------
TypeOK ==
    /\ files \in [Tiles -> Seq(Geometries) \cup {Missing}]
    /\ changes \in 0 .. MaxChanges
    /\ changed \subseteq Tiles /\ denied \subseteq Tiles
    /\ queryBounds \in BoxType
    /\ box_ \in EnvelopeType
    /\ pc \in Constructing \cup {"idle", "next", "exhausted", "destroyed", "crashed"}
    /\ calls \in Seq(CallType)
    /\ loadedGeometries \in Seq(EntryType)
    /\ allocated \subseteq Nat
    /\ allocations \in Nat
    /\ feature_id_ \in Nat
    /\ delivered \in Seq(FeatureRecord)

(* No leak and no double delete (the delete in next(), the destructor): at *)
(* every moment the objects on the heap are those the vector points to,    *)
(* and no two entries point to the same one.  Once the feature set is      *)
(* destroyed the vector is empty, hence so is the heap.                    *)
HeapOwned ==
    /\ allocated = {loadedGeometries[i].addr : i \in 1 .. Len(loadedGeometries)}
    /\ \A i, j \in 1 .. Len(loadedGeometries) :
          loadedGeometries[i].addr = loadedGeometries[j].addr => i = j

(* Sorting descending and popping from the back returns the features of a  *)
(* road layer from the lowest z-index to the highest, so that bridges are  *)
(* drawn over what they cross, whatever tiles the roads came from.         *)
RoadsInOrder ==
    IsRoad => \A i, j \in 1 .. Len(delivered) :
        i < j => delivered[i].geometry.zIndex <= delivered[j].geometry.zIndex

(* Every step that loses the process has its cause, in the very tile or    *)
(* geometry it works on.  Loading a tile fails only if that one was        *)
(* changed after its stat() by readFiles(), is not to be opened, or ends   *)
(* inside a record: tiles without contents, tiles that came to be so       *)
(* before they were looked at, changes elsewhere are survived.  And next() *)
(* fails only at a polygon with a ring that reaches the limit.             *)
CrashExplained ==
    [][pc # "crashed" /\ pc' = "crashed" =>
          \/ /\ pc = "loadFileContents"
             /\ LET tile == Head(calls).path
                IN  \/ tile \in changed \cup denied
                    \/ Exists(files, tile) /\ EndsUnfinished(files[tile])
          \/ InNext /\ loadedGeometries # <<>> /\ RingTooLong(Back.geometry)]_vars

(* The inductive invariant behind HeapOwned, RoadsInOrder and              *)
(* CrashExplained: no address is used twice; only a file with contents is  *)
(* about to be loaded, until somebody changes it; what has been returned   *)
(* of a sorted vector is nowhere above what is left in it; and once null   *)
(* was returned nothing is.                                                *)

AddressesAllocated ==
    \A i \in 1 .. Len(loadedGeometries) : loadedGeometries[i].addr \in 1 .. allocations

LoadPending ==
    pc = "loadFileContents" =>
        /\ calls # <<>>
        /\ LET tile == Head(calls).path
           IN  tile \notin changed => Exists(files, tile) /\ files[tile] # <<>>

SortKeys ==
    \A i \in 1 .. Len(loadedGeometries) :
        loadedGeometries[i].zIndex = loadedGeometries[i].geometry.zIndex

Sorted ==
    \A i, j \in 1 .. Len(loadedGeometries) :
        i < j => loadedGeometries[i].zIndex >= loadedGeometries[j].zIndex

DeliveredBelow ==
    \A d \in 1 .. Len(delivered), i \in 1 .. Len(loadedGeometries) :
        delivered[d].geometry.zIndex <= loadedGeometries[i].zIndex

RoadOrder ==
    /\ pc \in Constructing => delivered = <<>>
    /\ IsRoad /\ pc \notin Constructing \cup {"crashed"} => Sorted /\ DeliveredBelow

NothingLeft == pc = "exhausted" => loadedGeometries = <<>>

Inv ==
    /\ TypeOK /\ HeapOwned /\ AddressesAllocated
    /\ LoadPending /\ NothingLeft
    /\ SortKeys /\ RoadOrder /\ RoadsInOrder

(* No copy of a geometry is returned twice, also when tiles change during  *)
(* the query: the descent reads no file a second time (readFiles() and its *)
(* four calls), and next() takes each entry off before it returns it.      *)
CopyOnce ==
    \A i, j \in 1 .. Len(delivered) : delivered[i].at = delivered[j].at => i = j

(* The inductive invariant behind CopyOnce: the subtrees of the pending    *)
(* calls are disjoint and hold no tile that was read, so that each copy is *)
(* once in the vector, or returned, and never both.                        *)

SubtreesApart ==
    \A i, j \in 1 .. Len(calls) : Under(calls[i].path, calls[j].path) => i = j

NotReadAgain ==
    \A e \in 1 .. Len(loadedGeometries), c \in 1 .. Len(calls) :
        ~ Under(loadedGeometries[e].at[1], calls[c].path)

LoadedOnce ==
    \A i, j \in 1 .. Len(loadedGeometries) :
        loadedGeometries[i].at = loadedGeometries[j].at => i = j

ReturnedOrKept ==
    \A d \in 1 .. Len(delivered), i \in 1 .. Len(loadedGeometries) :
        delivered[d].at # loadedGeometries[i].at

OnceInv == SubtreesApart /\ NotReadAgain /\ LoadedOnce /\ ReturnedOrKept /\ CopyOnce

Stored(g) == \E t \in Tiles : /\ files[t] # Missing
                              /\ \E k \in 1 .. Len(files[t]) : files[t][k] = g

Delivered(g) == \E i \in 1 .. Len(delivered) : delivered[i].geometry = g

(* When null is returned, every geometry of the tile set whose box meets   *)
(* the query box (in exact coordinates, not the truncated ones of box_)    *)
(* has been returned, in whichever tiles it is stored: neither the pruning *)
(* of the quadtree nor the truncation to whole centimetres loses any.      *)
AnswerComplete ==
    pc = "exhausted" /\ changes = 0 =>
        \A g \in Geometries :
            Stored(g) /\ isValid(g.bounds) /\ Intersects(InUnits(g.bounds), queryBounds)
                => Delivered(g)

(* A returned line or polygon misses the query box by less than a          *)
(* centimetre, if at all.                                                  *)
AnswerSound ==
    \A i \in 1 .. Len(delivered) :
        FeatureType(delivered[i].geometry) # "POINT" =>
            Intersects(InUnits(delivered[i].geometry.bounds),
                       Widened(queryBounds, UnitsPerCm - 1))

(* Construction ends, and the calls of next() come to null, unless the     *)
(* renderer gives up or the process is lost.                               *)
Termination == <>(pc \in {"exhausted", "destroyed", "crashed"})

-----------------------------------------------------------------------------
(* While nobody changes the tiles, the feature set answers a query with    *)
(* exactly the copies that Matches defines, each once.                     *)

Item(e) == [at |-> e.at, zIndex |-> e.zIndex]

Unreturned ==
    CASE pc \in Constructing ->
            {[at |-> c, zIndex |-> files[c[1]][c[2]].zIndex] :
                c \in Matches(files, queryBounds, box_)}
      [] pc \notin Constructing ->
            {Item(loadedGeometries[i]) :
                i \in {i \in 1 .. Len(loadedGeometries) :
                        Accepts(loadedGeometries[i].geometry, box_)}}

Phase ==
    CASE pc \in Constructing -> "opening"
      [] pc \in {"idle", "next"} -> "open"
      [] pc = "exhausted" -> "ended"
      [] pc \in {"destroyed", "crashed"} -> "closed"

(* A lost process answers no more. *)
Remaining == IF pc = "crashed" THEN {} ELSE Unreturned

Returned ==
    {[at |-> delivered[i].at, zIndex |-> delivered[i].geometry.zIndex] :
        i \in 1 .. Len(delivered)}

Answer == INSTANCE FeatureQuery WITH
    Items <- [at : Tiles \X Nat, zIndex : -128 .. 127],
    Ordered <- IsRoad,
    phase <- Phase,
    remaining <- Remaining,
    given <- Returned

(* The feature set implements FeatureQuery: what construction leaves in    *)
(* the vector are all the matching copies and no other acceptable one; no  *)
(* copy is returned twice; null comes when all have been returned, and     *)
(* again whenever next() is called after that.                             *)
ImplementsFeatureQuery == Answer!Spec
=============================================================================
