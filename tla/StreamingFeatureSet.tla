-------------------------- MODULE StreamingFeatureSet --------------------------
(***************************************************************************)
(* coords_featureset (src/src/coordsFeatureSet.cc), the feature set of     *)
(* pluginTest: its constructor only registers the tile files of a query;   *)
(* next() opens them one after the other, reads one record at a time, and  *)
(* returns each OSM entity once, however many tiles hold a copy of it.     *)
(*                                                                         *)
(* The tools that maintain the tile set may remove or empty a file at any  *)
(* moment: before it is registered, before it is opened, while it is read; *)
(* and may have left it in the middle of a record.                         *)
(***************************************************************************)
EXTENDS TileSet

CONSTANTS
    TileSets,       \* the tile sets a run may find on disk
    Queries,        \* the query boxes
    NoFile,         \* the null FILE*
    Word,           \* 2^64, the number of values of a uint64_t
    MaxChanges      \* bound: how often the tile writer may change a file

(* OSM ids need less than 40 of 64 bits: ten times the id does not wrap.   *)
ASSUME StreamingAssumption ==
    /\ TileSets \subseteq [Tiles -> Seq(Geometries) \cup {Missing}]
    /\ \A fs \in TileSets : WrittenInOrder(fs)
    /\ Queries \subseteq BoxType
    /\ Word \in Nat \ {0}
    /\ \A g \in Geometries : (g.id + 1) * 11 < Word
    /\ MaxChanges \in Nat

VARIABLES
    disk,               \* the tile files
    changes,            \* how often the tile writer has changed one
    changed,            \* history: those changed since stat() last found them
    denied,             \* the tiles that fopen() will not open
    queryBounds,
    box_,
    pc,
    calls,              \* pending calls of buildFileHierarchy(), innermost first
    files,              \* the registered paths, the next one to open last
    fData,              \* the open file
    nodesReturned,
    waysReturned,
    relationsReturned,
    feature_id_,
    delivered           \* history: the features next() has returned

diskVars == <<disk, changes, changed, denied>>
queryVars == <<queryBounds, box_>>
returnedVars == <<nodesReturned, waysReturned, relationsReturned>>
rendererVars == <<feature_id_, delivered>>
vars == <<diskVars, queryVars, pc, calls, files, fData, returnedVars, rendererVars>>

(* An open file: the records not read yet, and whether it was emptied      *)
(* after it was opened.  (A removed file stays readable while it is open.) *)
FileType == [path : Tiles, rest : Seq(Geometries), cut : BOOLEAN]

ASSUME NoFileAssumption == NoFile \notin FileType

FeatureRecord == [id : Nat, geometry : Geometries]

(* A vector<bool>: its size, and the indices of its true elements. *)
BitVector == [size : Nat, marked : SUBSET Nat]

-----------------------------------------------------------------------------
Init ==
    /\ disk \in TileSets
    /\ changes = 0 /\ changed = {}
    /\ denied \in Denials
    /\ queryBounds \in Queries
    /\ box_ \in QueryEnvelopes(queryBounds)
    /\ pc = "buildFileHierarchy"
    /\ calls = <<Call(<<>>, World)>>
    /\ files = <<>>
    /\ fData = NoFile
    /\ nodesReturned = {}
    /\ waysReturned = [size |-> 0, marked |-> {}]
    /\ relationsReturned = [size |-> 0, marked |-> {}]
    /\ feature_id_ = 1
    /\ delivered = <<>>

(* buildFileHierarchy() returns at once: the tile misses the query box or  *)
(* is no regular file.                                                     *)
SkipTile ==
    /\ pc = "buildFileHierarchy" /\ calls # <<>>
    /\ \/ ~ Intersects(queryBounds, Head(calls).tileBounds)
       \/ ~ Exists(disk, Head(calls).path)
    /\ calls' = Tail(calls)
    /\ UNCHANGED <<diskVars, queryVars, pc, files, fData, returnedVars, rendererVars>>

(* It finds a file, registers it unless it is empty, and turns to its      *)
(* children.                                                               *)
RegisterTile ==
    /\ pc = "buildFileHierarchy" /\ calls # <<>>
    /\ Intersects(queryBounds, Head(calls).tileBounds)
    /\ Exists(disk, Head(calls).path)
    /\ files' = IF disk[Head(calls).path] = <<>> THEN files
                ELSE Append(files, Head(calls).path)
    /\ calls' = Subcalls(Head(calls)) \o Tail(calls)
    /\ changed' = changed \ {Head(calls).path}
    /\ UNCHANGED <<disk, changes, denied, queryVars, pc, fData, returnedVars, rendererVars>>

FinishConstruction ==
    /\ pc = "buildFileHierarchy" /\ calls = <<>>
    /\ pc' = "idle"
    /\ UNCHANGED <<diskVars, queryVars, calls, files, fData, returnedVars, rendererVars>>

-----------------------------------------------------------------------------
(* The three sets of entities returned before. *)

(* Mutant of wasReturnedBefore: one vector for ways and relations. *)
wasReturnedAsWay(entityType, entityId) ==
    IF entityType = "NODE" THEN entityId \in nodesReturned
    ELSE entityId \in waysReturned.marked \/ entityId \in relationsReturned.marked

wasReturnedBefore(entityType, entityId) ==
    CASE entityType = "NODE" -> entityId \in nodesReturned
      [] entityType = "WAY" ->
            entityId < waysReturned.size /\ entityId \in waysReturned.marked
      [] entityType = "RELATION" ->
            entityId < relationsReturned.size /\ entityId \in relationsReturned.marked

(* Mutant of NewSize: the last index taken for the size. *)
NewSizeTooSmall(id) == ((id * 11) % Word) \div 10

(* The size a vector grows to for the element of an id, in 64 bits. *)
NewSize(id) == (((id + 1) * 11) % Word) \div 10

(* Mutant of SetBit: the bit is only set when the vector has to grow. *)
SetBitWhenGrowing(vector, id) ==
    IF id >= vector.size THEN [size |-> NewSize(id), marked |-> vector.marked \cup {id}]
    ELSE vector

(* Set the element of an id, growing the vector if it has none; what is    *)
(* new in it is cleared.                                                   *)
SetBit(vector, id) ==
    LET size == IF id >= vector.size THEN NewSize(id) ELSE vector.size
    IN  [size |-> size, marked |-> {m \in vector.marked : m < size} \cup {id}]

markAsReturnedBefore(entityType, entityId) ==
    /\ nodesReturned' = IF entityType = "NODE" THEN nodesReturned \cup {entityId}
                        ELSE nodesReturned
    /\ waysReturned' = IF entityType = "WAY" THEN SetBit(waysReturned, entityId)
                       ELSE waysReturned
    /\ relationsReturned' = IF entityType = "RELATION"
                            THEN SetBit(relationsReturned, entityId)
                            ELSE relationsReturned

-----------------------------------------------------------------------------
(* next(), which may be called again after null, and the loops of          *)
(* getNextGeometry()                                                       *)

InNext == pc \in {"idle", "next", "exhausted"}

LastFile == files[Len(files)]

OpenFile ==
    /\ InNext /\ fData = NoFile /\ files # <<>>
    /\ Exists(disk, LastFile) /\ LastFile \notin denied
    /\ fData' = [path |-> LastFile, rest |-> disk[LastFile], cut |-> FALSE]
    /\ files' = SubSeq(files, 1, Len(files) - 1)
    /\ pc' = "next"
    /\ UNCHANGED <<diskVars, queryVars, calls, returnedVars, rendererVars>>

(* The registered file is gone or cannot be opened: fgetc() on the null    *)
(* that fopen() returned.                                                  *)
OpenFails ==
    /\ InNext /\ fData = NoFile /\ files # <<>>
    /\ ~ Exists(disk, LastFile) \/ LastFile \in denied
    /\ files' = SubSeq(files, 1, Len(files) - 1)
    /\ pc' = "crashed"
    /\ UNCHANGED <<diskVars, queryVars, calls, fData, returnedVars, rendererVars>>

(* Mutant of CloseFile: the handle is kept. *)
CloseFileKeepHandle ==
    /\ InNext /\ fData # NoFile
    /\ fData.rest = <<>> \/ fData.cut
    /\ pc' = "next"
    /\ UNCHANGED <<diskVars, queryVars, calls, files, fData, returnedVars, rendererVars>>

(* End of file; in a file that was emptied, wherever the buffer ends.      *)
CloseFile ==
    /\ InNext /\ fData # NoFile
    /\ fData.rest = <<>> \/ fData.cut
    /\ fData' = NoFile
    /\ pc' = "next"
    /\ UNCHANGED <<diskVars, queryVars, calls, files, returnedVars, rendererVars>>

(* Mutant of ReadFails: a record is read before the end of file is found. *)
ReadFailsAtEnd ==
    /\ InNext /\ fData # NoFile
    /\ fData.cut \/ fData.rest = <<>>
    /\ pc' = "crashed"
    /\ UNCHANGED <<diskVars, queryVars, calls, files, fData, returnedVars, rendererVars>>

NextRecord == Head(fData.rest)

(* A record that no MUST() of init() lets pass: too large, or not all there *)
Refused(g) == "huge" \in g.faults \/ "unfinished" \in g.faults

(* init() aborts, at such a record or where the buffer of an emptied file  *)
(* ends inside one.                                                        *)
ReadFails ==
    /\ InNext /\ fData # NoFile
    /\ fData.rest # <<>> /\ (fData.cut \/ Refused(NextRecord))
    /\ pc' = "crashed"
    /\ UNCHANGED <<diskVars, queryVars, calls, files, fData, returnedVars, rendererVars>>

(* init() reads the next record. *)
ReadRecord ==
    /\ InNext /\ fData # NoFile
    /\ fData.rest # <<>> /\ ~ Refused(NextRecord)
    /\ fData' = [fData EXCEPT !.rest = Tail(fData.rest)]
    /\ UNCHANGED <<diskVars, queryVars, calls, files>>

SkipReturned ==
    /\ ReadRecord
    /\ wasReturnedBefore(EntityType(NextRecord), NextRecord.id)
    /\ pc' = "next"
    /\ UNCHANGED <<returnedVars, rendererVars>>

(* A new entity is marked; next() numbers it and only then holds it        *)
(* against the query box.                                                  *)
TakeNew ==
    /\ ReadRecord
    /\ ~ wasReturnedBefore(EntityType(NextRecord), NextRecord.id)
    /\ markAsReturnedBefore(EntityType(NextRecord), NextRecord.id)

DropGeometry ==
    /\ TakeNew
    /\ ~ RingTooLong(NextRecord) /\ ~ Accepts(NextRecord, box_)
    /\ pc' = "next"
    /\ feature_id_' = feature_id_ + 1
    /\ UNCHANGED delivered

ReturnFeature ==
    /\ TakeNew
    /\ ~ RingTooLong(NextRecord) /\ Accepts(NextRecord, box_)
    /\ pc' = "idle"
    /\ feature_id_' = feature_id_ + 1
    /\ delivered' = Append(delivered, [id |-> feature_id_, geometry |-> NextRecord])

(* The assertion on the points of a ring ends the process. *)
DrawFails ==
    /\ TakeNew
    /\ RingTooLong(NextRecord)
    /\ pc' = "crashed"
    /\ feature_id_' = feature_id_ + 1
    /\ UNCHANGED delivered

(* No file is left: null, now and at every later call. *)
ReturnNull ==
    /\ InNext /\ fData = NoFile /\ files = <<>>
    /\ pc' = "exhausted"
    /\ UNCHANGED <<diskVars, queryVars, calls, files, fData, returnedVars, rendererVars>>

(* The destructor, between two calls of next().  It does not close fData.  *)
Destroy ==
    /\ pc \in {"idle", "exhausted"}
    /\ pc' = "destroyed"
    /\ UNCHANGED <<diskVars, queryVars, calls, files, fData, returnedVars, rendererVars>>

-----------------------------------------------------------------------------
(* The tools that maintain the tile set remove a file or empty it. *)
ChangeTile(t) ==
    /\ changes < MaxChanges
    /\ Exists(disk, t)
    /\ \E contents \in {Missing, <<>>} :
          /\ disk[t] # contents
          /\ disk' = [disk EXCEPT ![t] = contents]
          /\ fData' = IF fData # NoFile /\ fData.path = t /\ contents = <<>>
                      THEN [fData EXCEPT !.cut = TRUE] ELSE fData
    /\ changes' = changes + 1 /\ changed' = changed \cup {t}
    /\ UNCHANGED <<denied, queryVars, pc, calls, files, returnedVars, rendererVars>>

Constructor == SkipTile \/ RegisterTile \/ FinishConstruction

NextCall ==
    \/ OpenFile \/ OpenFails \/ CloseFile \/ ReadFails
    \/ SkipReturned \/ DropGeometry \/ ReturnFeature \/ DrawFails \/ ReturnNull

Next ==
    \/ Constructor
    \/ NextCall
    \/ Destroy
    \/ \E t \in Tiles : ChangeTile(t)

(* The constructor and next() are loops that nothing blocks, and the       *)
(* renderer calls next() until it gets null.                               *)
Fairness == WF_vars(Constructor) /\ WF_vars(NextCall)

Spec == Init /\ [][Next]_vars

FairSpec == Spec /\ Fairness

-----------------------------------------------------------------------------
TypeOK ==
    /\ disk \in [Tiles -> Seq(Geometries) \cup {Missing}]
    /\ changes \in 0 .. MaxChanges
    /\ changed \subseteq Tiles /\ denied \subseteq Tiles
    /\ queryBounds \in BoxType
    /\ box_ \in EnvelopeType
    /\ pc \in {"buildFileHierarchy", "idle", "next", "exhausted", "destroyed", "crashed"}
    /\ calls \in Seq(CallType)
    /\ files \in Seq(Tiles)
    /\ fData \in FileType \cup {NoFile}
    /\ nodesReturned \subseteq Nat
    /\ waysReturned \in BitVector /\ relationsReturned \in BitVector
    /\ feature_id_ \in Nat
    /\ delivered \in Seq(FeatureRecord)

(* Growing a vector by a tenth of the id always makes room for the id: no  *)
(* bit is ever set behind the end of its vector.                           *)
BitsInBounds ==
    \A vector \in {waysReturned, relationsReturned} :
        \A id \in vector.marked : id < vector.size

Entity(g) == <<EntityType(g), g.id>>

(* However many tiles hold a copy of it, no entity is returned twice: no   *)
(* mark is lost when a vector grows, and nodes, ways and relations of the  *)
(* same id are told apart.                                                 *)
EntityOnce ==
    \A i, j \in 1 .. Len(delivered) :
        Entity(delivered[i].geometry) = Entity(delivered[j].geometry) => i = j

(* Every step that loses the process has its cause, in the very file or    *)
(* record it works on.  Opening fails only at a file that was removed      *)
(* after it was registered, or is not to be opened; reading at one that    *)
(* was emptied while it was open, at a record of a size that init()        *)
(* refuses, or at one that is not all there; drawing at a polygon with a   *)
(* ring that reaches the limit.                                            *)
CrashExplained ==
    [][pc # "crashed" /\ pc' = "crashed" =>
          \/ fData = NoFile /\ files # <<>> /\ LastFile \in changed \cup denied
          \/ /\ fData # NoFile /\ fData.rest # <<>>
             /\ \/ fData.cut /\ fData.path \in changed
                \/ Refused(NextRecord)
                \/ RingTooLong(NextRecord)]_vars

(* The inductive invariant behind them: what was returned is marked, in a  *)
(* place of its vector; until somebody changes it, a registered file       *)
(* exists and an open one is whole; no file is open during construction,   *)
(* and none is left once null was returned.                                *)

ChangesCounted == changes = 0 => changed = {}

ReturnedIsMarked ==
    \A i \in 1 .. Len(delivered) :
        wasReturnedBefore(EntityType(delivered[i].geometry), delivered[i].geometry.id)

FilesIntact ==
    /\ \A i \in 1 .. Len(files) : files[i] \notin changed => Exists(disk, files[i])
    /\ fData # NoFile => fData.path \in changed \/ ~ fData.cut

NothingOpen ==
    /\ pc \in {"buildFileHierarchy", "exhausted"} => fData = NoFile
    /\ pc = "exhausted" => files = <<>>

Inv ==
    /\ TypeOK /\ BitsInBounds /\ EntityOnce
    /\ ReturnedIsMarked /\ ChangesCounted /\ FilesIntact /\ NothingOpen

(* Construction ends, and the calls of next() come to null, unless the     *)
(* renderer gives up or the process is lost.                               *)
Termination == <>(pc \in {"exhausted", "destroyed", "crashed"})

-----------------------------------------------------------------------------
(* While nobody changes the tiles, the feature set answers a query with    *)
(* the entities of the copies that Matches defines, each once.  That       *)
(* presupposes that all copies of an entity are alike: an entity is marked *)
(* before it is held against the query box, so the first copy decides.     *)

OneGeometryPerEntity == \A g, h \in Geometries : Entity(g) = Entity(h) => g = h

Item(g) == [entity |-> Entity(g), zIndex |-> g.zIndex]

Unread ==
    LET registered == {i \in 1 .. Len(files) : Exists(disk, files[i])}
        inFiles == UNION {{disk[files[i]][k] : k \in 1 .. Len(disk[files[i]])} :
                             i \in registered}
        inOpenFile == IF fData = NoFile THEN {}
                      ELSE {fData.rest[k] : k \in 1 .. Len(fData.rest)}
    IN  inFiles \cup inOpenFile

Unreturned ==
    {Item(g) : g \in
        IF pc = "buildFileHierarchy"
        THEN {disk[c[1]][c[2]] : c \in Matches(disk, queryBounds, box_)}
        ELSE {g \in Unread : /\ Accepts(g, box_)
                             /\ ~ wasReturnedBefore(EntityType(g), g.id)}}

Phase ==
    CASE pc = "buildFileHierarchy" -> "opening"
      [] pc \in {"idle", "next"} -> "open"
      [] pc = "exhausted" -> "ended"
      [] pc \in {"destroyed", "crashed"} -> "closed"

Remaining == IF pc \in {"destroyed", "crashed"} THEN {} ELSE Unreturned

Returned == {Item(delivered[i].geometry) : i \in 1 .. Len(delivered)}

Answer == INSTANCE FeatureQuery WITH
    Items <- [entity : {"NODE", "WAY", "RELATION"} \X Nat, zIndex : -128 .. 127],
    Ordered <- FALSE,
    phase <- Phase,
    remaining <- Remaining,
    given <- Returned

(* The feature set implements FeatureQuery: every entity with a matching   *)
(* copy in a relevant tile is returned, none twice, and null comes when    *)
(* all have been, and again whenever next() is called after that.          *)
ImplementsFeatureQuery == Answer!Spec

Stored(g) == \E t \in Tiles : /\ disk[t] # Missing
                              /\ \E k \in 1 .. Len(disk[t]) : disk[t][k] = g

(* When null is returned, every entity with a geometry in the tile set     *)
(* whose box meets the query box, in exact coordinates, has been returned, *)
(* although the query was truncated and whatever tile was read first.      *)
AnswerComplete ==
    pc = "exhausted" /\ changes = 0 =>
        \A g \in Geometries :
            Stored(g) /\ isValid(g.bounds) /\ Intersects(InUnits(g.bounds), queryBounds)
                => \E i \in 1 .. Len(delivered) : Entity(delivered[i].geometry) = Entity(g)

(* A returned line or polygon misses the query box by less than a          *)
(* centimetre, if at all.                                                  *)
AnswerSound ==
    \A i \in 1 .. Len(delivered) :
        FeatureType(delivered[i].geometry) # "POINT" =>
            Intersects(InUnits(delivered[i].geometry.bounds),
                       Widened(queryBounds, UnitsPerCm - 1))
=============================================================================
