------------------------------ MODULE DataSource ------------------------------
(***************************************************************************)
(* coords_datasource::features() (src/src/coordsDataSource.cc): from the   *)
(* scale of a query to a zoom level, and from the zoom level to the tile   *)
(* set the query is answered from.  A directory holds one tile set per     *)
(* zoom level; each is recognised by the file at its root.                 *)
(*                                                                         *)
(* A scale denominator is a double; comparing it with a table entry, which *)
(* is a whole number, is the same as comparing its integral part.  While   *)
(* the levels are probed one by one, the tools that maintain the data may  *)
(* add or remove tile sets.                                                *)
(***************************************************************************)
EXTENDS Integers

CONSTANTS
    numZoomLevelScaleDenominators,
    zoomLevelScaleDenominators,     \* the table, from index 0
    MAX_ZOOM_LEVEL,
    ScaleDenominators,              \* the scales of queries (integral parts)
    PastTheTable,                   \* what the word after the table may hold
    Directories,                    \* the sets of levels with a tile set
    BarePath,                       \* path_ itself, without a level
    NoFeatures,                     \* the null feature set
    MaxChanges                      \* bound on what the tile tools do

Levels == 0 .. MAX_ZOOM_LEVEL
ZoomLevels == 0 .. numZoomLevelScaleDenominators - 1

ASSUME TableAssumption ==
    /\ numZoomLevelScaleDenominators \in Nat \ {0}
    /\ MAX_ZOOM_LEVEL \in Nat /\ numZoomLevelScaleDenominators <= MAX_ZOOM_LEVEL + 1
    /\ zoomLevelScaleDenominators \in [ZoomLevels -> Nat]
    /\ \A coarse, fine \in ZoomLevels :
          coarse < fine => zoomLevelScaleDenominators[fine] < zoomLevelScaleDenominators[coarse]

ASSUME DataSourceAssumption ==
    /\ ScaleDenominators \subseteq Nat /\ PastTheTable \subseteq Nat
    /\ Directories \subseteq SUBSET Levels
    /\ BarePath \notin Int /\ NoFeatures \notin Int /\ BarePath # NoFeatures
    /\ MaxChanges \in Nat

VARIABLES
    tileSets,           \* the levels with a tile set on disk
    changes,
    intersects,         \* extent_.intersects(q.get_bbox())
    scaleDenominator,
    pc,
    zoom,               \* of getZoomLevel()
    i,                  \* the level getClosestTileSet() tests next
    zoomLevelFileName,  \* the tile set it has settled on so far: a level or BarePath
    answer,             \* the tile set the feature set is opened on
    alwaysThere,        \* history: the levels never without their tile set,
    everThere           \* and those not always without

diskVars == <<tileSets, changes, alwaysThere, everThere>>
queryVars == <<intersects, scaleDenominator>>
vars == <<diskVars, queryVars, pc, zoom, i, zoomLevelFileName, answer>>

Init ==
    /\ tileSets \in Directories
    /\ changes = 0
    /\ alwaysThere = tileSets /\ everThere = tileSets
    /\ intersects \in BOOLEAN
    /\ scaleDenominator \in ScaleDenominators
    /\ pc = "features"
    /\ zoom = 0
    /\ i = MAX_ZOOM_LEVEL
    /\ zoomLevelFileName = BarePath
    /\ answer = NoFeatures

-----------------------------------------------------------------------------
(* features(): null for a box outside the world. *)
Features ==
    /\ pc = "features"
    /\ pc' = IF intersects THEN "getZoomLevel" ELSE "answered"
    /\ UNCHANGED <<diskVars, queryVars, zoom, i, zoomLevelFileName, answer>>

(* What zoomLevelScaleDenominators[n] reads: the loop of getZoomLevel()    *)
(* reads an entry before it asks whether there is one.                     *)
Entry(n) == IF n \in ZoomLevels THEN {zoomLevelScaleDenominators[n]} ELSE PastTheTable

(* Mutants of ZoomIn: the end of the table is not looked for; and a scale  *)
(* equal to a denominator counts as finer.                                 *)
ZoomInUnbounded ==
    /\ pc = "getZoomLevel"
    /\ \E denominator \in Entry(zoom + 1) : denominator > scaleDenominator
    /\ zoom' = zoom + 1
    /\ UNCHANGED <<diskVars, queryVars, pc, i, zoomLevelFileName, answer>>

ZoomInAtEquality ==
    /\ pc = "getZoomLevel"
    /\ \E denominator \in Entry(zoom + 1) : denominator >= scaleDenominator
    /\ zoom + 1 < numZoomLevelScaleDenominators
    /\ zoom' = zoom + 1
    /\ UNCHANGED <<diskVars, queryVars, pc, i, zoomLevelFileName, answer>>

(* The next level of the table still has a denominator above the scale. *)
ZoomIn ==
    /\ pc = "getZoomLevel"
    /\ \E denominator \in Entry(zoom + 1) : denominator > scaleDenominator
    /\ zoom + 1 < numZoomLevelScaleDenominators
    /\ zoom' = zoom + 1
    /\ UNCHANGED <<diskVars, queryVars, pc, i, zoomLevelFileName, answer>>

ZoomFound ==
    /\ pc = "getZoomLevel"
    /\ \/ \E denominator \in Entry(zoom + 1) : denominator <= scaleDenominator
       \/ zoom + 1 >= numZoomLevelScaleDenominators
    /\ pc' = "getClosestTileSet"
    /\ i' = MAX_ZOOM_LEVEL
    /\ zoomLevelFileName' = BarePath
    /\ UNCHANGED <<diskVars, queryVars, zoom, answer>>

(* Mutants of TestLevel: one level too many is tested; the first tile set  *)
(* seen wins; and the loop does not advance past a tile set.               *)
TestLevelTooLow ==
    /\ pc = "getClosestTileSet"
    /\ i >= zoom - 1 /\ i >= 0
    /\ zoomLevelFileName' = IF i \in tileSets THEN i ELSE zoomLevelFileName
    /\ i' = i - 1
    /\ UNCHANGED <<diskVars, queryVars, pc, zoom, answer>>

TestLevelFirstWins ==
    /\ pc = "getClosestTileSet"
    /\ i >= zoom
    /\ zoomLevelFileName' = IF i \in tileSets /\ zoomLevelFileName = BarePath
                            THEN i ELSE zoomLevelFileName
    /\ i' = i - 1
    /\ UNCHANGED <<diskVars, queryVars, pc, zoom, answer>>

TestLevelStuck ==
    /\ pc = "getClosestTileSet"
    /\ i >= zoom
    /\ zoomLevelFileName' = IF i \in tileSets THEN i ELSE zoomLevelFileName
    /\ i' = IF i \in tileSets THEN i ELSE i - 1
    /\ UNCHANGED <<diskVars, queryVars, pc, zoom, answer>>

(* getClosestTileSet(): one stat() per level, from the finest down to the  *)
(* level of the query; the last tile set seen wins.                        *)
TestLevel ==
    /\ pc = "getClosestTileSet"
    /\ i >= zoom
    /\ zoomLevelFileName' = IF i \in tileSets THEN i ELSE zoomLevelFileName
    /\ i' = i - 1
    /\ UNCHANGED <<diskVars, queryVars, pc, zoom, answer>>

OpenFeatureSet ==
    /\ pc = "getClosestTileSet"
    /\ i < zoom
    /\ answer' = zoomLevelFileName
    /\ pc' = "answered"
    /\ UNCHANGED <<diskVars, queryVars, zoom, i, zoomLevelFileName>>

(* The tools add or remove the tile set of a level. *)
ChangeTileSet(level) ==
    /\ changes < MaxChanges
    /\ tileSets' = IF level \in tileSets THEN tileSets \ {level} ELSE tileSets \cup {level}
    /\ changes' = changes + 1
    /\ alwaysThere' = alwaysThere \ {level}
    /\ everThere' = everThere \cup {level}
    /\ UNCHANGED <<queryVars, pc, zoom, i, zoomLevelFileName, answer>>

Plugin == Features \/ ZoomIn \/ ZoomFound \/ TestLevel \/ OpenFeatureSet

Next == Plugin \/ \E level \in Levels : ChangeTileSet(level)

Spec == Init /\ [][Next]_vars

(* features() runs to its end. *)
FairSpec == Spec /\ WF_vars(Plugin)

-----------------------------------------------------------------------------
TypeOK ==
    /\ alwaysThere \subseteq tileSets /\ tileSets \subseteq everThere
    /\ everThere \subseteq Levels
    /\ changes \in 0 .. MaxChanges
    /\ intersects \in BOOLEAN
    /\ scaleDenominator \in Nat
    /\ pc \in {"features", "getZoomLevel", "getClosestTileSet", "answered"}
    /\ zoom \in ZoomLevels
    /\ i \in -1 .. MAX_ZOOM_LEVEL
    /\ zoomLevelFileName \in Levels \cup {BarePath}
    /\ answer \in Levels \cup {BarePath, NoFeatures}

(* The zoom level of a scale is the finest whose denominator is above it;  *)
(* level 0 serves everything coarser.                                      *)
IsZoomLevelOf(z, scale) ==
    /\ z = 0 \/ zoomLevelScaleDenominators[z] > scale
    /\ \A finer \in ZoomLevels : finer > z => zoomLevelScaleDenominators[finer] <= scale

(* getZoomLevel() finds that level, whatever it reads past its table.      *)
ZoomLevelRight ==
    pc = "getClosestTileSet" => IsZoomLevelOf(zoom, scaleDenominator)

(* A feature set is never opened on a tile set coarser than the query.     *)
NeverCoarser ==
    pc = "answered" /\ answer \in Levels =>
        \A z \in ZoomLevels : IsZoomLevelOf(z, scaleDenominator) => answer >= z

(* The tile set was there at some moment of the call, and no tile set that *)
(* is fine enough and was there all the time is coarser than it: whatever  *)
(* comes and goes between two stat()s, the answer is the best of some mix  *)
(* of what was on disk.  In particular, nobody changing anything, it is    *)
(* the coarsest one that suffices; and the bare path is a last resort.     *)
CoarsestThatSuffices ==
    pc = "answered" /\ intersects =>
        /\ answer \in Levels => answer \in everThere
        /\ \A level \in alwaysThere :
              (\A z \in ZoomLevels : IsZoomLevelOf(z, scaleDenominator) => level >= z)
                => answer \in Levels /\ answer <= level

(* The loop invariants behind them: the levels passed so far are above the *)
(* scale; the levels tested so far are above i, and the one chosen is the  *)
(* lowest of those that were there.                                        *)

LevelsPassed ==
    \A z \in ZoomLevels \ {0} : z <= zoom => zoomLevelScaleDenominators[z] > scaleDenominator

BestAbove(chosen, bottom) ==
    /\ chosen \in Levels => bottom < chosen /\ zoom <= chosen /\ chosen \in everThere
    /\ \A level \in alwaysThere : bottom < level => chosen \in Levels /\ chosen <= level

LevelsTested ==
    pc = "getClosestTileSet" => zoom <= i + 1 /\ BestAbove(zoomLevelFileName, i)

AnswerChosen ==
    /\ pc \in {"getZoomLevel", "getClosestTileSet"} => intersects
    /\ IF pc = "answered" /\ intersects
       THEN IsZoomLevelOf(zoom, scaleDenominator) /\ BestAbove(answer, zoom - 1)
       ELSE answer = NoFeatures

Inv ==
    TypeOK /\ LevelsPassed /\ ZoomLevelRight /\ LevelsTested /\ AnswerChosen

(* Every call of features() returns. *)
Answered == <>(pc = "answered")
=============================================================================
