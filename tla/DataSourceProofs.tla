--------------------------- MODULE DataSourceProofs ---------------------------
(***************************************************************************)
(* features() chooses the right tile set for every table of descending     *)
(* denominators, every scale and whatever happens on disk meanwhile.       *)
(***************************************************************************)
EXTENDS MCDataSource, TLAPS

(* A scale has one zoom level. *)
LEMMA ZoomLevelUnique ==
    ASSUME NEW y \in ZoomLevels, NEW z \in ZoomLevels, NEW scale \in Nat,
           IsZoomLevelOf(y, scale), IsZoomLevelOf(z, scale)
    PROVE  y = z
<1>1. y \in Nat /\ z \in Nat
  BY TableAssumption DEF ZoomLevels
<1>2. zoomLevelScaleDenominators[y] \in Nat /\ zoomLevelScaleDenominators[z] \in Nat
  BY TableAssumption
<1>3. ~ (y < z) /\ ~ (z < y)
  BY <1>1, <1>2 DEF IsZoomLevelOf
<1>4. QED
  BY <1>1, <1>3

(* What is chosen from zoom upwards is what NeverCoarser and               *)
(* CoarsestThatSuffices ask for.                                           *)
LEMMA ChosenIsRight ==
    ASSUME TypeOK, AnswerChosen
    PROVE  NeverCoarser /\ CoarsestThatSuffices
<1> SUFFICES ASSUME pc = "answered", intersects
             PROVE  NeverCoarser /\ CoarsestThatSuffices
  <2>1. NoFeatures \notin Levels
    BY TableAssumption, DataSourceAssumption DEF Levels
  <2>2. QED
    BY <2>1 DEF AnswerChosen, NeverCoarser, CoarsestThatSuffices
<1>1. /\ IsZoomLevelOf(zoom, scaleDenominator)
      /\ BestAbove(answer, zoom - 1)
      /\ zoom \in ZoomLevels /\ zoom \in Int /\ scaleDenominator \in Nat
      /\ alwaysThere \subseteq Levels /\ Levels \subseteq Int
  BY TableAssumption DEF AnswerChosen, TypeOK, ZoomLevels, Levels
<1>2. \A z \in ZoomLevels : IsZoomLevelOf(z, scaleDenominator) => z = zoom
  BY <1>1, ZoomLevelUnique
<1>3. NeverCoarser
  BY <1>1, <1>2 DEF NeverCoarser, BestAbove
<1>4. CoarsestThatSuffices
  <2>1. ASSUME NEW level \in alwaysThere, level >= zoom
        PROVE  answer \in Levels /\ answer <= level
    <3>1. zoom - 1 < level
      BY <1>1, <2>1
    <3>2. QED
      BY <1>1, <3>1 DEF BestAbove
  <2>2. QED
    BY <1>1, <2>1 DEF CoarsestThatSuffices, BestAbove
<1>5. QED
  BY <1>3, <1>4

LEMMA InitInv == Init => Inv
<1> SUFFICES ASSUME Init PROVE Inv
  OBVIOUS
<1>1. TypeOK
  BY TableAssumption, DataSourceAssumption DEF Init, TypeOK, ZoomLevels, Levels
<1>2. LevelsPassed
  BY DEF Init, LevelsPassed, ZoomLevels
<1>3. ZoomLevelRight /\ LevelsTested /\ AnswerChosen
  BY DEF Init, ZoomLevelRight, LevelsTested, AnswerChosen
<1>4. QED
  BY <1>1, <1>2, <1>3 DEF Inv

LEMMA StepInv == Inv /\ [Next]_vars => Inv'
<1> SUFFICES ASSUME Inv, [Next]_vars PROVE Inv'
  OBVIOUS
<1> USE TableAssumption, DataSourceAssumption DEF diskVars, queryVars
<1>0. /\ TypeOK /\ LevelsPassed /\ ZoomLevelRight /\ LevelsTested /\ AnswerChosen
      /\ zoom \in ZoomLevels /\ i \in -1 .. MAX_ZOOM_LEVEL /\ scaleDenominator \in Nat
      /\ alwaysThere \subseteq tileSets /\ tileSets \subseteq everThere
  BY DEF Inv, TypeOK
<1>a. Levels \subseteq Int /\ ZoomLevels \subseteq Nat /\ ZoomLevels \subseteq Levels
  BY DEF Levels, ZoomLevels
<1>1. CASE Features
  <2>1. TypeOK' /\ LevelsPassed'
    BY <1>0, <1>1 DEF Features, TypeOK, LevelsPassed
  <2>2. ZoomLevelRight' /\ LevelsTested'
    BY <1>0, <1>1 DEF Features, ZoomLevelRight, LevelsTested
  <2>3. AnswerChosen'
    BY <1>0, <1>1 DEF Features, AnswerChosen
  <2>4. QED
    BY <2>1, <2>2, <2>3 DEF Inv
<1>2. CASE ZoomIn
  <2>1. /\ zoom' = zoom + 1 /\ zoom' \in ZoomLevels
        /\ zoomLevelScaleDenominators[zoom + 1] > scaleDenominator
        /\ scaleDenominator' = scaleDenominator /\ pc' = "getZoomLevel"
        /\ answer' = NoFeatures /\ intersects' = intersects /\ intersects
    BY <1>0, <1>2 DEF ZoomIn, Entry, ZoomLevels, AnswerChosen
  <2>2. TypeOK'
    BY <1>0, <1>2, <2>1 DEF ZoomIn, TypeOK
  <2>3. LevelsPassed'
    <3>1. ASSUME NEW z \in ZoomLevels \ {0}, z <= zoom + 1
          PROVE  z = zoom + 1 \/ z <= zoom
      BY <1>0, <1>a, <3>1
    <3>2. QED
      BY <1>0, <2>1, <3>1 DEF LevelsPassed
  <2>4. QED
    BY <2>1, <2>2, <2>3 DEF Inv, ZoomLevelRight, LevelsTested, AnswerChosen
<1>3. CASE ZoomFound
  <2>1. IsZoomLevelOf(zoom, scaleDenominator)
    <3>1. zoom = 0 \/ zoomLevelScaleDenominators[zoom] > scaleDenominator
      BY <1>0, <1>a DEF LevelsPassed
    <3>2. ASSUME NEW finer \in ZoomLevels, finer > zoom
          PROVE  zoomLevelScaleDenominators[finer] <= scaleDenominator
      <4>1. zoom + 1 \in ZoomLevels
        BY <1>0, <3>2 DEF ZoomLevels
      <4>2. zoomLevelScaleDenominators[zoom + 1] <= scaleDenominator
        BY <1>3, <4>1 DEF ZoomFound, Entry, ZoomLevels
      <4>3. finer = zoom + 1 \/ zoom + 1 < finer
        BY <1>0, <1>a, <3>2
      <4>4. /\ zoomLevelScaleDenominators[finer] \in Nat
            /\ zoomLevelScaleDenominators[zoom + 1] \in Nat
        BY <4>1
      <4>5. QED
        BY <1>0, <4>1, <4>2, <4>3, <4>4
    <3>3. QED
      BY <3>1, <3>2 DEF IsZoomLevelOf
  <2>2. /\ pc' = "getClosestTileSet" /\ pc = "getZoomLevel" /\ i' = MAX_ZOOM_LEVEL /\ zoomLevelFileName' = BarePath
        /\ UNCHANGED <<diskVars, queryVars, zoom, answer>>
    BY <1>3 DEF ZoomFound
  <2>3. TypeOK'
    BY <1>0, <2>2 DEF TypeOK
  <2>4. LevelsPassed' /\ ZoomLevelRight' /\ AnswerChosen'
    BY <1>0, <2>1, <2>2 DEF LevelsPassed, ZoomLevelRight, AnswerChosen, IsZoomLevelOf
  <2>5. LevelsTested'
    <3>1. \A level \in alwaysThere : ~ (MAX_ZOOM_LEVEL < level)
      BY <1>0 DEF TypeOK, Levels
    <3>2. BarePath \notin Levels
      BY <1>a
    <3>3. zoom <= MAX_ZOOM_LEVEL + 1
      BY <1>0 DEF ZoomLevels
    <3>4. QED
      BY <2>2, <3>1, <3>2, <3>3 DEF LevelsTested, BestAbove
  <2>6. QED
    BY <2>3, <2>4, <2>5 DEF Inv
<1>4. CASE TestLevel
  <2>1. /\ pc = "getClosestTileSet" /\ pc' = pc /\ i >= zoom /\ i' = i - 1
        /\ zoomLevelFileName' = IF i \in tileSets THEN i ELSE zoomLevelFileName
        /\ UNCHANGED <<diskVars, queryVars, zoom, answer>>
    BY <1>4 DEF TestLevel
  <2>2. i \in Levels /\ i - 1 \in -1 .. MAX_ZOOM_LEVEL
    BY <1>0, <1>a, <2>1 DEF Levels
  <2>3. TypeOK'
    BY <1>0, <2>1, <2>2 DEF TypeOK
  <2>4. LevelsTested'
    <3>1. BestAbove(zoomLevelFileName, i)
      BY <1>0, <2>1 DEF LevelsTested
    <3>2. BestAbove(zoomLevelFileName, i)'
      <4>1. ASSUME NEW level \in alwaysThere, i - 1 < level
            PROVE  zoomLevelFileName' \in Levels /\ zoomLevelFileName' <= level
        <5>1. level \in Int
          BY <1>0, <1>a DEF TypeOK
        <5>2. CASE level = i
          BY <1>0, <2>1, <2>2, <5>1, <5>2
        <5>3. CASE i < level
          BY <2>1, <2>2, <3>1, <5>1, <5>3, <1>a DEF BestAbove
        <5>4. QED
          BY <1>0, <4>1, <5>1, <5>2, <5>3
      <4>2. ASSUME zoomLevelFileName' \in Levels
            PROVE  /\ i - 1 < zoomLevelFileName' /\ zoom <= zoomLevelFileName'
                   /\ zoomLevelFileName' \in everThere
        <5>1. CASE i \in tileSets
          BY <1>0, <1>a, <2>1, <2>2, <5>1
        <5>2. CASE i \notin tileSets
          <6>1. zoomLevelFileName' = zoomLevelFileName /\ zoomLevelFileName \in Int
            BY <1>a, <2>1, <4>2, <5>2
          <6>2. QED
            BY <2>1, <2>2, <3>1, <4>2, <6>1 DEF BestAbove
        <5>3. QED
          BY <5>1, <5>2
      <4>3. QED
        BY <2>1, <4>1, <4>2 DEF BestAbove
    <3>3. QED
      BY <1>0, <1>a, <2>1, <3>2 DEF LevelsTested
  <2>5. QED
    BY <1>0, <2>1, <2>3, <2>4
       DEF Inv, LevelsPassed, ZoomLevelRight, AnswerChosen, IsZoomLevelOf
<1>5. CASE OpenFeatureSet
  <2>1. /\ pc = "getClosestTileSet" /\ pc' = "answered" /\ i < zoom
        /\ answer' = zoomLevelFileName
        /\ UNCHANGED <<diskVars, queryVars, zoom, i, zoomLevelFileName>>
    BY <1>5 DEF OpenFeatureSet
  <2>2. i = zoom - 1 /\ BestAbove(zoomLevelFileName, zoom - 1)
    BY <1>0, <1>a, <2>1 DEF LevelsTested
  <2>3. TypeOK'
    BY <1>0, <2>1 DEF TypeOK
  <2>4. AnswerChosen'
    <3>1. CASE intersects
      <4>1. IsZoomLevelOf(zoom, scaleDenominator)'
        BY <1>0, <2>1 DEF ZoomLevelRight, IsZoomLevelOf
      <4>2. BestAbove(answer, zoom - 1)'
        BY <2>1, <2>2 DEF BestAbove
      <4>3. QED
        BY <2>1, <3>1, <4>1, <4>2 DEF AnswerChosen
    <3>2. QED
      BY <1>0, <2>1, <3>1 DEF AnswerChosen
  <2>5. QED
    BY <1>0, <2>1, <2>3, <2>4 DEF Inv, LevelsPassed, ZoomLevelRight, LevelsTested
<1>6. ASSUME NEW level \in Levels, ChangeTileSet(level)
      PROVE  Inv'
  <2>1. /\ alwaysThere' \subseteq alwaysThere /\ everThere \subseteq everThere'
        /\ UNCHANGED <<queryVars, pc, zoom, i, zoomLevelFileName, answer>>
    BY <1>6 DEF ChangeTileSet
  <2>2. TypeOK'
    BY <1>0, <1>6 DEF ChangeTileSet, TypeOK
  <2>3. LevelsPassed' /\ ZoomLevelRight'
    BY <1>0, <2>1 DEF LevelsPassed, ZoomLevelRight, IsZoomLevelOf
  <2>4. LevelsTested' /\ AnswerChosen'
    BY <1>0, <2>1 DEF LevelsTested, AnswerChosen, BestAbove, IsZoomLevelOf
  <2>5. QED
    BY <2>2, <2>3, <2>4 DEF Inv
<1>7. CASE UNCHANGED vars
  BY <1>0, <1>7 DEF vars, Inv, TypeOK, LevelsPassed, ZoomLevelRight, LevelsTested,
                    AnswerChosen, BestAbove, IsZoomLevelOf
<1>8. QED
  BY <1>1, <1>2, <1>3, <1>4, <1>5, <1>6, <1>7 DEF Next, Plugin

(* Inv holds for every table, directory, query and change. *)
THEOREM Invariance == Spec => []Inv
BY InitInv, StepInv, PTL DEF Spec

(* Every variable of the data source keeps its type. *)
THEOREM TypeCorrect == Spec => []TypeOK
<1>1. Inv => TypeOK
  BY DEF Inv
<1>2. QED
  BY <1>1, Invariance, PTL

(* The zoom level of every scale is found, and independently of what lies  *)
(* behind the table in memory.                                             *)
THEOREM ZoomLevelFound == Spec => []ZoomLevelRight
<1>1. Inv => ZoomLevelRight
  BY DEF Inv
<1>2. QED
  BY <1>1, Invariance, PTL

(* The features of a query never come from a tile set made for a coarser   *)
(* zoom level than its own.                                                *)
THEOREM AnswerFineEnough == Spec => []NeverCoarser
<1>1. Inv => NeverCoarser
  BY ChosenIsRight DEF Inv
<1>2. QED
  BY <1>1, Invariance, PTL

(* They come from the coarsest tile set that is fine enough, even if tile  *)
(* sets come and go while the levels are tested.                           *)
THEOREM AnswerCoarsest == Spec => []CoarsestThatSuffices
<1>1. Inv => CoarsestThatSuffices
  BY ChosenIsRight DEF Inv
<1>2. QED
  BY <1>1, Invariance, PTL

-----------------------------------------------------------------------------
(* The table of the source. *)

(* What MapnikScale lists is what its comment says. *)
LEMMA MapnikScaleHalved ==
    /\ MapnikScale[0] = 559082264
    /\ \A z \in 1 .. 20 : MapnikScale[z] = MapnikScale[z - 1] \div 2
BY DEF MapnikScale

(* Each of Mapnik's scales lies below the entry of its level, and not      *)
(* below that of the next one.                                             *)
LEMMA MapnikScaleBetween ==
    \A z \in 0 .. 20 : /\ MapnikScale[z] < OsmTable[z]
                       /\ z < 20 => OsmTable[z + 1] <= MapnikScale[z]
BY DEF MapnikScale, OsmTable

(* With that table a map at one of Mapnik's own scales gets the zoom level *)
(* that the scale was made for, as the comment above the table claims.     *)
THEOREM MapnikLevelsFound ==
    ASSUME numZoomLevelScaleDenominators = 21, zoomLevelScaleDenominators = OsmTable
    PROVE  Spec => []MapnikLevelExact
<1>1. ASSUME NEW z \in 0 .. 20
      PROVE  z \in ZoomLevels /\ IsZoomLevelOf(z, MapnikScale[z])
  <2>1. ZoomLevels = 0 .. 20
    BY DEF ZoomLevels
  <2>2. /\ MapnikScale[z] \in Nat
        /\ \A y \in 0 .. 20 : OsmTable[y] \in Nat
    BY DEF MapnikScale, OsmTable
  <2>3. OsmTable[z] > MapnikScale[z]
    BY <2>2, MapnikScaleBetween
  <2>4. ASSUME NEW finer \in 0 .. 20, finer > z
        PROVE  OsmTable[finer] <= MapnikScale[z]
    <3>1. z + 1 \in 0 .. 20 /\ OsmTable[z + 1] <= MapnikScale[z]
      BY <2>4, MapnikScaleBetween
    <3>2. finer = z + 1 \/ OsmTable[finer] < OsmTable[z + 1]
      BY <2>1, <2>4, <3>1, TableAssumption
    <3>3. QED
      BY <2>2, <3>1, <3>2
  <2>5. QED
    BY <2>1, <2>3, <2>4 DEF IsZoomLevelOf
<1>2. Inv => MapnikLevelExact
  <2> SUFFICES ASSUME Inv, pc = "getClosestTileSet", NEW z \in 0 .. 20,
                      scaleDenominator = MapnikScale[z]
               PROVE  zoom = z
    BY DEF MapnikLevelExact
  <2>1. /\ zoom \in ZoomLevels /\ scaleDenominator \in Nat
        /\ IsZoomLevelOf(zoom, scaleDenominator)
    BY DEF Inv, TypeOK, ZoomLevelRight
  <2>2. QED
    BY <1>1, <2>1, ZoomLevelUnique
<1>3. QED
  BY <1>2, Invariance, PTL

-----------------------------------------------------------------------------
(* features() comes to an end. *)

(* The steps it still takes at most. *)
StepsLeft ==
    CASE pc = "features" -> numZoomLevelScaleDenominators + MAX_ZOOM_LEVEL + 3
      [] pc = "getZoomLevel" -> numZoomLevelScaleDenominators - zoom + MAX_ZOOM_LEVEL + 2
      [] pc = "getClosestTileSet" -> i + 2
      [] pc = "answered" -> 0

LEMMA StepAdvances ==
    ASSUME TypeOK, [Next]_vars
    PROVE  /\ Plugin => StepsLeft' < StepsLeft
           /\ ~ Plugin => UNCHANGED StepsLeft
<1>1. /\ zoom \in Nat /\ zoom < numZoomLevelScaleDenominators /\ i \in -1 .. MAX_ZOOM_LEVEL
      /\ numZoomLevelScaleDenominators \in Nat /\ MAX_ZOOM_LEVEL \in Nat
  BY TableAssumption DEF TypeOK, ZoomLevels
<1>2. CASE Features
  <2>1. /\ pc = "features" /\ zoom' = zoom /\ i' = i
        /\ pc' = "getZoomLevel" \/ pc' = "answered"
    BY <1>2 DEF Features
  <2>2. /\ StepsLeft = numZoomLevelScaleDenominators + MAX_ZOOM_LEVEL + 3
        /\ \/ StepsLeft' = numZoomLevelScaleDenominators - zoom + MAX_ZOOM_LEVEL + 2
           \/ StepsLeft' = 0
    BY <2>1 DEF StepsLeft
  <2>3. StepsLeft' < StepsLeft
    BY <1>1, <2>2
  <2>4. Plugin
    BY <1>2 DEF Plugin
  <2>5. QED
    BY <2>3, <2>4
<1>3. CASE ZoomIn
  BY <1>1, <1>3 DEF ZoomIn, StepsLeft
<1>4. CASE ZoomFound
  BY <1>1, <1>4 DEF ZoomFound, StepsLeft
<1>5. CASE TestLevel
  BY <1>1, <1>5 DEF TestLevel, StepsLeft
<1>6. CASE OpenFeatureSet
  BY <1>1, <1>6 DEF OpenFeatureSet, StepsLeft
<1>7. CASE (\E level \in Levels : ChangeTileSet(level)) /\ ~ Plugin
  <2>1. UNCHANGED <<pc, zoom, i>>
    BY <1>7 DEF ChangeTileSet
  <2>2. QED
    BY <1>7, <2>1 DEF StepsLeft
<1>8. CASE UNCHANGED vars /\ ~ Plugin
  BY <1>8 DEF vars, StepsLeft
<1>9. QED
  BY <1>2, <1>3, <1>4, <1>5, <1>6, <1>7, <1>8 DEF Next, Plugin

(* Whatever happens on disk meanwhile, features() takes no more steps than *)
(* the table has entries and there are levels to test, and three: neither  *)
(* loop passes its end or fails to advance.                                *)
THEOREM AnswersInTime ==
    /\ Spec => [](StepsLeft \in 0 .. numZoomLevelScaleDenominators + MAX_ZOOM_LEVEL + 3)
    /\ Spec => [][/\ Plugin => StepsLeft' < StepsLeft
                  /\ ~ Plugin => UNCHANGED StepsLeft]_vars
<1>1. TypeOK /\ [Next]_vars => /\ Plugin => StepsLeft' < StepsLeft
                               /\ ~ Plugin => UNCHANGED StepsLeft
  BY StepAdvances
<1>2. TypeOK => StepsLeft \in 0 .. numZoomLevelScaleDenominators + MAX_ZOOM_LEVEL + 3
  BY TableAssumption, SMTT(30) DEF TypeOK, ZoomLevels, StepsLeft
<1>3. Spec => [](StepsLeft \in 0 .. numZoomLevelScaleDenominators + MAX_ZOOM_LEVEL + 3)
  BY <1>2, TypeCorrect, PTL
<1>4. Spec => [][/\ Plugin => StepsLeft' < StepsLeft
                 /\ ~ Plugin => UNCHANGED StepsLeft]_vars
  BY <1>1, TypeCorrect, PTL DEF Spec
<1>5. QED
  BY <1>3, <1>4
=============================================================================
