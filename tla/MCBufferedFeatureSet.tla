------------------------ MODULE MCBufferedFeatureSet ------------------------
(* BufferedFeatureSet over the tile sets and queries of MCTileSets. *)
EXTENDS BufferedFeatureSet, MCTileSets

(* What the theorem about complete answers asks of the tile sets. *)
ASSUME TileSetsWellLaid == \A fs \in TileSets : WellLaid(fs)

ASSUME QueriesProper == \A q \in Queries : q.minx <= q.maxx /\ q.miny <= q.maxy
=============================================================================
