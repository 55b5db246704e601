------------------------ MODULE MCStreamingFeatureSet ------------------------
(* StreamingFeatureSet over the tile sets and queries of MCTileSets, whose *)
(* geometries are one to an entity.                                        *)
EXTENDS StreamingFeatureSet, MCTileSets

ASSUME EntitiesAssumption == OneGeometryPerEntity

(* What the theorem about complete answers asks of the tile sets. *)
ASSUME TileSetsWellLaid == \A fs \in TileSets : WellLaid(fs)

ASSUME QueriesProper == \A q \in Queries : q.minx <= q.maxx /\ q.miny <= q.maxy
==============================================================================
