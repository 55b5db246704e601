----------------------------- MODULE MCDataSource -----------------------------
(* Values for the constants of DataSource. *)
EXTENDS DataSource, Sequences

(* Mutant of OsmTable: the values of the web page, without the "+2". *)
OsmTableRounded ==
    LET entries == << 559082264, 279541132, 139770566, 69885283, 34942642, 17471321,
                      8735660, 4367830, 2183915, 1091958, 545979, 272989, 136495, 68247,
                      34124, 17062, 8531, 4265, 2133, 1066, 533 >>
    IN  [z \in 0 .. Len(entries) - 1 |-> entries[z + 1]]

(* zoomLevelScaleDenominators as it is in the source. *)
OsmTable ==
    LET entries == << 559082264+2, 279541132+2, 139770566+2, 69885283+2, 34942642+2,
                      17471321+2, 8735660+2, 4367830+2, 2183915+2, 1091958+2, 545979+2,
                      272989+2, 136495+2, 68247+2, 34124+2, 17062+2, 8531+2, 4265+2,
                      2133+2, 1066+2, 533+2 >>
    IN  [z \in 0 .. Len(entries) - 1 |-> entries[z + 1]]

(* The scale denominators Mapnik computes for the zoom levels: 559082264   *)
(* and a fraction, halved from level to level.                             *)
MapnikScale ==
    LET scales == << 559082264, 279541132, 139770566, 69885283, 34942641, 17471320,
                     8735660, 4367830, 2183915, 1091957, 545978, 272989, 136494,
                     68247, 34123, 17061, 8530, 4265, 2132, 1066, 533 >>
    IN  [z \in 0 .. 20 |-> scales[z + 1]]

OsmScales ==
    {0} \cup {MapnikScale[z] : z \in 0 .. 20}
        \cup UNION {{OsmTable[z] - 1, OsmTable[z], OsmTable[z] + 1} : z \in 0 .. 20}

OsmDirectories == {{}, 0 .. 24, {24}, {6, 12, 18}, {0, 10, 20}}

SmallTable == [z \in 0 .. 2 |-> CASE z = 0 -> 9 [] z = 1 -> 5 [] z = 2 -> 3]
SmallScales == 0 .. 10
SmallDirectories == SUBSET (0 .. 4)

(* The claim the table's comment makes: "the value in this array is always *)
(* consistently bigger than the scaleDenominator used by Mapnik for the    *)
(* given zoom level", so that a map drawn at a zoom level's own scale gets *)
(* exactly that level.                                                     *)
MapnikLevelExact ==
    pc = "getClosestTileSet" =>
        \A z \in 0 .. 20 : scaleDenominator = MapnikScale[z] => zoom = z
===============================================================================
