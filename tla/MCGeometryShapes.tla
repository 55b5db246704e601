--------------------------- MODULE MCGeometryShapes ---------------------------
(***************************************************************************)
(* Two points on both sides of zero, which nothing starts from but the     *)
(* first distance of a path, and one with a coordinate that an int32_t of  *)
(* Int32Max = 5 has no room for; a box at one, one between them, one at a  *)
(* corner of the box around them, one apart from it.                       *)
(***************************************************************************)
EXTENDS GeometryShapes

MCPoints == {<<-3, 2>>, <<4, -5>>, <<7, 1>>}

Square(west, south, east, north) ==
    [xMin |-> west, xMax |-> east, yMin |-> south, yMax |-> north]

MCBoxes == {Square(-3, 2, -3, 2), Square(-2, -1, 0, 1), Square(4, 2, 9, 9), Square(5, -9, 9, 9)}
===============================================================================
