--------------------------- MODULE MCChunkRendering ---------------------------
(* Values of the constants of ChunkRendering for TLC.                       *)
EXTENDS ChunkRendering

\* Stone, a lamp of tinted glass, and grass.
AllIds == 0..3
SourceOf == [id \in 1..3 |-> CASE id = 1 -> "file" [] id = 2 -> "color" [] OTHER -> "generated"]
\* A floor of stone with a lamp at the first border, grass on one voxel.
WorldgenBase ==
  [cell \in Cells |->
     CASE cell = <<0, 1, 1>> -> 3
       [] cell = <<Edge, 0, 0>> -> 2
       [] cell[2] = 1 -> 0
       [] OTHER -> 1]
EditedCells == {<<Edge - 1, 0, 0>>, <<Edge, 0, 0>>}
LampDefault == [id \in AllIds |-> IF id = 2 THEN 1 ELSE 0]
===============================================================================
