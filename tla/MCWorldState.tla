---------------------------- MODULE MCWorldState ----------------------------
(* One chunk with a cell of air and a cell of stone, one region, two blocks  *)
(* that share a property with different defaults, one transient property.    *)
EXTENDS WorldState

CONSTANTS k1, air1, rock1, region1

WorldChunks == {k1}
WorldCells == {air1, rock1}
WorldTiers == {region1}
WorldChunkOf == [c \in WorldCells |-> k1]
WorldBase == [c \in WorldCells |-> IF c = rock1 THEN "stone" ELSE "air"]
WorldBlocks == {"air", "stone", "lamp", "torch"}
WorldRequests == {"air", "lamp", "torch", "unknown"}
WorldProperties == {"colour", "heat", "climate"}
WorldScope == [x \in WorldCells \cup WorldTiers \cup WorldProperties |->
                IF x \in WorldTiers \cup {"climate"} THEN "region" ELSE "block"]
WorldFits == [p \in WorldProperties |-> IF p = "colour" THEN {0, 1, 2} ELSE {0, 1}]
WorldSidecarDefault == [p \in WorldProperties |-> 0]
WorldDeclared == [b \in WorldBlocks |-> CASE b = "lamp" -> {"colour", "heat"}
                                          [] b = "torch" -> {"colour"}
                                          [] OTHER -> {}]
WorldPrototypeDefault == [b \in WorldBlocks |-> [p \in WorldProperties |->
                            IF b = "torch" THEN 1 ELSE 0]]
=============================================================================
