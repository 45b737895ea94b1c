-------------------------- MODULE MCPlayerInteraction --------------------------
\* A world of six blocks along each axis, in chunks of two: rays meet edges and
\* corners, cross from chunk to chunk and leave the world.
EXTENDS PlayerInteraction

Lowest == -1
Digits == <<2, 1, 1, 1, 1>>
Blocks(n) == TryOffset(Block, Origin, n)
Steps(n) == [cell |-> Blocks(n \div Sub), fraction |-> n % Sub]
Place(x, y, z) == <<Blocks(x), Blocks(y), Blocks(z)>>
Stand(x, y, z) == <<Steps(x), Steps(y), Steps(z)>>
\* The middle of a block, a point on an edge.
Standpoints == {Stand(-1, 1, 1), Stand(2, 0, 1)}
Directions == {<<-2, 1, 0>>, <<1, 1, -1>>}
\* Beside the player, at a corner of the ray, behind that corner.
Rocks == {Place(-2, 0, 0), Place(0, 1, 0), Place(0, 1, -1)}
Chunks == {ChunkOfCell(c) : c \in Rocks}
Views == {Chunks, Chunks \ {ChunkOfCell(Place(0, 1, 0))}}

\* The values of the constants.  TLC evaluates the body of a definition that stands for
\* a constant at every use of the constant, and any other constant definition once: the
\* bodies only name the values.
MCIntMin == Lowest
MCRadix == Digits
MCStands == Standpoints
MCAims == Directions
MCGenerated == Rocks
MCResidencies == Views
=============================================================================
