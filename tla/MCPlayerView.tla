----------------------------- MODULE MCPlayerView -----------------------------
\* A world of 64 blocks along each axis in groups of 2; the camera may go past
\* both ends of the first axis, and jump over more than two groups in one frame.
EXTENDS PlayerView

Lowest == -8
Digits == <<2, 1, 2, 1, 1>>
TwoAxes == {1, 2}
FirstBlock == <<2, 1>>
BothEnds == <<70, 4>>
BlockAt(x) == TryOffset(Block, Origin, x)
Landmarks == {<<BlockAt(4), BlockAt(1)>>, <<BlockAt(-13), BlockAt(-2)>>}

\* The values of the constants.  TLC evaluates the body of a definition that stands for
\* a constant at every use of the constant, and any other constant definition once: the
\* bodies only name the values.
MCIntMin == Lowest
MCRadix == Digits
MCAxes == TwoAxes
MCStart == FirstBlock
MCTargets == Landmarks
MCTravelBound == BothEnds
=============================================================================
