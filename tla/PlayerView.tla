------------------------------ MODULE PlayerView ------------------------------
(***************************************************************************)
(* Where the player is, in three frames of reference that must agree:      *)
(*   - DynamicSpace, the local float frame of the camera                   *)
(*     (src/spatial/dynamic/DynamicSpace.cpp), tied to the world by the    *)
(*     anchor of the bridge (src/spatial/bridge/WorldDynamicBridge.cpp);   *)
(*   - the hierarchical world position (WorldPosition.cpp);                *)
(*   - the render frame: the sticky group (StickyGroupAnchor.cpp) that the *)
(*     scene is drawn relative to, and the box around the selected block   *)
(*     (src/render/BlockSelectionRenderer.cpp).                            *)
(* The actions are the parts of a frame of src/app/Application.cpp.        *)
(*                                                                         *)
(* A block has Sub steps along an edge; the floats of the code are whole   *)
(* numbers of steps (rounding is not modelled: Sub is a power of two and   *)
(* every coordinate is in the range the floats represent exactly).         *)
(***************************************************************************)
EXTENDS HierarchicalCoordinates, FiniteSets

CONSTANTS Axes,            \* 1..3 in the program
          EdgeBlocks,      \* edge of DynamicSpace
          ThresholdTenths, \* the threshold of the sticky anchor, in tenths
          BackendGroups,   \* how far from its origin the back end may draw (64)
          Strides,         \* distances the camera moves in one frame
          Start,           \* blocks from the origin to the first position
          Targets,         \* blocks that may be looked at
          TargetReach,     \* how far a block may be looked at
          TravelBound      \* bound of the model on the way along each axis

ASSUME ViewAssumption ==
  /\ Axes = 1..Cardinality(Axes) /\ Axes # {}
  /\ EdgeBlocks \in Nat \ {0} /\ EdgeBlocks % 2 = 0
  /\ ThresholdTenths \in 6..9
  /\ BackendGroups \in Nat /\ TargetReach \in Nat
  /\ Strides \subseteq Nat
  /\ Targets \subseteq [Axes -> Addresses]

\* The distances that the program compares are far smaller than an int64.
ASSUME FitAssumption ==
  \A n \in {3, EdgeBlocks, BackendGroups * GroupEdge, TargetReach} : n \in Int64 /\ -n \in Int64

\* The first position is in DynamicSpace, and the group after its own has an address.
ASSUME StartAssumption ==
  \A a \in Axes : /\ 2 * Start[a] \in -EdgeBlocks..(EdgeBlocks - 1)
                  /\ Start[a] \in Addressable /\ Start[a] + GroupEdge \in Addressable

VARIABLES phase,      \* where the frame is
          camera,     \* position of the camera in DynamicSpace
          anchor,     \* block the bridge maps to the centre of DynamicSpace
          owner,      \* group the scene is drawn relative to
          pose,       \* position of the camera in the scene
          selection,  \* selected block
          box,        \* position of its outline in the scene
          travelled   \* history: the exact way from the origin of the world
vars == <<phase, camera, anchor, owner, pose, selection, box, travelled>>

Phases == {"start", "poll", "view", "target", "failed"}
None == <<>>
Hidden == <<>>
OriginBlock == [a \in Axes |-> Origin]
GroupSteps == GroupEdge * Sub
BackendBlocks == BackendGroups * GroupEdge
Half == (EdgeBlocks * Sub) \div 2
-----------------------------------------------------------------------------
(* WorldPosition and the bridge.                                           *)

\* translate: whole blocks move the cell, the rest is the fraction.  All axes or,
\* when one leaves the address space, an exception and none.
Translated(position, delta) ==
  LET steps(a) == position[a].fraction + delta[a]
      cell == [a \in Axes |-> TryOffset(Block, position[a].cell, steps(a) \div Sub)]
  IN IF (\E a \in Axes : steps(a) \div Sub \notin Int64) \/ cell \notin [Axes -> Addresses] THEN None
     ELSE [a \in Axes |-> [cell |-> cell[a], fraction |-> steps(a) % Sub]]

FromBlock(cells) == [a \in Axes |-> [cell |-> cells[a], fraction |-> 0]]

\* toWorld: where the camera is, or an exception.
ToWorld == Translated(FromBlock(anchor), camera)

\* blockDeltaWithin on every axis: the way from origin, or none.
DeltaTo(cells, origin, maxAbs) ==
  LET delta(a) == BlockDelta(cells[a], origin[a], maxAbs)
  IN IF \E a \in Axes : delta(a) = {} THEN None
     ELSE [a \in Axes |-> CHOOSE d \in delta(a) : TRUE]

Cells(position) == [a \in Axes |-> position[a].cell]

\* toLocal, relativeToGroup: a position seen from an origin, or an exception.
ToLocal(position, origin, maxAbs) ==
  LET delta == DeltaTo(Cells(position), origin, maxAbs)
  IN IF delta = None THEN None ELSE [a \in Axes |-> delta[a] * Sub + position[a].fraction]

GroupLocal(cell) == (cell[Chunk] * Radix[Block] + cell[Block]) * Sub
-----------------------------------------------------------------------------
(* The sticky anchor.                                                      *)

\* teleportTo: the group whose origin is nearer.
Teleported(position) ==
  [a \in Axes |-> LET group == GroupOf(position[a].cell)
                      local == GroupLocal(position[a].cell) + position[a].fraction
                  IN IF 2 * local <= GroupSteps THEN group ELSE TryOffset(Group, group, 1)]

Limit == ThresholdTenths * GroupSteps

\* Groups the owner moves for a camera this far from it: none inside the band.
Shift(local) ==
  IF 10 * local > Limit THEN ((10 * local - Limit) \div (10 * GroupSteps)) + 1
  ELSE IF 10 * local < -Limit THEN -(((-10 * local - Limit) \div (10 * GroupSteps)) + 1)
  ELSE 0

\* Faulty variant: the nearer group owns, whoever owned before.
Updated_NotSticky(position) == Teleported(position)

\* update: a camera further than two groups takes its own group as owner.
Updated(position) ==
  LET groups(a) == GroupDelta(GroupOf(position[a].cell), owner[a], 2)
      local(a) == (CHOOSE d \in groups(a) : TRUE) * GroupSteps
                    + GroupLocal(position[a].cell) + position[a].fraction
  IN IF \E a \in Axes : groups(a) = {}
     THEN [a \in Axes |-> GroupOf(position[a].cell)]
     ELSE [a \in Axes |-> TryOffset(Group, owner[a], Shift(local(a)))]
-----------------------------------------------------------------------------
(* One frame.                                                              *)

\* initializeWorld, up to the first view.
Init ==
  LET start == [a \in Axes |-> [cell |-> TryOffset(Block, Origin, Start[a]), fraction |-> 0]]
  IN /\ phase = "start"
     /\ anchor = OriginBlock
     /\ camera = ToLocal(start, OriginBlock, EdgeBlocks)
     /\ owner = Teleported(start)
     /\ pose = [a \in Axes |-> 0]
     /\ selection = None
     /\ box = Hidden
     /\ travelled = [a \in Axes |-> Start[a] * Sub]

\* axisRebaseDelta: whole edges that bring a coordinate back into range, in blocks.
AxisRebaseDelta(c) ==
  IF c \in -Half..(Half - 1) THEN 0
  ELSE ((c + Half) \div (EdgeBlocks * Sub)) * EdgeBlocks

\* applyRebase: whole edges are taken off.
Rebased(position, delta) == [a \in Axes |-> position[a] - delta[a] * Sub]

\* shiftAnchor: the bridge follows, or an exception at the end of the address space.
ShiftedAnchor(delta) ==
  LET cell == [a \in Axes |-> TryOffset(Block, anchor[a], delta[a])]
  IN IF cell \in [Axes -> Addresses] THEN cell ELSE None

Ways == [Axes -> {-1, 0, 1}]

\* moveCamera with maybeRebaseDynamicSpace: the keys held and the way the camera
\* looks give a displacement; out of range, camera and anchor are rebased together.
MoveCamera ==
  /\ phase = "poll"
  /\ \E way \in Ways, stride \in Strides :
       LET moved == [a \in Axes |-> camera[a] + way[a] * stride]
           delta == [a \in Axes |-> AxisRebaseDelta(moved[a])]
           rebased == Rebased(moved, delta)
           shifted == ShiftedAnchor(delta)
           overflow == \/ \E a \in Axes : delta[a] \notin Int64
                       \/ shifted = None
       IN /\ travelled' = [a \in Axes |-> travelled[a] + way[a] * stride]
          /\ \A a \in Axes : travelled'[a] \in -TravelBound[a]..TravelBound[a]
          /\ phase' = IF overflow THEN "failed" ELSE "view"
          /\ camera' = IF overflow THEN moved ELSE rebased
          /\ anchor' = IF overflow THEN anchor ELSE shifted
  /\ UNCHANGED <<owner, pose, selection, box>>

\* updatePosition of the outline.
Outline(block, origin) ==
  IF block = None THEN Hidden ELSE DeltaTo(block, origin, BackendBlocks)

\* Faulty variant: the outline stays where it is when the scene is rebased.
SetRenderAnchor_BoxStays(origin) == owner' = origin /\ UNCHANGED box

\* setRenderAnchor of the renderers: what they drew moves with the origin.
SetRenderAnchor(origin) ==
  /\ owner' = origin
  /\ box' = IF origin = owner THEN box ELSE Outline(selection, origin)

\* updateCameraView: the sticky anchor first, then the scene, then the pose in it.
UpdateCameraView ==
  /\ phase \in {"start", "view"}
  /\ LET position == ToWorld
         origin == Updated(position)
         relative == ToLocal(position, origin, BackendBlocks)
     IN IF IF position = None THEN TRUE ELSE \E a \in Axes : origin[a] = NoAddress
        THEN /\ phase' = "failed"
             /\ UNCHANGED <<owner, pose, box>>
        ELSE /\ SetRenderAnchor(origin)
             /\ IF relative = None
                THEN phase' = "failed" /\ UNCHANGED pose
                ELSE /\ pose' = relative
                     /\ phase' = IF phase = "start" THEN "poll" ELSE "target"
  /\ UNCHANGED <<camera, anchor, selection, travelled>>

\* setSelection.
SetSelection(block) ==
  /\ selection' = block
  /\ box' = IF block = selection THEN box ELSE Outline(block, owner)

\* updateBlockTarget: nothing, or a block in reach, is looked at and outlined.
UpdateBlockTarget ==
  /\ phase = "target"
  /\ \/ SetSelection(None)
     \/ \E block \in Targets : /\ DeltaTo(Cells(ToWorld), block, TargetReach) # None
                               /\ SetSelection(block)
  /\ phase' = "poll"
  /\ UNCHANGED <<camera, anchor, owner, pose, travelled>>

\* An exception leaves the frame loop: the program has ended.
Ended == phase = "failed" /\ UNCHANGED vars

Next == MoveCamera \/ UpdateCameraView \/ UpdateBlockTarget \/ Ended

Spec == Init /\ [][Next]_vars
-----------------------------------------------------------------------------
(* Properties.                                                             *)

Range == -Half..(Half - 1)

\* The state has its shape: addresses are canonical, the owner is a group, and
\* between frames the camera is inside DynamicSpace.
TypeOK ==
  /\ phase \in Phases
  /\ phase # "failed" => camera \in [Axes -> Range]
  /\ \A a \in Axes : Canonical(anchor[a]) /\ Canonical(owner[a]) /\ GroupOf(owner[a]) = owner[a]
  /\ pose \in [Axes -> Int]
  /\ selection \in Targets \cup {None}
  /\ box = Hidden \/ box \in [Axes -> -BackendBlocks..BackendBlocks]
  /\ travelled \in [Axes -> Int]

\* The camera and the anchor of the bridge together are the exact place in the
\* world: every carry, rebase and jump of the way taken is accounted for, and the
\* end of the address space is refused, never wrapped round.
PositionExact ==
  phase # "failed" =>
    LET position == ToWorld
    IN IF position = None
       THEN \E a \in Axes : (travelled[a] \div Sub) \notin Addressable
       ELSE \A a \in Axes :
              /\ Canonical(position[a].cell)
              /\ Flat(position[a].cell) * Sub + position[a].fraction = travelled[a]

\* When a frame is drawn, the pose of the camera and the outline of the selected
\* block, added to the origin of the scene, are their places in the world: no part
\* of the scene is left behind when the origin changes between frames.
SceneIsWorld ==
  phase \in {"poll", "target"} =>
    /\ \A a \in Axes : Flat(owner[a]) * Sub + pose[a] = travelled[a]
    /\ box # Hidden => /\ selection # None
                       /\ \A a \in Axes : Flat(owner[a]) + box[a] = Flat(selection[a])
    /\ box = Hidden /\ selection # None =>
         \E a \in Axes : Flat(selection[a]) - Flat(owner[a]) \notin -BackendBlocks..BackendBlocks

\* From the origin of a group to the camera.
FromOwner(group, a) == travelled[a] - Flat(group[a]) * Sub
InBand(group, a) == 10 * FromOwner(group, a) \in -Limit..Limit

\* A jump over groups, not a way through them.
Jumped(a) == FromOwner(owner, a) \notin (-2 * GroupSteps)..(3 * GroupSteps - 1)

ScenesFollow ==
  phase \in {"start", "view"} /\ phase' # "failed" =>
    \/ \E a \in Axes : Jumped(a)
    \/ \A a \in Axes : /\ InBand(owner, a) => owner'[a] = owner[a]
                       /\ InBand(owner', a)

\* The origin of the scene is sticky: it moves on an axis only when the camera has
\* left the band around it (or has jumped away), and the camera is in the band of
\* the new one, so that a camera at a border does not make it flicker.
AnchorSticky == [][ScenesFollow]_vars

\* The addresses in one invariant.
PositionInv == TypeOK /\ PositionExact
=============================================================================
