--------------------------- MODULE ChunkRendering ---------------------------
(***************************************************************************)
(* The picture of the world: chunks and their change notifications         *)
(* (ChunkManager.cpp), greedy meshes (ChunkMeshBuilder.cpp), the objects,  *)
(* tints and materials that ChunkWorldRenderer.cpp keeps for Ogre, and the *)
(* frame of Application.cpp that keeps them in step with the world.        *)
(*                                                                         *)
(* Chunks lie in a row along X; a cell is a triple of coordinates.  Chunks *)
(* above, below and beside the row are never loaded.                       *)
(***************************************************************************)
EXTENDS Integers, FiniteSets

CONSTANTS NChunks, Edge,     \* chunks in the row, BLOCKS_PER_CHUNK_EDGE
          Ids, Air,          \* the BlockIdTable
          Opaque, Cross,     \* BlockDef::opaque, renderShape
          TintProperty,      \* blocks with a visualTintProperty
          CastShadows,
          DiffuseSource,     \* "file", "color" or "generated", per block
          Base,              \* what worldgen puts in a cell
          Editable,          \* cells that commands touch (bound)
          Values,            \* packed tints, 0 is no tint
          TintDefault,       \* the logical default of the tint property
          ViewRadius,
          MeshBudget,        \* meshes per frame (6)
          MaxEdits,          \* edits (bound)
          None

Chunks == 0..(NChunks - 1)
Local == 0..(Edge - 1)
Cells == (0..(NChunks * Edge - 1)) \X Local \X Local

ASSUME RenderingAssumption ==
  /\ NChunks \in Nat \ {0} /\ Edge \in Nat \ {0}
  /\ Ids \subseteq Nat /\ Air = 0 /\ Air \in Ids
  /\ Opaque \cup Cross \cup TintProperty \cup CastShadows \subseteq Ids \ {Air}
  /\ DiffuseSource \in [Ids \ {Air} -> {"file", "color", "generated"}]
  /\ Base \in [Cells -> Ids]
  /\ Editable \subseteq Cells
  /\ 0 \in Values /\ None \notin Values /\ None \notin Ids
  /\ TintDefault \in [Ids -> Values]
  /\ ViewRadius \in Nat /\ MeshBudget \in Nat \ {0} /\ MaxEdits \in Nat

VARIABLES phase,      \* of the frame
          center,     \* the chunk of the camera
          anchor,     \* mRenderAnchor
          loaded, block, override,   \* the world: chunks, voxels, tint overrides
          listening,  \* the renderer's callback is in the ChunkManager
          dirty,      \* mDirty
          tints,      \* mBlockTints
          objects,    \* mObjects: where the node is and what its objects draw
          materials, tinted,         \* mMaterials, mTintedMaterials
          gpu,        \* everything the renderer created in Ogre and not destroyed
          edits       \* edits so far (bound)

world == <<loaded, block, override>>
vars == <<phase, center, anchor, world, listening, dirty, tints, objects,
          materials, tinted, gpu, edits>>

NoObject == <<>>

ChunkOf(cell) == cell[1] \div Edge
CellsOf(c) == {cell \in Cells : ChunkOf(cell) = c}
View(c) == {k \in Chunks : k - c \in (-ViewRadius)..ViewRadius}

Init == /\ phase = "starting"
        /\ center = 0 /\ anchor = 0
        /\ loaded = {}
        /\ block = [cell \in Cells |-> Air]
        /\ override = [cell \in Cells |-> None]
        /\ listening = FALSE
        /\ dirty = {}
        /\ tints = [cell \in Cells |-> None]
        /\ objects = [c \in Chunks |-> NoObject]
        /\ materials = {} /\ tinted = {} /\ gpu = {}
        /\ edits = 0
-----------------------------------------------------------------------------
(* ChunkManager: the world and who is told of its changes.                 *)

\* tryBlockAt; positions outside the row are never loaded.
BlockAt(cell) == IF cell \in Cells /\ ChunkOf(cell) \in loaded THEN block[cell] ELSE None

\* notifyChangeWithNeighbors
WithNeighbors(c) == {k \in Chunks : k - c \in -1..1}

\* notifyChangeForBlock.  Faulty variant: forgets the chunk across the border.
Bordering_OwnerOnly(cell) == {ChunkOf(cell)}
Bordering(cell) ==
  {k \in Chunks : \/ k = ChunkOf(cell)
                  \/ k = ChunkOf(cell) - 1 /\ cell[1] % Edge = 0
                  \/ k = ChunkOf(cell) + 1 /\ cell[1] % Edge = Edge - 1}

\* mOnChunkChange, when somebody listens.
Notified(chunks) == IF listening THEN chunks ELSE {}

\* WorldState::get of the tint property.
PropertyOf(blk, ovr, cell) == IF ovr[cell] = None THEN TintDefault[blk[cell]] ELSE ovr[cell]
-----------------------------------------------------------------------------
(* Meshes.                                                                 *)

Directions == [axis : 1..3, sign : {-1, 1}]

\* The axes of a slice in the order of the loops: u outside, v inside.
UAxis(d) == IF d.axis = 1 THEN 2 ELSE 1
VAxis(d) == IF d.axis = 3 THEN 2 ELSE 3

\* The cell of chunk c at depth s and place (u, v) of a slice.
CellAt(c, d, s, u, v) ==
  LET local == [i \in 1..3 |-> IF i = d.axis THEN s ELSE IF i = UAxis(d) THEN u ELSE v]
  IN <<c * Edge + local[1], local[2], local[3]>>

Across(cell, d) ==
  LET step(i) == IF i = d.axis THEN d.sign ELSE 0
  IN <<cell[1] + step(1), cell[2] + step(2), cell[3] + step(3)>>

\* A neighbour that is not loaded leaves a provisional face.
FaceVisible(id, neighbor) ==
  neighbor \in {None, Air} \/ (neighbor \notin Opaque /\ neighbor # id)

\* The visible faces of a slice: places and block ids.
Mask(c, d, s) ==
  {<<p[1], p[2], block[CellAt(c, d, s, p[1], p[2])]>> :
     p \in {q \in Local \X Local :
              LET cell == CellAt(c, d, s, q[1], q[2])
              IN /\ block[cell] \notin Cross \cup {Air}
                 /\ FaceVisible(block[cell], BlockAt(Across(cell, d)))}}

Rectangle(u, v, h, w) == (u..(u + h - 1)) \X (v..(v + w - 1))
Patch(u, v, h, w, id) == {<<p[1], p[2], id>> : p \in Rectangle(u, v, h, w)}

\* First as wide as it gets, then as high; per-voxel visuals do not merge.
Width(left, u, v, id) ==
  CHOOSE n \in 1..Edge : /\ Patch(u, v, 1, n, id) \subseteq left
                         /\ ~(Patch(u, v, 1, n + 1, id) \subseteq left)
Height(left, u, v, w, id) ==
  CHOOSE n \in 1..Edge : /\ Patch(u, v, n, w, id) \subseteq left
                         /\ ~(Patch(u, v, n + 1, w, id) \subseteq left)
Extent(left, u, v, id) ==
  IF id \in TintProperty THEN <<1, 1>>
  ELSE LET w == Width(left, u, v, id) IN <<Height(left, u, v, w, id), w>>

\* The quads of a slice, as <<u, v, h, w, id>>: the first face that is left,
\* in the order of the loops, takes what it can, and so on.
Before(p, q) == p[1] < q[1] \/ (p[1] = q[1] /\ p[2] < q[2])
Greedy[left \in SUBSET (Local \X Local \X Ids)] ==
  IF left = {} THEN {}
  ELSE LET p == CHOOSE f \in left : \A g \in left \ {f} : Before(f, g)
           size == Extent(left, p[1], p[2], p[3])
       IN {<<p[1], p[2], size[1], size[2], p[3]>>}
            \cup Greedy[left \ Patch(p[1], p[2], size[1], size[2], p[3])]

\* emitQuad: a quad remembers the voxel that emitted it, its corner.
SliceQuads(c, d, s) ==
  {[id |-> q[5], dir |-> d, depth |-> s, rect |-> <<q[1], q[2], q[3], q[4]>>,
    owner |-> CellAt(c, d, s, q[1], q[2])] : q \in Greedy[Mask(c, d, s)]}

\* Crossed planes, for a voxel at a time.
CrossDirection == [axis |-> 0, sign |-> 0]
CrossQuads(c) ==
  {[id |-> block[cell], dir |-> CrossDirection, depth |-> 0, rect |-> <<0, 0, 1, 1>>,
    owner |-> cell] : cell \in {x \in CellsOf(c) : block[x] \in Cross}}

Mesh(c) == CrossQuads(c) \cup UNION {SliceQuads(c, d, s) : d \in Directions, s \in Local}
-----------------------------------------------------------------------------
(* Objects, tints and materials.                                           *)

\* The sections of a manual object: quads of one shadow class, each with
\* the tint of the voxel that emitted it.
Sections(mesh, casts) ==
  {[quad |-> q, tint |-> tints[q.owner]] : q \in {m \in mesh : (m.id \in CastShadows) = casts}}

\* What sync makes of a chunk that is there.  A node that exists stays where
\* it is.
Rebuilt(c) ==
  LET mesh == Mesh(c)
      at == IF objects[c] = NoObject THEN c - anchor ELSE objects[c].at
  IN IF mesh = {} THEN NoObject
     ELSE [at |-> at, caster |-> Sections(mesh, TRUE), other |-> Sections(mesh, FALSE)]

SectionsOf(obj) == IF obj = NoObject THEN {} ELSE obj.caster \cup obj.other

\* tintedMaterialNameFor: variants are created on demand and kept.
TintedOf(obj) == {<<s.quad.id, s.tint>> : s \in {x \in SectionsOf(obj) : x.tint # None}}

\* What a chunk's object holds in Ogre.
Node(c) == <<"node", c>>
HandlesOf(c, obj) ==
  IF obj = NoObject THEN {}
  ELSE {Node(c)} \cup {<<"manual", c, TRUE>> : s \in obj.caster}
                 \cup {<<"manual", c, FALSE>> : s \in obj.other}
TintHandles(keys) == {<<"tint", k[1], k[2]>> : k \in keys}
MaterialHandles(ids) ==
  {<<"datablock", id>> : id \in ids}
    \cup {<<"texture", id>> : id \in {i \in ids : DiffuseSource[i] = "generated"}}

\* Everything that the objects in the books hold.
ObjectHandles == UNION {HandlesOf(c, objects[c]) : c \in Chunks}

\* The tint a property value stands for.
Decoded(value) == IF value = 0 THEN None ELSE value

\* updateBlockVisualTint and setBlockTint, after the chunks were notified.
SetBlockTint(cell, value, notified) ==
  /\ tints' = [tints EXCEPT ![cell] = Decoded(value)]
  /\ dirty' = dirty \cup notified \cup {ChunkOf(cell)}
-----------------------------------------------------------------------------
(* Starting: one material per block, or none of the program.               *)

\* ~ChunkWorldRenderer: everything in the books is destroyed, and the
\* callback is taken back.  Faulty variant: forgets the tinted variants.
Destroyed_NoTints == ObjectHandles \cup MaterialHandles(materials)
Destroyed == ObjectHandles \cup TintHandles(tinted) \cup MaterialHandles(materials)

Shutdown == /\ phase' = "down"
            /\ gpu' = gpu \ Destroyed
            /\ objects' = [c \in Chunks |-> NoObject]
            /\ materials' = {} /\ tinted' = {}
            /\ tints' = [cell \in Cells |-> None]
            /\ dirty' = {}
            /\ listening' = FALSE
            /\ UNCHANGED <<center, anchor, world, edits>>

NextMaterial == CHOOSE id \in Ids \ ({Air} \cup materials) :
                  \A other \in Ids \ ({Air} \cup materials) : id <= other

CreateMaterial == /\ phase = "starting"
                  /\ Ids \ ({Air} \cup materials) # {}
                  /\ materials' = materials \cup {NextMaterial}
                  /\ gpu' = gpu \cup MaterialHandles({NextMaterial})
                  /\ UNCHANGED <<phase, center, anchor, world, listening, dirty, tints,
                                 objects, tinted, edits>>

\* No datablock: its own generated texture goes at once, the rest with the
\* renderer, and the program ends.
MaterialFails == /\ phase = "starting"
                 /\ Ids \ ({Air} \cup materials) # {}
                 /\ phase' = "down"
                 /\ gpu' = gpu \ Destroyed
                 /\ materials' = {}
                 /\ UNCHANGED <<center, anchor, world, listening, dirty, tints, objects,
                                tinted, edits>>

Started == /\ phase = "starting"
           /\ Ids \ ({Air} \cup materials) = {}
           /\ phase' = "events"
           /\ UNCHANGED <<center, anchor, world, listening, dirty, tints, objects,
                          materials, tinted, gpu, edits>>
-----------------------------------------------------------------------------
(* A frame: events, camera and streaming, the pump, sync.                  *)

rendererBooks == <<objects, materials, tinted, gpu>>

\* A block command that changes a cell, from a click or from the bus: the
\* chunk drops the overrides of the cell, tells the renderer, and the change
\* hook projects the tint of the new block.
SetBlock(cell, id) ==
  /\ phase \in {"events", "pump"}
  /\ edits < MaxEdits
  /\ BlockAt(cell) \notin {None, id}
  /\ block' = [block EXCEPT ![cell] = id]
  /\ override' = [override EXCEPT ![cell] = None]
  /\ SetBlockTint(cell, IF id \in TintProperty THEN TintDefault[id] ELSE 0,
                  Notified(Bordering(cell)))
  /\ edits' = edits + 1
  /\ UNCHANGED <<phase, center, anchor, loaded, listening, rendererBooks>>

\* A property command that changes the tint property.
SetTintProperty(cell, value) ==
  /\ phase = "pump"
  /\ edits < MaxEdits
  /\ BlockAt(cell) \in TintProperty
  /\ value # PropertyOf(block, override, cell)
  /\ override' = [override EXCEPT ![cell] = IF value = TintDefault[block[cell]] THEN None
                                                                                ELSE value]
  /\ SetBlockTint(cell, value, Notified(Bordering(cell)))
  /\ edits' = edits + 1
  /\ UNCHANGED <<phase, center, anchor, loaded, block, listening, rendererBooks>>

\* pollEvents is over and nobody asked to stop.
EventsDone == /\ phase = "events"
              /\ phase' = "camera"
              /\ UNCHANGED <<center, anchor, world, listening, dirty, tints,
                             rendererBooks, edits>>

\* setRenderAnchor: every node moves when the anchor changes.
Reanchored(a) ==
  [c \in Chunks |-> IF objects[c] = NoObject THEN NoObject ELSE [objects[c] EXCEPT !.at = c - a]]

\* updateCameraView: the camera may be in a neighbouring chunk, the anchor
\* follows within one, and streaming evicts what is out of view and commits
\* some of what is missing.
MoveAndStream(to, a, commits) ==
  /\ phase = "camera"
  /\ to - center \in -1..1
  /\ a - to \in -1..1
  /\ a # anchor => to # center
  /\ commits \subseteq View(to) \ loaded
  /\ LET evicted == IF to = center THEN {} ELSE loaded \ View(to)
         told == UNION {WithNeighbors(c) : c \in evicted \cup commits}
     IN /\ loaded' = (loaded \ evicted) \cup commits
        /\ block' = [cell \in Cells |-> IF ChunkOf(cell) \in commits THEN Base[cell]
                                        ELSE IF ChunkOf(cell) \in evicted THEN Air
                                        ELSE block[cell]]
        /\ override' = [cell \in Cells |-> IF ChunkOf(cell) \in evicted THEN None
                                                                        ELSE override[cell]]
        /\ dirty' = dirty \cup Notified(told)
  /\ center' = to
  /\ anchor' = a
  /\ objects' = Reanchored(a)
  /\ phase' = "pump"
  /\ UNCHANGED <<listening, tints, materials, tinted, gpu, edits>>

PumpDone == /\ phase = "pump"
            /\ phase' = "sync"
            /\ UNCHANGED <<center, anchor, world, listening, dirty, tints,
                           rendererBooks, edits>>

\* The first sync installs the callback and takes every loaded chunk.
Pending == IF listening THEN dirty ELSE dirty \cup loaded
\* As many as the budget allows, in the order of their addresses.
\* Faulty variant: the budget is spent before the first mesh.
Meshed_OffByOne ==
  {c \in Pending \cap loaded :
     Cardinality({k \in Pending \cap loaded : k <= c}) < MeshBudget}
Meshed ==
  {c \in Pending \cap loaded :
     Cardinality({k \in Pending \cap loaded : k <= c}) <= MeshBudget}
\* Chunks over the budget wait for the next frame.
Waiting == (Pending \cap loaded) \ Meshed
\* The tints of a chunk go with it.
KeptTints == [cell \in Cells |-> IF ChunkOf(cell) \in Pending \ loaded THEN None ELSE tints[cell]]

\* Objects of chunks that are gone are destroyed, whatever the budget.
Synced == [c \in Chunks |-> CASE c \in Pending \ loaded -> NoObject
                              [] c \in Meshed -> Rebuilt(c)
                              [] OTHER -> objects[c]]
Drawn(objs) == UNION {TintedOf(objs[c]) : c \in Meshed}

Sync == /\ phase = "sync"
        /\ listening' = TRUE
        /\ dirty' = Waiting
        /\ tints' = KeptTints
        /\ objects' = Synced
        /\ tinted' = tinted \cup Drawn(objects')
        /\ gpu' = ((gpu \ UNION {HandlesOf(c, objects[c]) : c \in Pending})
                     \cup UNION {HandlesOf(c, objects'[c]) : c \in Pending})
                     \cup TintHandles(Drawn(objects'))
        /\ phase' = "events"
        /\ UNCHANGED <<center, anchor, world, materials, edits>>

\* A close request in the events, or an exception in the pump, which main()
\* catches: the renderer goes before the chunks it listens to.
CloseRequested == phase = "events" /\ Shutdown
PumpThrows == phase = "pump" /\ Shutdown

Down == phase = "down" /\ UNCHANGED vars

Frame == EventsDone \/ PumpDone \/ Sync
           \/ \E to, a \in Chunks : \E commits \in SUBSET Chunks : MoveAndStream(to, a, commits)

Next == \/ CreateMaterial \/ MaterialFails \/ Started
        \/ Frame
        \/ \E cell \in Editable, id \in Ids : SetBlock(cell, id)
        \/ \E cell \in Editable, value \in Values : SetTintProperty(cell, value)
        \/ CloseRequested \/ PumpThrows
        \/ Down

Spec == Init /\ [][Next]_vars

\* The loop of main() turns.
Turn == \/ phase = "events" /\ phase' = "camera"
        \/ phase = "camera" /\ phase' = "pump"
        \/ phase = "pump" /\ phase' = "sync"
        \/ phase = "sync" /\ phase' = "events"
FairSpec == Spec /\ WF_phase(Turn)
-----------------------------------------------------------------------------
(* Properties.                                                             *)

\* Every variable has its type.
TypeOK ==
  /\ phase \in {"starting", "events", "camera", "pump", "sync", "down"}
  /\ center \in Chunks /\ anchor \in Chunks
  /\ loaded \subseteq Chunks
  /\ block \in [Cells -> Ids]
  /\ override \in [Cells -> Values \cup {None}]
  /\ listening \in BOOLEAN
  /\ dirty \subseteq Chunks
  /\ tints \in [Cells -> (Values \ {0}) \cup {None}]
  /\ \A c \in Chunks : objects[c] # NoObject =>
       /\ objects[c].at \in Int
       /\ \A s \in SectionsOf(objects[c]) :
            s.quad.id \in Ids \ {Air} /\ s.quad.owner \in Cells /\ s.tint \in Values \cup {None}
  /\ materials \subseteq Ids \ {Air}
  /\ tinted \subseteq Ids \X Values
  /\ edits \in 0..MaxEdits

\* The tint that the property of a block asks for.
WorldTint(cell) == IF block[cell] \in TintProperty /\ PropertyOf(block, override, cell) # 0
                     THEN PropertyOf(block, override, cell) ELSE None
\* The renderer hears of changes only: a block that worldgen placed and nobody
\* changed may be drawn without the tint that is the default of its property.
ShownTints(cell) ==
  {WorldTint(cell)} \cup {t \in {None} : block[cell] = Base[cell] /\ override[cell] = None}

\* A face of the world: where it is, which way it looks, and its looks.
WorldFaces(c) ==
  {<<f[1], f[2], block[f[1]], tints[f[1]]>> :
     f \in {x \in CellsOf(c) \X Directions :
        /\ block[x[1]] \notin Cross \cup {Air}
        /\ FaceVisible(block[x[1]], BlockAt(Across(x[1], x[2])))}}
  \cup {<<cell, CrossDirection, block[cell], tints[cell]>> :
          cell \in {x \in CellsOf(c) : block[x] \in Cross}}

\* The faces a section covers, in world coordinates: its node stands at
\* anchor + at.
SectionFaces(obj, s) ==
  LET q == s.quad IN
  IF q.dir = CrossDirection THEN {<<q.owner, q.dir, q.id, s.tint>>}
  ELSE {<<CellAt(anchor + obj.at, q.dir, q.depth, p[1], p[2]), q.dir, q.id, s.tint>> :
          p \in Rectangle(q.rect[1], q.rect[2], q.rect[3], q.rect[4])}

Area(s) == s.quad.rect[3] * s.quad.rect[4]
DrawnOnce(obj) ==
  \A s, t \in SectionsOf(obj) : s # t => SectionFaces(obj, s) \cap SectionFaces(obj, t) = {}

\* The picture is the world: a loaded chunk nobody marked dirty is drawn face
\* by face as it is now, each face once, where it now lies; and the tint of a
\* face is the one its property has now, or none where nobody changed what
\* worldgen placed.  A chunk that is gone is not drawn.  Across borders, through
\* merging, budget, anchor changes, eviction and reloading.
PictureIsWorld ==
  phase \notin {"starting", "down"} /\ listening =>
    \A c \in Chunks \ dirty :
      IF c \in loaded
        THEN /\ UNION {SectionFaces(objects[c], s) : s \in SectionsOf(objects[c])} = WorldFaces(c)
             /\ DrawnOnce(objects[c])
             /\ \A cell \in CellsOf(c) : tints[cell] \in ShownTints(cell)
        ELSE objects[c] = NoObject

\* What lives in Ogre is what the books list, so the renderer leaves nothing
\* behind, whether it ends after a frame or half-way through its materials.
GpuMatchesBooks == gpu = ObjectHandles \cup TintHandles(tinted) \cup MaterialHandles(materials)

\* No chunk waits for ever behind the budget: once the camera rests and the
\* world stays, the picture is complete, unless the program ends.
Rest == <>[][UNCHANGED <<center, world>>]_vars
EveryChunkDrawn == Rest => \A c \in Chunks : []<>(c \notin dirty)

\* The picture and the types of all it is made of, in one invariant.
PictureInv == TypeOK /\ PictureIsWorld
=============================================================================
