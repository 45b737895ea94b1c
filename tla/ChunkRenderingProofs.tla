------------------------- MODULE ChunkRenderingProofs -------------------------
(***************************************************************************)
(* For every world, every geometry of chunks and every budget:             *)
(*   - what the renderer created in Ogre is what its books list, whatever  *)
(*     the world and the camera do, and nothing of it is left when it is   *)
(*     gone; how faces merge plays no part there, a mesh is any set of     *)
(*     quads;                                                              *)
(*   - greedy merging ends, and covers every visible face of a slice once; *)
(*   - so the picture is the world: a chunk that nobody marked dirty is    *)
(*     drawn face by face as it is, with its tints, where it lies.         *)
(***************************************************************************)
EXTENDS ChunkRendering, WellFoundedInduction, TLAPS

\* An object of a chunk has its three parts.
IsObject(obj) == obj = [at |-> obj.at, caster |-> obj.caster, other |-> obj.other]

\* The books are right only if no object is made before the materials are
\* complete (a failure there clears the materials and nothing else), if the
\* books are empty once the renderer is gone, and if only chunks of the row are
\* loaded or wait for a mesh.
BooksInv ==
  /\ GpuMatchesBooks
  /\ loaded \subseteq Chunks /\ dirty \subseteq Chunks
  /\ \A c \in Chunks : objects[c] = NoObject \/ IsObject(objects[c])
  /\ phase \in {"starting", "down"} => tinted = {} /\ \A c \in Chunks : objects[c] = NoObject
  /\ phase = "down" => materials = {}
-----------------------------------------------------------------------------
(* Handles.                                                                *)

\* A record is an object, and not the absence of one.
LEMMA RecordIsObject ==
  ASSUME NEW at, NEW caster, NEW other
  PROVE  LET obj == [at |-> at, caster |-> caster, other |-> other]
         IN IsObject(obj) /\ obj # NoObject
<1> DEFINE obj == [at |-> at, caster |-> caster, other |-> other]
<1>1. IsObject(obj)
  BY DEF IsObject
<1>2. DOMAIN obj = {"at", "caster", "other"} /\ DOMAIN NoObject = {}
  BY DEF NoObject
<1> QED
  BY <1>1, <1>2

LEMMA RebuiltIsObject ==
  ASSUME NEW c
  PROVE  Rebuilt(c) = NoObject \/ IsObject(Rebuilt(c))
  BY RecordIsObject DEF Rebuilt

\* Moving a node keeps its handles.
LEMMA MovedKeepsHandles ==
  ASSUME NEW c, NEW obj, IsObject(obj), obj # NoObject, NEW at
  PROVE  LET moved == [obj EXCEPT !.at = at]
         IN IsObject(moved) /\ HandlesOf(c, moved) = HandlesOf(c, obj)
<1> DEFINE moved == [at |-> at, caster |-> obj.caster, other |-> obj.other]
<1>1. [obj EXCEPT !.at = at] = moved
  BY DEF IsObject
<1>2. IsObject(moved) /\ moved # NoObject
  BY RecordIsObject
<1>3. moved.caster = obj.caster /\ moved.other = obj.other
  OBVIOUS
<1>4. HandlesOf(c, moved) = HandlesOf(c, obj)
  BY <1>2, <1>3 DEF HandlesOf
<1> QED
  BY <1>1, <1>2, <1>4

\* A handle says what it is and of which chunk.
LEMMA HandleKind ==
  ASSUME NEW c, NEW obj, NEW h \in HandlesOf(c, obj)
  PROVE  h[1] \in {"node", "manual"} /\ h[2] = c
<1>1. CASE h = <<"node", c>>
  BY <1>1
<1>2. CASE h = <<"manual", c, TRUE>>
  BY <1>2
<1>3. CASE h = <<"manual", c, FALSE>>
  BY <1>3
<1> QED
  BY <1>1, <1>2, <1>3 DEF HandlesOf, Node

LEMMA OtherKinds ==
  ASSUME NEW keys, NEW ids, NEW h \in TintHandles(keys) \cup MaterialHandles(ids)
  PROVE  h[1] \in {"tint", "datablock", "texture"}
  BY DEF TintHandles, MaterialHandles

LEMMA NoHandles ==
  /\ \A c : HandlesOf(c, NoObject) = {}
  /\ TintHandles({}) = {} /\ MaterialHandles({}) = {}
  BY DEF HandlesOf, TintHandles, MaterialHandles

LEMMA MoreHandles ==
  ASSUME NEW a, NEW b
  PROVE  /\ TintHandles(a \cup b) = TintHandles(a) \cup TintHandles(b)
         /\ MaterialHandles(a \cup b) = MaterialHandles(a) \cup MaterialHandles(b)
<1>1. TintHandles(a \cup b) = TintHandles(a) \cup TintHandles(b)
  BY DEF TintHandles
<1>2. MaterialHandles(a \cup b) = MaterialHandles(a) \cup MaterialHandles(b)
  BY DEF MaterialHandles
<1> QED
  BY <1>1, <1>2
-----------------------------------------------------------------------------
(* Starting and ending.                                                    *)

LEMMA BooksInit == Init => BooksInv
<1> SUFFICES ASSUME Init
             PROVE  BooksInv
  OBVIOUS
<1>1. /\ phase = "starting" /\ loaded = {} /\ dirty = {}
      /\ materials = {} /\ tinted = {} /\ gpu = {}
      /\ \A c \in Chunks : objects[c] = NoObject
  BY DEF Init
<1>2. ObjectHandles = {} /\ TintHandles(tinted) = {} /\ MaterialHandles(materials) = {}
  BY <1>1, NoHandles DEF ObjectHandles
<1> QED
  BY <1>1, <1>2 DEF BooksInv, GpuMatchesBooks

LEMMA BooksStart ==
  ASSUME BooksInv, CreateMaterial \/ MaterialFails \/ Started
  PROVE  BooksInv'
<1>1. /\ phase = "starting" /\ tinted = {} /\ \A c \in Chunks : objects[c] = NoObject
      /\ UNCHANGED <<loaded, dirty, objects, tinted>>
  BY DEF BooksInv, CreateMaterial, MaterialFails, Started, world
<1>2. /\ gpu = ObjectHandles \cup TintHandles(tinted) \cup MaterialHandles(materials)
      /\ ObjectHandles' = ObjectHandles
  BY <1>1 DEF BooksInv, GpuMatchesBooks, ObjectHandles
<1>3. CASE CreateMaterial
  <2>1. /\ materials' = materials \cup {NextMaterial} /\ phase' = phase
        /\ gpu' = gpu \cup MaterialHandles({NextMaterial})
    BY <1>3 DEF CreateMaterial
  <2>2. MaterialHandles(materials') = MaterialHandles(materials) \cup MaterialHandles({NextMaterial})
    BY <2>1, MoreHandles
  <2>3. GpuMatchesBooks'
    BY <1>1, <1>2, <2>1, <2>2 DEF GpuMatchesBooks
  <2> QED
    BY <1>1, <2>1, <2>3 DEF BooksInv
<1>4. CASE MaterialFails
  <2>1. materials' = {} /\ phase' = "down" /\ gpu' = gpu \ Destroyed
    BY <1>4 DEF MaterialFails
  <2>2. Destroyed = gpu /\ ObjectHandles = {} /\ TintHandles(tinted) = {} /\ MaterialHandles(materials') = {}
    BY <1>1, <1>2, <2>1, NoHandles DEF Destroyed, ObjectHandles
  <2>3. GpuMatchesBooks'
    BY <1>1, <1>2, <2>1, <2>2 DEF GpuMatchesBooks
  <2> QED
    BY <1>1, <2>1, <2>3 DEF BooksInv
<1>5. CASE Started
  <2>1. phase' = "events" /\ UNCHANGED <<materials, gpu>>
    BY <1>5 DEF Started
  <2>2. GpuMatchesBooks'
    BY <1>1, <1>2, <2>1 DEF GpuMatchesBooks
  <2> QED
    BY <1>1, <2>1, <2>2 DEF BooksInv
<1> QED
  BY <1>3, <1>4, <1>5

LEMMA BooksShutdown ==
  ASSUME BooksInv, Shutdown
  PROVE  BooksInv'
<1>1. /\ phase' = "down" /\ gpu' = gpu \ Destroyed
      /\ \A c \in Chunks : objects'[c] = NoObject
      /\ materials' = {} /\ tinted' = {} /\ dirty' = {} /\ loaded' = loaded
  BY DEF Shutdown, world
<1>2. gpu' = {}
  BY <1>1 DEF BooksInv, GpuMatchesBooks, Destroyed
<1>3. ObjectHandles' = {} /\ TintHandles(tinted') = {} /\ MaterialHandles(materials') = {}
  BY <1>1, NoHandles DEF ObjectHandles
<1> QED
  BY <1>1, <1>2, <1>3 DEF BooksInv, GpuMatchesBooks
-----------------------------------------------------------------------------
(* A frame.                                                                *)

\* Steps that leave the renderer and its books alone, but for what is dirty.
LEMMA BooksQuiet ==
  ASSUME BooksInv, UNCHANGED <<objects, materials, tinted, gpu>>,
         loaded' \subseteq Chunks, dirty' \subseteq Chunks,
         phase' \notin {"starting", "down"} \/ phase' = phase
  PROVE  BooksInv'
<1>1. ObjectHandles' = ObjectHandles
  BY DEF ObjectHandles
<1> QED
  BY <1>1 DEF BooksInv, GpuMatchesBooks

LEMMA ToldAreChunks ==
  /\ \A cell : Bordering(cell) \subseteq Chunks
  /\ \A c : WithNeighbors(c) \subseteq Chunks
  /\ \A told : told \subseteq Chunks => Notified(told) \subseteq Chunks
  BY DEF Bordering, WithNeighbors, Notified

LEMMA BooksSetTint ==
  ASSUME BooksInv, NEW cell, BlockAt(cell) # None, NEW value,
         SetBlockTint(cell, value, Notified(Bordering(cell))),
         UNCHANGED <<phase, loaded, objects, materials, tinted, gpu>>
  PROVE  BooksInv'
<1>1. ChunkOf(cell) \in Chunks
  BY DEF BooksInv, BlockAt
<1>2. dirty' \subseteq Chunks
  BY <1>1, ToldAreChunks DEF SetBlockTint, BooksInv
<1> QED
  BY <1>2, BooksQuiet DEF BooksInv

LEMMA BooksEdit ==
  ASSUME BooksInv,
         \/ \E cell \in Editable, id \in Ids : SetBlock(cell, id)
         \/ \E cell \in Editable, value \in Values : SetTintProperty(cell, value)
  PROVE  BooksInv'
<1>1. ASSUME NEW cell \in Editable, NEW id \in Ids, SetBlock(cell, id)
      PROVE  BooksInv'
  <2> DEFINE value == IF id \in TintProperty THEN TintDefault[id] ELSE 0
  <2>1. /\ BlockAt(cell) # None
        /\ SetBlockTint(cell, value, Notified(Bordering(cell)))
        /\ UNCHANGED <<phase, loaded, objects, materials, tinted, gpu>>
    BY <1>1 DEF SetBlock, rendererBooks
  <2> QED
    BY <2>1, BooksSetTint
<1>2. ASSUME NEW cell \in Editable, NEW value \in Values, SetTintProperty(cell, value)
      PROVE  BooksInv'
  <2>1. /\ BlockAt(cell) \in TintProperty
        /\ SetBlockTint(cell, value, Notified(Bordering(cell)))
        /\ UNCHANGED <<phase, loaded, objects, materials, tinted, gpu>>
    BY <1>2 DEF SetTintProperty, rendererBooks
  <2>2. BlockAt(cell) # None
    BY <2>1, RenderingAssumption
  <2> QED
    BY <2>1, <2>2, BooksSetTint
<1> QED
  BY <1>1, <1>2

LEMMA BooksMove ==
  ASSUME BooksInv, NEW to, NEW a, NEW commits, MoveAndStream(to, a, commits)
  PROVE  BooksInv'
<1> DEFINE evicted == IF to = center THEN {} ELSE loaded \ View(to)
           told == UNION {WithNeighbors(c) : c \in evicted \cup commits}
<1>1. /\ loaded' = (loaded \ evicted) \cup commits /\ commits \subseteq View(to)
      /\ dirty' = dirty \cup Notified(told)
      /\ objects' = Reanchored(a) /\ phase' = "pump"
      /\ UNCHANGED <<materials, tinted, gpu>>
  BY DEF MoveAndStream
<1>2. loaded' \subseteq Chunks
  BY <1>1 DEF BooksInv, View
<1>3. dirty' \subseteq Chunks
  BY <1>1, ToldAreChunks DEF BooksInv
<1>4. ASSUME NEW c \in Chunks
      PROVE  /\ objects'[c] = NoObject \/ IsObject(objects'[c])
             /\ HandlesOf(c, objects'[c]) = HandlesOf(c, objects[c])
  <2>1. objects'[c] = IF objects[c] = NoObject THEN NoObject
                      ELSE [objects[c] EXCEPT !.at = c - a]
    BY <1>1 DEF Reanchored
  <2>2. CASE objects[c] = NoObject
    BY <2>1, <2>2
  <2>3. CASE objects[c] # NoObject
    <3>1. IsObject(objects[c])
      BY <2>3 DEF BooksInv
    <3> QED
      BY <2>1, <2>3, <3>1, MovedKeepsHandles
  <2> QED
    BY <2>2, <2>3
<1>5. ObjectHandles' = ObjectHandles
  BY <1>1, <1>4 DEF ObjectHandles
<1>6. GpuMatchesBooks'
  BY <1>1, <1>5 DEF BooksInv, GpuMatchesBooks
<1> QED
  BY <1>1, <1>2, <1>3, <1>4, <1>6 DEF BooksInv

\* sync destroys what the pending chunks had, and nothing of another chunk, tint or
\* material; then it creates what they have now.
LEMMA BooksSync ==
  ASSUME BooksInv, Sync
  PROVE  BooksInv'
<1> DEFINE old == UNION {HandlesOf(c, objects[c]) : c \in Pending}
           new == UNION {HandlesOf(c, objects'[c]) : c \in Pending}
           kept == UNION {HandlesOf(c, objects[c]) : c \in Chunks \ Pending}
           drawn == TintHandles(Drawn(objects'))
<1>1. /\ dirty' = Waiting /\ phase' = "events" /\ objects' = Synced
      /\ tinted' = tinted \cup Drawn(objects')
      /\ gpu' = ((gpu \ old) \cup new) \cup drawn
      /\ UNCHANGED <<loaded, materials>>
  BY DEF Sync, world
<1>2. Pending \subseteq Chunks /\ Meshed \subseteq Pending \cap loaded /\ dirty' \subseteq Chunks
  BY <1>1 DEF BooksInv, Pending, Meshed, Waiting
<1>3. ASSUME NEW c \in Chunks
      PROVE  /\ objects'[c] = NoObject \/ IsObject(objects'[c])
             /\ c \notin Pending => objects'[c] = objects[c]
  <2>1. CASE c \in Pending \ loaded
    <3>1. c \notin Meshed
      BY <1>2, <2>1
    <3>2. objects'[c] = NoObject
      BY <1>1, <2>1, <3>1 DEF Synced
    <3> QED
      BY <2>1, <3>2
  <2>2. CASE c \in Meshed
    <3>1. objects'[c] = Rebuilt(c)
      BY <1>1, <1>2, <2>2 DEF Synced
    <3> QED
      BY <1>2, <2>2, <3>1, RebuiltIsObject
  <2>3. CASE c \notin Pending \ loaded /\ c \notin Meshed
    <3>1. objects'[c] = objects[c]
      BY <1>1, <2>3 DEF Synced
    <3> QED
      BY <3>1 DEF BooksInv
  <2> QED
    BY <1>2, <2>1, <2>2, <2>3
<1>4. ObjectHandles = old \cup kept
  BY <1>2 DEF ObjectHandles
<1>5. ObjectHandles' = new \cup kept
  BY <1>2, <1>3 DEF ObjectHandles
<1>6. old \cap kept = {}
  BY HandleKind
<1>7. old \cap (TintHandles(tinted) \cup MaterialHandles(materials)) = {}
  BY HandleKind, OtherKinds
<1>8. TintHandles(tinted') = TintHandles(tinted) \cup drawn
  BY <1>1, MoreHandles
<1>9. GpuMatchesBooks'
  <2>1. gpu = old \cup kept \cup TintHandles(tinted) \cup MaterialHandles(materials)
    BY <1>4 DEF BooksInv, GpuMatchesBooks
  <2> HIDE DEF old, new, kept, drawn
  <2>2. gpu \ old = kept \cup TintHandles(tinted) \cup MaterialHandles(materials)
    BY <1>6, <1>7, <2>1
  <2> QED
    BY <1>1, <1>5, <1>8, <2>2 DEF GpuMatchesBooks
<1> QED
  BY <1>1, <1>2, <1>3, <1>9 DEF BooksInv
-----------------------------------------------------------------------------
LEMMA BooksNext == BooksInv /\ [Next]_vars => BooksInv'
<1> SUFFICES ASSUME BooksInv, [Next]_vars
             PROVE  BooksInv'
  OBVIOUS
<1>1. CASE CreateMaterial \/ MaterialFails \/ Started
  BY <1>1, BooksStart
<1>2. CASE EventsDone \/ PumpDone
  <2>1. /\ UNCHANGED <<loaded, dirty, objects, materials, tinted, gpu>>
        /\ phase' \in {"camera", "sync"}
    BY <1>2 DEF EventsDone, PumpDone, world, rendererBooks
  <2> QED
    BY <2>1, BooksQuiet DEF BooksInv
<1>3. CASE Sync
  BY <1>3, BooksSync
<1>4. CASE \E to, a \in Chunks : \E commits \in SUBSET Chunks : MoveAndStream(to, a, commits)
  BY <1>4, BooksMove
<1>5. CASE \/ \E cell \in Editable, id \in Ids : SetBlock(cell, id)
           \/ \E cell \in Editable, value \in Values : SetTintProperty(cell, value)
  BY <1>5, BooksEdit
<1>6. CASE CloseRequested \/ PumpThrows
  BY <1>6, BooksShutdown DEF CloseRequested, PumpThrows
<1>7. CASE Down \/ UNCHANGED vars
  <2>1. UNCHANGED <<phase, loaded, dirty, objects, materials, tinted, gpu>>
    BY <1>7 DEF Down, vars, world
  <2> QED
    BY <2>1, BooksQuiet DEF BooksInv
<1> QED
  BY <1>1, <1>2, <1>3, <1>4, <1>5, <1>6, <1>7 DEF Next, Frame

\* What lives in Ogre is what the books of the renderer list, through every mesh that
\* is rebuilt, moved or dropped and a start that fails at any material.
THEOREM BooksHold == FairSpec => []GpuMatchesBooks
<1>1. BooksInv => GpuMatchesBooks
  BY DEF BooksInv
<1> QED
  BY <1>1, BooksInit, BooksNext, PTL DEF FairSpec, Spec

\* When the renderer is gone, whichever way, nothing that it created is left.
THEOREM NothingLeft == FairSpec => [](phase = "down" => gpu = {})
<1>1. BooksInv => (phase = "down" => gpu = {})
  <2> SUFFICES ASSUME BooksInv, phase = "down"
               PROVE  gpu = {}
    OBVIOUS
  <2>1. ObjectHandles = {} /\ TintHandles(tinted) = {} /\ MaterialHandles(materials) = {}
    BY NoHandles DEF BooksInv, ObjectHandles
  <2> QED
    BY <2>1 DEF BooksInv, GpuMatchesBooks
<1> QED
  BY <1>1, BooksInit, BooksNext, PTL DEF FairSpec, Spec
-----------------------------------------------------------------------------
(* Greedy merging.                                                         *)

LEMMA EdgeFacts == Edge \in Nat \ {0} /\ NChunks \in Nat \ {0} /\ Ids \subseteq Nat
  BY RenderingAssumption

\* A set of numbers has a least one.
LEMMA LeastNumber ==
  ASSUME NEW T, T \subseteq Nat, T # {}
  PROVE  \E n \in T : \A k \in T : n <= k
<1>1. \E n \in T : \A k \in T : ~ (<<k, n>> \in OpToRel(<, Nat))
  BY NatLessThanWellFounded, WFMin
<1>2. PICK n \in T : \A k \in T : ~ (<<k, n>> \in OpToRel(<, Nat))
  BY <1>1
<1>3. ASSUME NEW k \in T, ~(n <= k) PROVE FALSE
  <2>1. k < n /\ <<k, n>> \in Nat \X Nat
    BY <1>3
  <2>2. <<k, n>> \in OpToRel(<, Nat)
    BY <2>1 DEF OpToRel
  <2> QED
    BY <1>2, <2>2
<1> QED
  BY <1>3

LEMMA MulLess ==
  ASSUME NEW r \in Nat \ {0}, NEW x \in Int, NEW y \in Int, x < y
  PROVE  x * r + r <= y * r /\ x * r \in Int /\ y * r \in Int
<1>1. (y - x) * r >= r
  OBVIOUS
<1>2. (y - x) * r = y * r - x * r
  OBVIOUS
<1> QED
  BY <1>1, <1>2

\* The faces of a slice: at most one in a place.
Slice(left) == /\ left \subseteq Local \X Local \X Ids
               /\ \A f, g \in left : f[1] = g[1] /\ f[2] = g[2] => f = g

\* The place of a face in the order of the loops.
Place(f) == f[1] * Edge + f[2]

LEMMA PlaceOrder ==
  ASSUME NEW f \in Local \X Local \X Ids, NEW g \in Local \X Local \X Ids
  PROVE  /\ Place(f) \in 0..(Edge * Edge - 1)
         /\ Before(f, g) <=> Place(f) < Place(g)
         /\ Place(f) = Place(g) => f[1] = g[1] /\ f[2] = g[2]
<1>1. PICK a, b, x, y, e : /\ a = f[1] /\ b = f[2] /\ x = g[1] /\ y = g[2] /\ e = Edge
  OBVIOUS
<1>2. /\ a \in 0..(e - 1) /\ b \in 0..(e - 1) /\ x \in 0..(e - 1) /\ y \in 0..(e - 1)
      /\ e \in Nat \ {0}
  BY <1>1, EdgeFacts DEF Local
<1>3. /\ Place(f) = a * e + b /\ Place(g) = x * e + y
      /\ Before(f, g) <=> (a < x \/ (a = x /\ b < y))
  BY <1>1 DEF Place, Before
<1>4. a * e \in Nat /\ x * e \in Nat
  BY <1>2
<1>5. a < x => a * e + e <= x * e
  BY <1>2, MulLess
<1>6. x < a => x * e + e <= a * e
  BY <1>2, MulLess
<1>7. a * e + e <= e * e
  <2>1. a < e /\ a \in Int /\ e \in Int
    BY <1>2
  <2> QED
    BY <1>2, <2>1, MulLess
<1>8. a * e + b \in 0..(e * e - 1)
  BY <1>2, <1>4, <1>7
<1>9. (a < x \/ (a = x /\ b < y)) <=> a * e + b < x * e + y
  BY <1>2, <1>4, <1>5, <1>6
<1>10. a * e + b = x * e + y => a = x /\ b = y
  BY <1>2, <1>4, <1>5, <1>6
<1> QED
  BY <1>1, <1>3, <1>8, <1>9, <1>10

\* The face that the merging takes next.
First(left) == CHOOSE f \in left : \A g \in left \ {f} : Before(f, g)

\* The first face of a slice.
LEMMA FirstIs ==
  ASSUME NEW left, Slice(left), left # {}
  PROVE  First(left) \in left /\ \A g \in left \ {First(left)} : Place(First(left)) < Place(g)
<1> DEFINE T == {Place(f) : f \in left}
<1>1. T \subseteq Nat /\ T # {}
  BY PlaceOrder DEF Slice
<1>2. PICK n \in T : \A k \in T : n <= k
  BY <1>1, LeastNumber
<1>3. PICK f \in left : n = Place(f)
  BY <1>2
<1>4. ASSUME NEW g \in left \ {f} PROVE Before(f, g)
  <2>1. Place(f) <= Place(g) /\ Place(f) \in Int /\ Place(g) \in Int
    BY <1>1, <1>2, <1>3
  <2>2. Place(f) # Place(g)
    BY PlaceOrder DEF Slice
  <2>3. Place(f) < Place(g)
    BY <2>1, <2>2
  <2> QED
    BY <2>3, PlaceOrder DEF Slice
<1>5. \E x \in left : \A g \in left \ {x} : Before(x, g)
  BY <1>4
<1>6. First(left) \in left /\ \A g \in left \ {First(left)} : Before(First(left), g)
  BY <1>5 DEF First
<1> QED
  BY <1>6, PlaceOrder DEF Slice

\* What grows from one and does not go past the edge ends somewhere.
LEMMA GrowthEnds ==
  ASSUME NEW G, 1 \in G, Edge + 1 \notin G
  PROVE  \E n \in 1..Edge : n \in G /\ n + 1 \notin G
<1> DEFINE T == {n \in 1..Edge : n + 1 \notin G}
<1>1. Edge \in T /\ T \subseteq Nat
  BY EdgeFacts
<1>2. PICK n \in T : \A k \in T : n <= k
  BY <1>1, LeastNumber
<1>3. CASE n = 1
  BY <1>2, <1>3
<1>4. CASE n # 1
  <2>1. n - 1 \in 1..Edge /\ (n - 1) + 1 = n
    BY <1>2, <1>4, EdgeFacts
  <2>2. n - 1 \notin T
    BY <1>1, <1>2, <2>1
  <2>3. n \in G
    BY <2>1, <2>2
  <2> QED
    BY <1>2, <2>3
<1> QED
  BY <1>3, <1>4

LEMMA PatchIs ==
  ASSUME NEW u \in Local, NEW v \in Local, NEW h \in Nat \ {0}, NEW w \in Nat \ {0}, NEW id
  PROVE  /\ \A f : f \in Patch(u, v, h, w, id) <=>
                     \E i \in u..(u + h - 1), j \in v..(v + w - 1) : f = <<i, j, id>>
         /\ <<u, v, id>> \in Patch(u, v, h, w, id)
         /\ <<u + h - 1, v, id>> \in Patch(u, v, h, w, id)
         /\ <<u, v + w - 1, id>> \in Patch(u, v, h, w, id)
         /\ h = 1 /\ w = 1 => Patch(u, v, h, w, id) = {<<u, v, id>>}
<1>1. u \in Nat /\ v \in Nat
  BY EdgeFacts DEF Local
<1>2. ASSUME NEW f PROVE f \in Patch(u, v, h, w, id) <=>
                     \E i \in u..(u + h - 1), j \in v..(v + w - 1) : f = <<i, j, id>>
  <2>1. ASSUME f \in Patch(u, v, h, w, id)
        PROVE  \E i \in u..(u + h - 1), j \in v..(v + w - 1) : f = <<i, j, id>>
    <3>1. PICK p \in (u..(u + h - 1)) \X (v..(v + w - 1)) : f = <<p[1], p[2], id>>
      BY <2>1 DEF Patch, Rectangle
    <3>2. p[1] \in u..(u + h - 1) /\ p[2] \in v..(v + w - 1)
      BY <3>1
    <3> QED
      BY <3>1, <3>2
  <2>2. ASSUME NEW i \in u..(u + h - 1), NEW j \in v..(v + w - 1), f = <<i, j, id>>
        PROVE  f \in Patch(u, v, h, w, id)
    <3>1. <<i, j>> \in Rectangle(u, v, h, w) /\ <<i, j>>[1] = i /\ <<i, j>>[2] = j
      BY DEF Rectangle
    <3> QED
      BY <2>2, <3>1 DEF Patch
  <2> QED
    BY <2>1, <2>2
<1>3. /\ u \in u..(u + h - 1) /\ v \in v..(v + w - 1)
      /\ u + h - 1 \in u..(u + h - 1) /\ v + w - 1 \in v..(v + w - 1)
  BY <1>1
<1>4. h = 1 /\ w = 1 => \A i \in u..(u + h - 1), j \in v..(v + w - 1) : i = u /\ j = v
  BY <1>1
<1> QED
  BY <1>2, <1>3, <1>4

\* What the merging takes from its first face on: a patch of what is left.
LEMMA ExtentIs ==
  ASSUME NEW left, Slice(left), NEW p \in left,
         NEW size, size = Extent(left, p[1], p[2], p[3])
  PROVE  /\ size[1] \in 1..Edge /\ size[2] \in 1..Edge
         /\ Patch(p[1], p[2], size[1], size[2], p[3]) \subseteq left
         /\ p \in Patch(p[1], p[2], size[1], size[2], p[3])
         /\ p[3] \in TintProperty => size[1] = 1 /\ size[2] = 1
<1>1. PICK u, v, id : u = p[1] /\ v = p[2] /\ id = p[3] /\ p = <<u, v, id>>
  BY DEF Slice
<1>2. u \in Local /\ v \in Local /\ id \in Ids /\ u \in 0..(Edge - 1) /\ v \in 0..(Edge - 1)
  BY <1>1 DEF Slice, Local
<1>3. Patch(u, v, 1, 1, id) = {p}
  <2>1. 1 \in Nat \ {0} /\ u \in Local /\ v \in Local
    BY <1>2
  <2>2. Patch(u, v, 1, 1, id) = {<<u, v, id>>}
    BY <2>1, PatchIs
  <2> QED
    BY <1>1, <2>2
<1>4. CASE id \in TintProperty
  <2>1. size = <<1, 1>>
    BY <1>1, <1>4 DEF Extent
  <2> QED
    BY <1>1, <1>3, <2>1, EdgeFacts
<1>5. CASE id \notin TintProperty
  <2> DEFINE w == Width(left, u, v, id)
             h == Height(left, u, v, w, id)
             Wide == {n \in Nat : Patch(u, v, 1, n, id) \subseteq left}
             High == {n \in Nat : Patch(u, v, n, w, id) \subseteq left}
  <2>1. 1 \in Wide
    BY <1>3
  <2>2. Edge + 1 \notin Wide
    <3>1. <<u, v + (Edge + 1) - 1, id>> \in Patch(u, v, 1, Edge + 1, id)
      <4>1. Edge + 1 \in Nat \ {0} /\ 1 \in Nat \ {0}
        BY EdgeFacts
      <4> QED
        BY <1>2, <4>1, PatchIs
    <3>2. v + (Edge + 1) - 1 \notin Local
      BY <1>2, EdgeFacts DEF Local
    <3> QED
      BY <3>1, <3>2 DEF Slice
  <2>3. \E n \in 1..Edge : n \in Wide /\ n + 1 \notin Wide
    BY <2>1, <2>2, GrowthEnds
  <2>4. \E n \in 1..Edge : /\ Patch(u, v, 1, n, id) \subseteq left
                           /\ ~(Patch(u, v, 1, n + 1, id) \subseteq left)
    BY <2>3, EdgeFacts
  <2>5. w \in 1..Edge /\ Patch(u, v, 1, w, id) \subseteq left
    BY <2>4 DEF Width
  <2>6. 1 \in High
    BY <2>5
  <2>7. Edge + 1 \notin High
    <3>1. <<u + (Edge + 1) - 1, v, id>> \in Patch(u, v, Edge + 1, w, id)
      <4>1. Edge + 1 \in Nat \ {0} /\ w \in Nat \ {0}
        BY <2>5, EdgeFacts
      <4> QED
        BY <1>2, <4>1, PatchIs
    <3>2. u + (Edge + 1) - 1 \notin Local
      BY <1>2, EdgeFacts DEF Local
    <3> QED
      BY <3>1, <3>2 DEF Slice
  <2>8. \E n \in 1..Edge : n \in High /\ n + 1 \notin High
    BY <2>6, <2>7, GrowthEnds
  <2>9. \E n \in 1..Edge : /\ Patch(u, v, n, w, id) \subseteq left
                           /\ ~(Patch(u, v, n + 1, w, id) \subseteq left)
    BY <2>8, EdgeFacts
  <2>10. h \in 1..Edge /\ Patch(u, v, h, w, id) \subseteq left
    BY <2>9 DEF Height
  <2>11. size = <<h, w>>
    BY <1>1, <1>5 DEF Extent
  <2>12. <<u, v, id>> \in Patch(u, v, h, w, id)
    <3>1. h \in Nat \ {0} /\ w \in Nat \ {0}
      BY <2>5, <2>10, EdgeFacts
    <3> QED
      BY <1>2, <3>1, PatchIs
  <2> QED
    BY <1>1, <1>5, <2>5, <2>10, <2>11, <2>12
<1> QED
  BY <1>4, <1>5

-----------------------------------------------------------------------------
Faces == SUBSET (Local \X Local \X Ids)

\* The quad that the merging takes first, the patch that it covers, and what is left.
PatchOf(q) == Patch(q[1], q[2], q[3], q[4], q[5])
Size(left) == Extent(left, First(left)[1], First(left)[2], First(left)[3])
Quad(left) == <<First(left)[1], First(left)[2], Size(left)[1], Size(left)[2], First(left)[3]>>
Leftover(left) ==
  left \ Patch(First(left)[1], First(left)[2], Size(left)[1], Size(left)[2], First(left)[3])

Merges(G) == G = [left \in Faces |-> IF left = {} THEN {} ELSE {Quad(left)} \cup G[Leftover(left)]]

LEMMA GreedyIs == Greedy = CHOOSE G : Merges(G)
  BY DEF Greedy, Merges, Faces, Quad, Leftover, Size, First

\* What is left at some time when the merging starts with a set of faces.
Reaches(left) == {m \in Faces : \A S \in SUBSET Faces :
                    left \in S /\ (\A x \in S \ {{}} : Leftover(x) \in S) => m \in S}

LEMMA ReachesFacts ==
  ASSUME NEW left \in Faces
  PROVE  /\ left \in Reaches(left)
         /\ \A x \in Reaches(left) \ {{}} : Leftover(x) \in Reaches(left)
         /\ Reaches({}) \ {{}} = {}
         /\ left # {} => Reaches(left) = {left} \cup Reaches(Leftover(left))
<1>1. \A x \in Faces : Leftover(x) \in Faces
  BY DEF Leftover, Faces
<1>2. \A y \in Faces : y \in Reaches(y)
  BY DEF Reaches
<1>3. ASSUME NEW y \in Faces, NEW x \in Reaches(y) \ {{}}
      PROVE  Leftover(x) \in Reaches(y)
  <2>1. Leftover(x) \in Faces
    BY <1>1 DEF Reaches
  <2>2. ASSUME NEW S \in SUBSET Faces, y \in S, \A z \in S \ {{}} : Leftover(z) \in S
        PROVE  Leftover(x) \in S
    <3>1. x \in S
      BY <2>2 DEF Reaches
    <3> QED
      BY <2>2, <3>1
  <2> QED
    BY <2>1, <2>2 DEF Reaches
<1>4. Reaches({}) \ {{}} = {}
  <2>1. {{}} \in SUBSET Faces
    BY DEF Faces
  <2> QED
    BY <2>1 DEF Reaches
<1>5. ASSUME left # {} PROVE Reaches(left) = {left} \cup Reaches(Leftover(left))
  <2>1. Leftover(left) \in Faces
    BY <1>1
  <2>2. ASSUME NEW m \in Reaches(left) PROVE m \in {left} \cup Reaches(Leftover(left))
    <3> DEFINE S == {left} \cup Reaches(Leftover(left))
    <3>1. S \in SUBSET Faces
      BY DEF Reaches
    <3>2. \A x \in S \ {{}} : Leftover(x) \in S
      BY <1>2, <1>3, <2>1
    <3>3. left \in S
      OBVIOUS
    <3> HIDE DEF S
    <3>4. m \in S
      BY <2>2, <3>1, <3>2, <3>3 DEF Reaches
    <3> QED
      BY <3>4 DEF S
  <2>3. ASSUME NEW m \in Reaches(Leftover(left)) PROVE m \in Reaches(left)
    <3>1. m \in Faces
      BY <2>3 DEF Reaches
    <3>2. ASSUME NEW S \in SUBSET Faces, left \in S, \A x \in S \ {{}} : Leftover(x) \in S
          PROVE  m \in S
      <4>1. Leftover(left) \in S
        BY <1>5, <3>2
      <4> QED
        BY <2>3, <3>2, <4>1 DEF Reaches
    <3> QED
      BY <3>1, <3>2 DEF Reaches
  <2> QED
    BY <1>2, <2>2, <2>3
<1> QED
  BY <1>2, <1>3, <1>4, <1>5

\* The merging of every set of faces is defined, also of those that no slice has: it is
\* what is taken on the way.
LEMMA GreedyDefined == Merges(Greedy)
<1> DEFINE G == [left \in Faces |-> {Quad(m) : m \in Reaches(left) \ {{}}}]
<1>1. ASSUME NEW left \in Faces
      PROVE  G[left] = IF left = {} THEN {} ELSE {Quad(left)} \cup G[Leftover(left)]
  <2>1. Leftover(left) \in Faces
    BY DEF Leftover, Faces
  <2>2. CASE left = {}
    BY <2>2, ReachesFacts
  <2>3. CASE left # {}
    <3>1. Reaches(left) \ {{}} = {left} \cup (Reaches(Leftover(left)) \ {{}})
      BY <2>3, ReachesFacts
    <3>2. G[left] = {Quad(m) : m \in Reaches(left) \ {{}}}
      OBVIOUS
    <3>3. G[Leftover(left)] = {Quad(m) : m \in Reaches(Leftover(left)) \ {{}}}
      BY <2>1
    <3> HIDE DEF G
    <3>4. {Quad(m) : m \in Reaches(left) \ {{}}}
            = {Quad(left)} \cup {Quad(m) : m \in Reaches(Leftover(left)) \ {{}}}
      BY <3>1
    <3> QED
      BY <2>3, <3>2, <3>3, <3>4
  <2> QED
    BY <2>2, <2>3
<1>2. G = [left \in Faces |-> G[left]]
  OBVIOUS
<1> DEFINE T == [left \in Faces |-> IF left = {} THEN {} ELSE {Quad(left)} \cup G[Leftover(left)]]
<1>3. G = T
  <2>1. \A left \in Faces : G[left] = T[left]
    BY <1>1
  <2>2. T = [left \in Faces |-> T[left]]
    OBVIOUS
  <2> HIDE DEF G, T
  <2> QED
    BY <1>2, <2>1, <2>2
<1> HIDE DEF G
<1>4. Merges(G)
  BY <1>3 DEF Merges
<1> QED
  BY <1>4, GreedyIs

\* Quads that tile a set of faces: each on a patch of it, every face under one of them
\* and none under two.
IsQuad(q) == /\ q = <<q[1], q[2], q[3], q[4], q[5]>>
             /\ q[1] \in Local /\ q[2] \in Local
             /\ q[3] \in 1..Edge /\ q[4] \in 1..Edge /\ q[5] \in Ids
             /\ q[5] \in TintProperty => q[3] = 1 /\ q[4] = 1
Tiles(quads, left) == /\ \A q \in quads : IsQuad(q) /\ PatchOf(q) \subseteq left
                      /\ \A f \in left : \E q \in quads : f \in PatchOf(q)
                      /\ \A q, r \in quads : q # r => PatchOf(q) \cap PatchOf(r) = {}

\* The first quad of a slice.
LEMMA QuadIs ==
  ASSUME NEW left, Slice(left), left # {}
  PROVE  /\ IsQuad(Quad(left)) /\ PatchOf(Quad(left)) \subseteq left
         /\ First(left) \in PatchOf(Quad(left))
         /\ Leftover(left) = left \ PatchOf(Quad(left))
         /\ Slice(Leftover(left))
<1>1. PICK p, size : p = First(left) /\ size = Size(left)
  OBVIOUS
<1>2. p \in left
  BY <1>1, FirstIs
<1>3. size = Extent(left, p[1], p[2], p[3])
  BY <1>1 DEF Size
<1>4. /\ size[1] \in 1..Edge /\ size[2] \in 1..Edge
      /\ Patch(p[1], p[2], size[1], size[2], p[3]) \subseteq left
      /\ p \in Patch(p[1], p[2], size[1], size[2], p[3])
      /\ p[3] \in TintProperty => size[1] = 1 /\ size[2] = 1
  BY <1>2, <1>3, ExtentIs
<1>5. PICK q : q = Quad(left)
  OBVIOUS
<1>6. q = <<p[1], p[2], size[1], size[2], p[3]>>
  BY <1>1, <1>5 DEF Quad
<1>7. q[1] = p[1] /\ q[2] = p[2] /\ q[3] = size[1] /\ q[4] = size[2] /\ q[5] = p[3]
  BY <1>6
<1>8. p[1] \in Local /\ p[2] \in Local /\ p[3] \in Ids
  BY <1>2 DEF Slice
<1>9. IsQuad(q)
  BY <1>4, <1>6, <1>7, <1>8 DEF IsQuad
<1>10. PatchOf(q) = Patch(p[1], p[2], size[1], size[2], p[3])
  BY <1>7 DEF PatchOf
<1>11. Leftover(left) = left \ PatchOf(q)
  BY <1>1, <1>10 DEF Leftover
<1>12. Slice(Leftover(left))
  BY <1>11 DEF Slice
<1> QED
  BY <1>1, <1>4, <1>5, <1>9, <1>10, <1>11, <1>12

\* The first quad and a tiling of the rest are a tiling.
LEMMA TilesStep ==
  ASSUME NEW left, Slice(left), left # {}, Tiles(Greedy[Leftover(left)], Leftover(left))
  PROVE  Tiles(Greedy[left], left)
<1>1. left \in Faces
  BY DEF Slice, Faces
<1>2. Greedy[left] = {Quad(left)} \cup Greedy[Leftover(left)]
  BY <1>1, GreedyDefined DEF Merges
<1>3. PICK q, rest : q = Quad(left) /\ rest = Greedy[Leftover(left)]
  OBVIOUS
<1>4. IsQuad(q) /\ PatchOf(q) \subseteq left /\ Leftover(left) = left \ PatchOf(q)
  BY <1>3, QuadIs
<1>5. Greedy[left] = {q} \cup rest /\ Tiles(rest, left \ PatchOf(q))
  BY <1>2, <1>3, <1>4
<1>6. \A r \in {q} \cup rest : IsQuad(r) /\ PatchOf(r) \subseteq left
  BY <1>4, <1>5 DEF Tiles
<1>7. \A f \in left : \E r \in {q} \cup rest : f \in PatchOf(r)
  BY <1>5 DEF Tiles
<1>8. \A r \in rest : PatchOf(q) \cap PatchOf(r) = {}
  BY <1>5 DEF Tiles
<1>9. \A r, t \in {q} \cup rest : r # t => PatchOf(r) \cap PatchOf(t) = {}
  BY <1>5, <1>8 DEF Tiles
<1> QED
  BY <1>5, <1>6, <1>7, <1>9 DEF Tiles

\* Greedy merging covers the visible faces of a slice, each exactly once, and does not
\* merge faces with a look of their own.
THEOREM GreedyTiles ==
  ASSUME NEW left, Slice(left)
  PROVE  Tiles(Greedy[left], left)
<1> DEFINE Bad == {s \in Faces : Slice(s) /\ ~Tiles(Greedy[s], s)}
           Rank(s) == Edge * Edge - Place(First(s))
<1>1. ASSUME NEW s \in Bad
      PROVE  s # {} /\ Leftover(s) \in Bad /\ Rank(s) \in Nat /\ Rank(Leftover(s)) < Rank(s)
  <2>1. s # {}
    <3>1. ASSUME s = {} PROVE FALSE
      <4>1. Greedy[s] = {}
        BY <3>1, GreedyDefined DEF Merges
      <4>2. Tiles(Greedy[s], s)
        BY <3>1, <4>1 DEF Tiles
      <4> QED
        BY <4>2
    <3> QED
      BY <3>1
  <2>2. ~Tiles(Greedy[Leftover(s)], Leftover(s))
    BY <2>1, TilesStep
  <2>3. Slice(Leftover(s)) /\ Leftover(s) \subseteq s \ {First(s)}
    BY <2>1, QuadIs
  <2>4. Leftover(s) # {}
    <3>1. ASSUME Leftover(s) = {} PROVE FALSE
      <4>1. Greedy[Leftover(s)] = {}
        BY <3>1, GreedyDefined DEF Merges, Faces
      <4>2. Tiles(Greedy[Leftover(s)], Leftover(s))
        BY <3>1, <4>1 DEF Tiles
      <4> QED
        BY <2>2, <4>2
    <3> QED
      BY <3>1
  <2>5. First(Leftover(s)) \in Leftover(s) /\ First(s) \in s
    BY <2>1, <2>3, <2>4, FirstIs
  <2>6. Place(First(s)) < Place(First(Leftover(s)))
    BY <2>1, <2>3, <2>5, FirstIs
  <2>7. First(s) \in Local \X Local \X Ids /\ First(Leftover(s)) \in Local \X Local \X Ids
    BY <2>3, <2>5 DEF Faces
  <2>8. Place(First(s)) \in 0..(Edge * Edge - 1) /\ Place(First(Leftover(s))) \in 0..(Edge * Edge - 1)
    BY <2>7, PlaceOrder
  <2>9. Edge * Edge \in Nat
    BY EdgeFacts
  <2>10. Rank(s) \in Nat /\ Rank(Leftover(s)) < Rank(s)
    BY <2>6, <2>8, <2>9
  <2> QED
    BY <2>1, <2>2, <2>3, <2>10 DEF Faces
<1> HIDE DEF Bad, Rank
<1>2. Bad = {}
  <2> SUFFICES ASSUME Bad # {} PROVE FALSE
    OBVIOUS
  <2> DEFINE T == {Rank(s) : s \in Bad}
  <2>1. T \subseteq Nat /\ T # {}
    BY <1>1
  <2>2. PICK n \in T : \A k \in T : n <= k
    BY <2>1, LeastNumber
  <2>3. PICK s \in Bad : n = Rank(s)
    BY <2>2
  <2>4. Rank(Leftover(s)) \in T /\ Rank(Leftover(s)) < n
    BY <1>1, <2>3
  <2>5. n <= Rank(Leftover(s)) /\ n \in Nat /\ Rank(Leftover(s)) \in Nat
    BY <2>1, <2>2, <2>4
  <2> QED
    BY <2>4, <2>5
<1> QED
  BY <1>2 DEF Bad, Slice, Faces

-----------------------------------------------------------------------------
(* Cells of a chunk.                                                       *)

LEMMA DivUnique ==
  ASSUME NEW r \in Nat \ {0}, NEW q \in Int, NEW m \in 0..(r - 1)
  PROVE  (q * r + m) \div r = q /\ (q * r + m) % r = m
  OBVIOUS

LEMMA DivMod ==
  ASSUME NEW c \in Int, NEW r \in Nat \ {0}
  PROVE  c \div r \in Int /\ c % r \in 0..(r - 1) /\ c = (c \div r) * r + (c % r)
  OBVIOUS

\* A cell of a chunk by its place in the chunk.
CellIn(c, x, y, z) == <<c * Edge + x, y, z>>

LEMMA CellInChunk ==
  ASSUME NEW c \in Chunks, NEW x \in Local, NEW y \in Local, NEW z \in Local
  PROVE  CellIn(c, x, y, z) \in CellsOf(c)
<1>1. PICK e, n : e = Edge /\ n = NChunks
  OBVIOUS
<1>2. e \in Nat \ {0} /\ n \in Nat \ {0} /\ c \in 0..(n - 1) /\ x \in 0..(e - 1)
  BY <1>1, EdgeFacts DEF Chunks, Local
<1>3. c * e + e <= n * e /\ c * e \in Int /\ n * e \in Int
  <2>1. c < n /\ c \in Int /\ n \in Int
    BY <1>2
  <2> QED
    BY <1>2, <2>1, MulLess
<1>4. c * e >= 0
  BY <1>2
<1>5. c * e + x \in 0..(n * e - 1)
  BY <1>2, <1>3, <1>4
<1>6. (c * e + x) \div e = c
  BY <1>2, DivUnique
<1> QED
  BY <1>1, <1>5, <1>6 DEF CellIn, CellsOf, Cells, ChunkOf

LEMMA CellHasPlace ==
  ASSUME NEW c \in Chunks, NEW cell \in CellsOf(c)
  PROVE  \E x, y, z \in Local : cell = CellIn(c, x, y, z)
<1>1. /\ cell \in (0..(NChunks * Edge - 1)) \X Local \X Local
      /\ cell[1] \div Edge = c
  BY DEF CellsOf, Cells, ChunkOf
<1>2. cell = <<cell[1], cell[2], cell[3]>> /\ cell[1] \in Int
  BY <1>1
<1>3. cell[1] = c * Edge + (cell[1] % Edge) /\ cell[1] % Edge \in Local
  BY <1>1, <1>2, DivMod, EdgeFacts DEF Local
<1>4. cell[2] \in Local /\ cell[3] \in Local
  BY <1>1
<1> QED
  BY <1>2, <1>3, <1>4 DEF CellIn

LEMMA CellInOnce ==
  ASSUME NEW c \in Chunks, NEW x \in Local, NEW y \in Local, NEW z \in Local,
         NEW i \in Local, NEW j \in Local, NEW k \in Local,
         CellIn(c, x, y, z) = CellIn(c, i, j, k)
  PROVE  x = i /\ y = j /\ z = k
<1>1. c * Edge + x = c * Edge + i /\ y = j /\ z = k
  BY DEF CellIn
<1>2. c * Edge \in Int /\ x \in Int /\ i \in Int
  BY EdgeFacts DEF Chunks, Local
<1> QED
  BY <1>1, <1>2

\* A cell by its depth and its place in the slice, for each axis.
LEMMA CellAtIs ==
  ASSUME NEW c, NEW d \in Directions, NEW s, NEW u, NEW v
  PROVE  \/ d.axis = 1 /\ CellAt(c, d, s, u, v) = CellIn(c, s, u, v)
         \/ d.axis = 2 /\ CellAt(c, d, s, u, v) = CellIn(c, u, s, v)
         \/ d.axis = 3 /\ CellAt(c, d, s, u, v) = CellIn(c, u, v, s)
<1>1. d.axis \in 1..3
  BY DEF Directions
<1>2. CASE d.axis = 1
  BY <1>2 DEF CellAt, CellIn, UAxis
<1>3. CASE d.axis = 2
  BY <1>3 DEF CellAt, CellIn, UAxis
<1>4. CASE d.axis = 3
  BY <1>4 DEF CellAt, CellIn, UAxis
<1> QED
  BY <1>1, <1>2, <1>3, <1>4

\* Every slice direction goes over the cells of the chunk, each once.
LEMMA SlicesCover ==
  ASSUME NEW c \in Chunks, NEW d \in Directions
  PROVE  /\ \A s, u, v \in Local : CellAt(c, d, s, u, v) \in CellsOf(c)
         /\ \A cell \in CellsOf(c) : \E s, u, v \in Local : cell = CellAt(c, d, s, u, v)
<1>1. ASSUME NEW s \in Local, NEW u \in Local, NEW v \in Local
      PROVE  CellAt(c, d, s, u, v) \in CellsOf(c)
  BY CellAtIs, CellInChunk
<1>2. ASSUME NEW cell \in CellsOf(c)
      PROVE  \E s, u, v \in Local : cell = CellAt(c, d, s, u, v)
  <2>1. PICK x, y, z \in Local : cell = CellIn(c, x, y, z)
    BY CellHasPlace
  <2>2. d.axis \in 1..3
    BY DEF Directions
  <2>3. CASE d.axis = 1
    <3>1. cell = CellAt(c, d, x, y, z)
      BY <2>1, <2>3, CellAtIs
    <3> QED
      BY <3>1
  <2>4. CASE d.axis = 2
    <3>1. cell = CellAt(c, d, y, x, z)
      BY <2>1, <2>4, CellAtIs
    <3> QED
      BY <3>1
  <2>5. CASE d.axis = 3
    <3>1. cell = CellAt(c, d, z, x, y)
      BY <2>1, <2>5, CellAtIs
    <3> QED
      BY <3>1
  <2> QED
    BY <2>2, <2>3, <2>4, <2>5
<1> QED
  BY <1>1, <1>2

\* No two places of a direction are one cell.
LEMMA SlicesOnce ==
  ASSUME NEW c \in Chunks, NEW d \in Directions,
         NEW s \in Local, NEW u \in Local, NEW v \in Local,
         NEW i \in Local, NEW j \in Local, NEW k \in Local,
         CellAt(c, d, s, u, v) = CellAt(c, d, i, j, k)
  PROVE  s = i /\ u = j /\ v = k
<1>1. CASE d.axis = 1
  <2>1. CellIn(c, s, u, v) = CellIn(c, i, j, k)
    BY <1>1, CellAtIs
  <2> QED
    BY <2>1, CellInOnce
<1>2. CASE d.axis = 2
  <2>1. CellIn(c, u, s, v) = CellIn(c, j, i, k)
    BY <1>2, CellAtIs
  <2> QED
    BY <2>1, CellInOnce
<1>3. CASE d.axis = 3
  <2>1. CellIn(c, u, v, s) = CellIn(c, j, k, i)
    BY <1>3, CellAtIs
  <2> QED
    BY <2>1, CellInOnce
<1> QED
  BY <1>1, <1>2, <1>3 DEF Directions
-----------------------------------------------------------------------------
(* A mesh.                                                                 *)

Visible(cell, d) == /\ block[cell] \notin Cross \cup {Air}
                    /\ FaceVisible(block[cell], BlockAt(Across(cell, d)))

\* The mask of a slice is the visible faces of its cells.
LEMMA MaskIs ==
  ASSUME NEW c \in Chunks, NEW d \in Directions, NEW s \in Local, block \in [Cells -> Ids]
  PROVE  /\ Slice(Mask(c, d, s))
         /\ \A f \in Mask(c, d, s) : LET cell == CellAt(c, d, s, f[1], f[2])
                                     IN f[3] = block[cell] /\ Visible(cell, d)
         /\ \A u, v \in Local : Visible(CellAt(c, d, s, u, v), d) =>
              <<u, v, block[CellAt(c, d, s, u, v)]>> \in Mask(c, d, s)
<1>1. ASSUME NEW f \in Mask(c, d, s)
      PROVE  LET cell == CellAt(c, d, s, f[1], f[2])
             IN /\ f = <<f[1], f[2], f[3]>> /\ f[1] \in Local /\ f[2] \in Local
                /\ f[3] = block[cell] /\ Visible(cell, d) /\ f[3] \in Ids
  <2>1. PICK p \in Local \X Local :
           /\ f = <<p[1], p[2], block[CellAt(c, d, s, p[1], p[2])]>>
           /\ Visible(CellAt(c, d, s, p[1], p[2]), d)
    BY DEF Mask, Visible
  <2>2. f[1] = p[1] /\ f[2] = p[2] /\ f[3] = block[CellAt(c, d, s, p[1], p[2])]
    BY <2>1
  <2>3. p[1] \in Local /\ p[2] \in Local
    BY <2>1
  <2>4. CellAt(c, d, s, p[1], p[2]) \in Cells
    BY <2>3, SlicesCover DEF CellsOf
  <2>5. block[CellAt(c, d, s, p[1], p[2])] \in Ids
    BY <2>4
  <2> QED
    BY <2>1, <2>2, <2>3, <2>5
<1>2. Slice(Mask(c, d, s))
  <2>1. Mask(c, d, s) \subseteq Local \X Local \X Ids
    BY <1>1
  <2>2. \A f, g \in Mask(c, d, s) : f[1] = g[1] /\ f[2] = g[2] => f = g
    BY <1>1
  <2> QED
    BY <2>1, <2>2 DEF Slice
<1>3. ASSUME NEW u \in Local, NEW v \in Local, Visible(CellAt(c, d, s, u, v), d)
      PROVE  <<u, v, block[CellAt(c, d, s, u, v)]>> \in Mask(c, d, s)
  <2> DEFINE p == <<u, v>>
  <2>1. p \in Local \X Local /\ p[1] = u /\ p[2] = v
    OBVIOUS
  <2> HIDE DEF p
  <2>2. Visible(CellAt(c, d, s, p[1], p[2]), d)
    BY <1>3, <2>1
  <2>3. <<p[1], p[2], block[CellAt(c, d, s, p[1], p[2])]>> \in Mask(c, d, s)
    BY <2>1, <2>2 DEF Mask, Visible
  <2> QED
    BY <2>1, <2>3
<1> QED
  BY <1>1, <1>2, <1>3

\* The quad that emitQuad makes of a tile of a slice.
QuadOf(c, d, s, t) ==
  [id |-> t[5], dir |-> d, depth |-> s, rect |-> <<t[1], t[2], t[3], t[4]>>,
   owner |-> CellAt(c, d, s, t[1], t[2])]

\* The section of a quad, and the faces that it covers when its node is in place.
Section(q) == [quad |-> q, tint |-> tints[q.owner]]
FacesAt(c, section) ==
  LET q == section.quad IN
  IF q.dir = CrossDirection THEN {<<q.owner, q.dir, q.id, section.tint>>}
  ELSE {<<CellAt(c, q.dir, q.depth, p[1], p[2]), q.dir, q.id, section.tint>> :
          p \in Rectangle(q.rect[1], q.rect[2], q.rect[3], q.rect[4])}

\* The tints of a chunk are those that its blocks may show.
Tinted(c) == \A cell \in CellsOf(c) : tints[cell] \in ShownTints(cell)

\* A face of the world.
Face(cell, d) == <<cell, d, block[cell], tints[cell]>>

LEMMA NoCross ==
  ASSUME NEW d \in Directions
  PROVE  d # CrossDirection
  BY DEF Directions, CrossDirection

\* The places of a tile.
LEMMA InPatchOf ==
  ASSUME NEW t, NEW i, NEW j
  PROVE  <<i, j, t[5]>> \in PatchOf(t) <=>
           i \in t[1]..(t[1] + t[3] - 1) /\ j \in t[2]..(t[2] + t[4] - 1)
<1> DEFINE I == t[1]..(t[1] + t[3] - 1)
           J == t[2]..(t[2] + t[4] - 1)
<1>1. PatchOf(t) = {<<p[1], p[2], t[5]>> : p \in I \X J}
  BY DEF PatchOf, Patch, Rectangle
<1> HIDE DEF I, J
<1>2. ASSUME <<i, j, t[5]>> \in PatchOf(t) PROVE i \in I /\ j \in J
  <2>1. PICK p \in I \X J : <<i, j, t[5]>> = <<p[1], p[2], t[5]>>
    BY <1>1, <1>2
  <2> QED
    BY <2>1
<1>3. ASSUME i \in I, j \in J PROVE <<i, j, t[5]>> \in PatchOf(t)
  <2> DEFINE p == <<i, j>>
  <2>1. p \in I \X J /\ p[1] = i /\ p[2] = j
    BY <1>3
  <2> HIDE DEF p
  <2>2. <<p[1], p[2], t[5]>> \in PatchOf(t)
    BY <1>1, <2>1
  <2> QED
    BY <2>1, <2>2
<1> QED
  BY <1>2, <1>3 DEF I, J

\* A tile of a slice covers faces of the world: of its block, and in the tint that each
\* has, though only the corner is asked for it.
LEMMA TileFaces ==
  ASSUME NEW c \in Chunks, NEW d \in Directions, NEW s \in Local, block \in [Cells -> Ids],
         Tinted(c), NEW t \in Greedy[Mask(c, d, s)], NEW q, q = QuadOf(c, d, s, t)
  PROVE  /\ IsQuad(t)
         /\ q.owner \in CellsOf(c) /\ q.id = block[q.owner] /\ Visible(q.owner, d)
         /\ \A i, j \in Local : <<i, j, t[5]>> \in PatchOf(t) =>
              LET cell == CellAt(c, d, s, i, j)
              IN /\ Face(cell, d) \in FacesAt(c, Section(q))
                 /\ Visible(cell, d)
         /\ \A f \in FacesAt(c, Section(q)) :
              \E i, j \in Local : /\ <<i, j, t[5]>> \in PatchOf(t)
                                  /\ f = Face(CellAt(c, d, s, i, j), d)
                                  /\ Visible(CellAt(c, d, s, i, j), d)
<1>1. Tiles(Greedy[Mask(c, d, s)], Mask(c, d, s))
  BY MaskIs, GreedyTiles
<1>2. IsQuad(t) /\ PatchOf(t) \subseteq Mask(c, d, s)
  BY <1>1 DEF Tiles
<1>3. /\ t[1] \in Local /\ t[2] \in Local /\ t[3] \in Nat \ {0} /\ t[4] \in Nat \ {0}
      /\ t[5] \in TintProperty => t[3] = 1 /\ t[4] = 1
  BY <1>2, EdgeFacts DEF IsQuad
<1>5. <<t[1], t[2], t[5]>> \in PatchOf(t)
  BY <1>3, PatchIs DEF PatchOf
<1>6. ASSUME NEW i, NEW j, <<i, j, t[5]>> \in PatchOf(t)
      PROVE  /\ i \in Local /\ j \in Local
             /\ t[5] = block[CellAt(c, d, s, i, j)] /\ Visible(CellAt(c, d, s, i, j), d)
  <2>1. <<i, j, t[5]>> \in Mask(c, d, s)
    BY <1>2, <1>6
  <2>2. <<i, j, t[5]>> \in Local \X Local \X Ids
    BY <2>1, MaskIs DEF Slice
  <2>3. <<i, j, t[5]>>[1] = i /\ <<i, j, t[5]>>[2] = j /\ <<i, j, t[5]>>[3] = t[5]
    OBVIOUS
  <2> QED
    BY <2>1, <2>2, <2>3, MaskIs
<1>7. /\ q.id = t[5] /\ q.dir = d /\ q.depth = s /\ q.owner = CellAt(c, d, s, t[1], t[2])
      /\ q.rect[1] = t[1] /\ q.rect[2] = t[2] /\ q.rect[3] = t[3] /\ q.rect[4] = t[4]
  BY DEF QuadOf
<1>8. q.owner \in CellsOf(c) /\ q.id = block[q.owner] /\ Visible(q.owner, d)
  <2>1. t[5] = block[CellAt(c, d, s, t[1], t[2])] /\ Visible(CellAt(c, d, s, t[1], t[2]), d)
    BY <1>5, <1>6
  <2>2. CellAt(c, d, s, t[1], t[2]) \in CellsOf(c)
    BY <1>3, SlicesCover
  <2> QED
    BY <1>7, <2>1, <2>2
<1>9. ASSUME NEW i, NEW j, <<i, j, t[5]>> \in PatchOf(t)
      PROVE  tints[CellAt(c, d, s, i, j)] = tints[q.owner]
  <2>1. i \in Local /\ j \in Local /\ t[5] = block[CellAt(c, d, s, i, j)]
    BY <1>6, <1>9
  <2>2. ASSUME NEW cell \in CellsOf(c), block[cell] \notin TintProperty
        PROVE  tints[cell] = None
    <3>1. WorldTint(cell) = None
      BY <2>2 DEF WorldTint
    <3> QED
      BY <3>1 DEF Tinted, ShownTints
  <2>3. CASE t[5] \in TintProperty
    <3>1. \A a, b : <<a, b, t[5]>> \in {<<t[1], t[2], t[5]>>} => a = t[1] /\ b = t[2]
      OBVIOUS
    <3>2. PatchOf(t) = {<<t[1], t[2], t[5]>>}
      BY <1>3, <2>3, PatchIs DEF PatchOf
    <3>3. i = t[1] /\ j = t[2]
      BY <1>9, <3>1, <3>2
    <3> QED
      BY <1>7, <3>3
  <2>4. CASE t[5] \notin TintProperty
    <3>1. CellAt(c, d, s, i, j) \in CellsOf(c)
      BY <2>1, SlicesCover
    <3> QED
      BY <1>7, <1>8, <2>1, <2>2, <2>4, <3>1
  <2> QED
    BY <2>3, <2>4
<1>10. FacesAt(c, Section(q)) =
         {<<CellAt(c, d, s, p[1], p[2]), d, t[5], tints[q.owner]>> :
            p \in Rectangle(t[1], t[2], t[3], t[4])}
  <2>1. Section(q).quad = q /\ Section(q).tint = tints[q.owner]
    BY DEF Section
  <2> QED
    BY <1>7, <2>1, NoCross DEF FacesAt
<1>11. ASSUME NEW i \in Local, NEW j \in Local, <<i, j, t[5]>> \in PatchOf(t)
       PROVE  LET cell == CellAt(c, d, s, i, j)
              IN Face(cell, d) \in FacesAt(c, Section(q)) /\ Visible(cell, d)
  <2>1. /\ t[5] = block[CellAt(c, d, s, i, j)] /\ Visible(CellAt(c, d, s, i, j), d)
        /\ tints[CellAt(c, d, s, i, j)] = tints[q.owner]
    BY <1>6, <1>9, <1>11
  <2>2. i \in t[1]..(t[1] + t[3] - 1) /\ j \in t[2]..(t[2] + t[4] - 1)
    BY <1>11, InPatchOf
  <2> DEFINE p == <<i, j>>
  <2>3. p \in Rectangle(t[1], t[2], t[3], t[4]) /\ p[1] = i /\ p[2] = j
    BY <2>2 DEF Rectangle
  <2> HIDE DEF p
  <2>4. <<CellAt(c, d, s, i, j), d, t[5], tints[q.owner]>> \in FacesAt(c, Section(q))
    BY <1>10, <2>3
  <2> QED
    BY <2>1, <2>4 DEF Face
<1>12. ASSUME NEW f \in FacesAt(c, Section(q))
       PROVE  \E i, j \in Local : /\ <<i, j, t[5]>> \in PatchOf(t)
                                  /\ f = Face(CellAt(c, d, s, i, j), d)
                                  /\ Visible(CellAt(c, d, s, i, j), d)
  <2>1. PICK p \in Rectangle(t[1], t[2], t[3], t[4]) :
           f = <<CellAt(c, d, s, p[1], p[2]), d, t[5], tints[q.owner]>>
    BY <1>10
  <2>2. p[1] \in t[1]..(t[1] + t[3] - 1) /\ p[2] \in t[2]..(t[2] + t[4] - 1)
    BY DEF Rectangle
  <2>3. <<p[1], p[2], t[5]>> \in PatchOf(t)
    BY <2>2, InPatchOf
  <2>4. /\ p[1] \in Local /\ p[2] \in Local /\ t[5] = block[CellAt(c, d, s, p[1], p[2])]
        /\ Visible(CellAt(c, d, s, p[1], p[2]), d)
        /\ tints[CellAt(c, d, s, p[1], p[2])] = tints[q.owner]
    BY <1>6, <1>9, <2>3
  <2>5. f = Face(CellAt(c, d, s, p[1], p[2]), d)
    BY <2>1, <2>4 DEF Face
  <2> QED
    BY <2>3, <2>4, <2>5
<1> QED
  BY <1>2, <1>8, <1>11, <1>12

\* The quads of a mesh.
LEMMA MeshQuad ==
  ASSUME NEW c, NEW q
  PROVE  q \in Mesh(c) <=>
           \/ \E cell \in CellsOf(c) : /\ block[cell] \in Cross
                                       /\ q = [id |-> block[cell], dir |-> CrossDirection, depth |-> 0,
                                               rect |-> <<0, 0, 1, 1>>, owner |-> cell]
           \/ \E d \in Directions, s \in Local : \E t \in Greedy[Mask(c, d, s)] : q = QuadOf(c, d, s, t)
<1>1. q \in CrossQuads(c) <=>
        \E cell \in CellsOf(c) : /\ block[cell] \in Cross
                                 /\ q = [id |-> block[cell], dir |-> CrossDirection, depth |-> 0,
                                         rect |-> <<0, 0, 1, 1>>, owner |-> cell]
  BY DEF CrossQuads
<1>2. ASSUME NEW d, NEW s
      PROVE  q \in SliceQuads(c, d, s) <=> \E t \in Greedy[Mask(c, d, s)] : q = QuadOf(c, d, s, t)
  BY DEF SliceQuads, QuadOf
<1>3. q \in UNION {SliceQuads(c, d, s) : d \in Directions, s \in Local} <=>
        \E d \in Directions, s \in Local : q \in SliceQuads(c, d, s)
  OBVIOUS
<1> QED
  BY <1>1, <1>2, <1>3 DEF Mesh

\* A face of the world belongs to a block, and looks into a direction if the block is
\* not a cross.
LEMMA WorldFace ==
  ASSUME NEW c, NEW f
  PROVE  f \in WorldFaces(c) <=>
           \/ \E cell \in CellsOf(c) : block[cell] \in Cross /\ f = Face(cell, CrossDirection)
           \/ \E cell \in CellsOf(c), d \in Directions : Visible(cell, d) /\ f = Face(cell, d)
<1> DEFINE Faced(x) == /\ block[x[1]] \notin Cross \cup {Air}
                       /\ FaceVisible(block[x[1]], BlockAt(Across(x[1], x[2])))
           A == {<<x[1], x[2], block[x[1]], tints[x[1]]>> :
                   x \in {y \in CellsOf(c) \X Directions : Faced(y)}}
           B == {<<cell, CrossDirection, block[cell], tints[cell]>> :
                   cell \in {x \in CellsOf(c) : block[x] \in Cross}}
<1>1. WorldFaces(c) = A \cup B
  BY DEF WorldFaces
<1>2. f \in B <=> \E cell \in CellsOf(c) : block[cell] \in Cross /\ f = Face(cell, CrossDirection)
  BY DEF Face
<1>3. ASSUME f \in A
      PROVE  \E cell \in CellsOf(c), d \in Directions : Visible(cell, d) /\ f = Face(cell, d)
  <2>1. PICK x \in CellsOf(c) \X Directions :
           Faced(x) /\ f = <<x[1], x[2], block[x[1]], tints[x[1]]>>
    BY <1>3
  <2>2. x[1] \in CellsOf(c) /\ x[2] \in Directions
    BY <2>1
  <2>3. Visible(x[1], x[2]) /\ f = Face(x[1], x[2])
    BY <2>1 DEF Visible, Face
  <2> QED
    BY <2>2, <2>3
<1>4. ASSUME NEW cell \in CellsOf(c), NEW d \in Directions, Visible(cell, d), f = Face(cell, d)
      PROVE  f \in A
  <2> DEFINE x == <<cell, d>>
  <2>1. x \in CellsOf(c) \X Directions /\ x[1] = cell /\ x[2] = d
    OBVIOUS
  <2> HIDE DEF x
  <2>2. Faced(x) /\ f = <<x[1], x[2], block[x[1]], tints[x[1]]>>
    BY <1>4, <2>1 DEF Visible, Face
  <2> QED
    BY <2>1, <2>2
<1> HIDE DEF A, B
<1> QED
  BY <1>1, <1>2, <1>3, <1>4

\* What a quad of a crossed block covers.
LEMMA CrossFaces ==
  ASSUME NEW c, NEW cell, NEW q,
         q = [id |-> block[cell], dir |-> CrossDirection, depth |-> 0,
              rect |-> <<0, 0, 1, 1>>, owner |-> cell]
  PROVE  /\ q.owner = cell /\ q.id = block[cell] /\ q.dir = CrossDirection
         /\ FacesAt(c, Section(q)) = {Face(cell, CrossDirection)}
<1>1. q.owner = cell /\ q.id = block[cell] /\ q.dir = CrossDirection
  OBVIOUS
<1>2. Section(q).quad = q /\ Section(q).tint = tints[cell]
  BY <1>1 DEF Section
<1>3. FacesAt(c, Section(q)) = {<<cell, CrossDirection, block[cell], tints[cell]>>}
  BY <1>1, <1>2 DEF FacesAt
<1> QED
  BY <1>1, <1>3 DEF Face

\* Every quad is of a block of the chunk.
LEMMA MeshTypes ==
  ASSUME NEW c \in Chunks, block \in [Cells -> Ids], Tinted(c), NEW q \in Mesh(c)
  PROVE  q.id \in Ids \ {Air} /\ q.owner \in CellsOf(c) /\ q.owner \in Cells
<1>1. CellsOf(c) \subseteq Cells
  BY DEF CellsOf
<1>2. ASSUME NEW cell \in CellsOf(c), block[cell] \in Cross,
             q = [id |-> block[cell], dir |-> CrossDirection, depth |-> 0,
                  rect |-> <<0, 0, 1, 1>>, owner |-> cell]
      PROVE  q.id \in Ids \ {Air} /\ q.owner \in CellsOf(c)
  <2>1. q.owner = cell /\ q.id = block[cell]
    BY <1>2, CrossFaces
  <2>2. Cross \subseteq Ids \ {Air}
    BY RenderingAssumption
  <2> QED
    BY <1>2, <2>1, <2>2
<1>3. ASSUME NEW d \in Directions, NEW s \in Local, NEW t \in Greedy[Mask(c, d, s)],
             q = QuadOf(c, d, s, t)
      PROVE  q.id \in Ids \ {Air} /\ q.owner \in CellsOf(c)
  <2>1. q.owner \in CellsOf(c) /\ q.id = block[q.owner] /\ Visible(q.owner, d)
    BY <1>3, TileFaces
  <2>2. block[q.owner] \in Ids
    BY <1>1, <2>1
  <2> QED
    BY <2>1, <2>2 DEF Visible
<1> QED
  BY <1>1, <1>2, <1>3, MeshQuad

\* A mesh draws every face of its chunk, and nothing else.
LEMMA MeshCovers ==
  ASSUME NEW c \in Chunks, block \in [Cells -> Ids], Tinted(c)
  PROVE  UNION {FacesAt(c, Section(q)) : q \in Mesh(c)} = WorldFaces(c)
<1>1. ASSUME NEW q \in Mesh(c), NEW f \in FacesAt(c, Section(q))
      PROVE  f \in WorldFaces(c)
  <2>1. ASSUME NEW cell \in CellsOf(c), block[cell] \in Cross,
               q = [id |-> block[cell], dir |-> CrossDirection, depth |-> 0,
                    rect |-> <<0, 0, 1, 1>>, owner |-> cell]
        PROVE  f \in WorldFaces(c)
    <3>2. f = Face(cell, CrossDirection)
      BY <1>1, <2>1, CrossFaces
    <3> QED
      BY <2>1, <3>2, WorldFace
  <2>2. ASSUME NEW d \in Directions, NEW s \in Local, NEW t \in Greedy[Mask(c, d, s)],
               q = QuadOf(c, d, s, t)
        PROVE  f \in WorldFaces(c)
    <3>0. \A g \in FacesAt(c, Section(q)) :
            \E i, j \in Local : /\ <<i, j, t[5]>> \in PatchOf(t)
                                /\ g = Face(CellAt(c, d, s, i, j), d)
                                /\ Visible(CellAt(c, d, s, i, j), d)
      BY <2>2, TileFaces
    <3>1. PICK i \in Local, j \in Local : /\ f = Face(CellAt(c, d, s, i, j), d)
                                          /\ Visible(CellAt(c, d, s, i, j), d)
      BY <1>1, <3>0
    <3>2. CellAt(c, d, s, i, j) \in CellsOf(c)
      BY SlicesCover
    <3> QED
      BY <3>1, <3>2, WorldFace
  <2> QED
    BY <1>1, <2>1, <2>2, MeshQuad
<1>2. ASSUME NEW f \in WorldFaces(c)
      PROVE  \E q \in Mesh(c) : f \in FacesAt(c, Section(q))
  <2>1. ASSUME NEW cell \in CellsOf(c), block[cell] \in Cross, f = Face(cell, CrossDirection)
        PROVE  \E q \in Mesh(c) : f \in FacesAt(c, Section(q))
    <3>1. PICK q : q = [id |-> block[cell], dir |-> CrossDirection, depth |-> 0,
                        rect |-> <<0, 0, 1, 1>>, owner |-> cell]
      OBVIOUS
    <3>2. q \in Mesh(c)
      BY <2>1, <3>1, MeshQuad
    <3>3. f \in FacesAt(c, Section(q))
      BY <2>1, <3>1, CrossFaces
    <3> QED
      BY <3>2, <3>3
  <2>2. ASSUME NEW cell \in CellsOf(c), NEW d \in Directions, Visible(cell, d), f = Face(cell, d)
        PROVE  \E q \in Mesh(c) : f \in FacesAt(c, Section(q))
    <3>1. PICK s \in Local, i \in Local, j \in Local : cell = CellAt(c, d, s, i, j)
      BY SlicesCover
    <3>2. PICK m : m = <<i, j, block[CellAt(c, d, s, i, j)]>>
      OBVIOUS
    <3>3. m \in Mask(c, d, s)
      BY <2>2, <3>1, <3>2, MaskIs
    <3>4. Tiles(Greedy[Mask(c, d, s)], Mask(c, d, s))
      BY MaskIs, GreedyTiles
    <3>5. PICK t \in Greedy[Mask(c, d, s)] : m \in PatchOf(t)
      BY <3>3, <3>4 DEF Tiles
    <3>6. m[1] = i /\ m[2] = j
      BY <3>2
    <3>7. PICK q : q = QuadOf(c, d, s, t)
      OBVIOUS
    <3>8. m = <<i, j, t[5]>>
      <4>1. PICK p \in Rectangle(t[1], t[2], t[3], t[4]) : m = <<p[1], p[2], t[5]>>
        BY <3>5 DEF PatchOf, Patch
      <4> QED
        BY <3>6, <4>1
    <3>9. f \in FacesAt(c, Section(q))
      BY <2>2, <3>1, <3>5, <3>7, <3>8, TileFaces
    <3>10. q \in Mesh(c)
      BY <3>7, MeshQuad
    <3> QED
      BY <3>9, <3>10
  <2> QED
    BY <1>2, <2>1, <2>2, WorldFace
<1> QED
  BY <1>1, <1>2

LEMMA FaceIs ==
  ASSUME NEW x, NEW d, NEW y, NEW e, Face(x, d) = Face(y, e)
  PROVE  x = y /\ d = e
  BY DEF Face

\* No face is drawn twice.
LEMMA MeshOnce ==
  ASSUME NEW c \in Chunks, block \in [Cells -> Ids], Tinted(c),
         NEW q \in Mesh(c), NEW r \in Mesh(c), NEW f,
         f \in FacesAt(c, Section(q)), f \in FacesAt(c, Section(r))
  PROVE  q = r
<1> DEFINE Crossed(m, cell) ==
             m = [id |-> block[cell], dir |-> CrossDirection, depth |-> 0,
                  rect |-> <<0, 0, 1, 1>>, owner |-> cell]
<1>1. ASSUME NEW m \in Mesh(c), f \in FacesAt(c, Section(m))
      PROVE  \/ \E cell \in CellsOf(c) : Crossed(m, cell) /\ f = Face(cell, CrossDirection)
             \/ \E d \in Directions, s \in Local : \E t \in Greedy[Mask(c, d, s)] :
                  /\ m = QuadOf(c, d, s, t)
                  /\ \E i, j \in Local : /\ <<i, j, t[5]>> \in PatchOf(t)
                                         /\ f = Face(CellAt(c, d, s, i, j), d)
  <2>1. ASSUME NEW cell \in CellsOf(c), block[cell] \in Cross, Crossed(m, cell)
        PROVE  f = Face(cell, CrossDirection)
    BY <1>1, <2>1, CrossFaces
  <2>2. ASSUME NEW d \in Directions, NEW s \in Local, NEW t \in Greedy[Mask(c, d, s)],
               m = QuadOf(c, d, s, t)
        PROVE  \E i, j \in Local : /\ <<i, j, t[5]>> \in PatchOf(t)
                                   /\ f = Face(CellAt(c, d, s, i, j), d)
    BY <1>1, <2>2, TileFaces
  <2> HIDE DEF Crossed
  <2>3. \/ \E cell \in CellsOf(c) : block[cell] \in Cross /\ Crossed(m, cell)
        \/ \E d \in Directions, s \in Local : \E t \in Greedy[Mask(c, d, s)] : m = QuadOf(c, d, s, t)
    BY MeshQuad DEF Crossed
  <2>4. CASE \E cell \in CellsOf(c) : block[cell] \in Cross /\ Crossed(m, cell)
    BY <2>1, <2>4
  <2>5. CASE \E d \in Directions, s \in Local : \E t \in Greedy[Mask(c, d, s)] : m = QuadOf(c, d, s, t)
    BY <2>2, <2>5
  <2> QED
    BY <2>3, <2>4, <2>5
<1> HIDE DEF Crossed
<1>2. CASE \E cell \in CellsOf(c) : Crossed(q, cell) /\ f = Face(cell, CrossDirection)
  <2>1. PICK x \in CellsOf(c) : Crossed(q, x) /\ f = Face(x, CrossDirection)
    BY <1>2
  <2>2. \A y, d : f = Face(y, d) => y = x /\ d = CrossDirection
    BY <2>1, FaceIs
  <2>3. PICK y \in CellsOf(c) : Crossed(r, y) /\ f = Face(y, CrossDirection)
    BY <1>1, <2>2, NoCross
  <2>4. Crossed(r, x)
    BY <2>2, <2>3
  <2> QED
    BY <2>1, <2>4 DEF Crossed
<1>3. CASE \E d \in Directions, s \in Local : \E t \in Greedy[Mask(c, d, s)] :
             /\ q = QuadOf(c, d, s, t)
             /\ \E i, j \in Local : /\ <<i, j, t[5]>> \in PatchOf(t)
                                    /\ f = Face(CellAt(c, d, s, i, j), d)
  <2>1. PICK d \in Directions, s \in Local : \E t \in Greedy[Mask(c, d, s)] :
             /\ q = QuadOf(c, d, s, t)
             /\ \E i, j \in Local : /\ <<i, j, t[5]>> \in PatchOf(t)
                                    /\ f = Face(CellAt(c, d, s, i, j), d)
    BY <1>3
  <2>2. PICK t \in Greedy[Mask(c, d, s)] :
             /\ q = QuadOf(c, d, s, t)
             /\ \E i, j \in Local : /\ <<i, j, t[5]>> \in PatchOf(t)
                                    /\ f = Face(CellAt(c, d, s, i, j), d)
    BY <2>1
  <2>3. PICK i \in Local, j \in Local : /\ <<i, j, t[5]>> \in PatchOf(t)
                                        /\ f = Face(CellAt(c, d, s, i, j), d)
    BY <2>2
  <2>4. ASSUME NEW y, NEW e, f = Face(y, e) PROVE y = CellAt(c, d, s, i, j) /\ e = d
    <3>1. PICK x : x = CellAt(c, d, s, i, j)
      OBVIOUS
    <3>2. Face(x, d) = Face(y, e)
      BY <2>3, <2>4, <3>1
    <3> QED
      BY <3>1, <3>2, FaceIs
  <2>5. ~ \E cell \in CellsOf(c) : Crossed(r, cell) /\ f = Face(cell, CrossDirection)
    BY <2>4, NoCross
  <2>6. \E e \in Directions, z \in Local : \E u \in Greedy[Mask(c, e, z)] :
           /\ r = QuadOf(c, e, z, u)
           /\ \E k, l \in Local : /\ <<k, l, u[5]>> \in PatchOf(u)
                                  /\ f = Face(CellAt(c, e, z, k, l), e)
    BY <1>1, <2>5
  <2>7. PICK e \in Directions, z \in Local : \E u \in Greedy[Mask(c, e, z)] :
           /\ r = QuadOf(c, e, z, u)
           /\ \E k, l \in Local : /\ <<k, l, u[5]>> \in PatchOf(u)
                                  /\ f = Face(CellAt(c, e, z, k, l), e)
    BY <2>6
  <2>8. PICK u \in Greedy[Mask(c, e, z)] :
           /\ r = QuadOf(c, e, z, u)
           /\ \E k, l \in Local : /\ <<k, l, u[5]>> \in PatchOf(u)
                                  /\ f = Face(CellAt(c, e, z, k, l), e)
    BY <2>7
  <2>9. PICK k \in Local, l \in Local : /\ <<k, l, u[5]>> \in PatchOf(u)
                                        /\ f = Face(CellAt(c, e, z, k, l), e)
    BY <2>8
  <2>10. CellAt(c, e, z, k, l) = CellAt(c, d, s, i, j) /\ e = d
    BY <2>4, <2>9
  <2>11. z = s /\ k = i /\ l = j
    BY <2>10, SlicesOnce
  <2>12. Tiles(Greedy[Mask(c, d, s)], Mask(c, d, s)) /\ Slice(Mask(c, d, s))
    BY MaskIs, GreedyTiles
  <2>13. u \in Greedy[Mask(c, d, s)] /\ <<i, j, u[5]>> \in PatchOf(u)
    BY <2>9, <2>10, <2>11
  <2>14. <<i, j, t[5]>> \in Mask(c, d, s) /\ <<i, j, u[5]>> \in Mask(c, d, s)
    BY <2>3, <2>12, <2>13 DEF Tiles
  <2>15. t[5] = u[5]
    <3>1. PICK a, b : a = <<i, j, t[5]>> /\ b = <<i, j, u[5]>>
      OBVIOUS
    <3>2. a[1] = b[1] /\ a[2] = b[2] /\ a[3] = t[5] /\ b[3] = u[5]
      BY <3>1
    <3>3. a = b
      BY <2>12, <2>14, <3>1, <3>2 DEF Slice
    <3> QED
      BY <3>2, <3>3
  <2>16. t = u
    BY <2>3, <2>12, <2>13, <2>15 DEF Tiles
  <2> QED
    BY <2>2, <2>8, <2>10, <2>11, <2>16
<1> QED
  BY <1>1, <1>2, <1>3
-----------------------------------------------------------------------------
(* The world around a chunk.                                               *)

LEMMA CellIs ==
  ASSUME NEW cell \in Cells
  PROVE  /\ ChunkOf(cell) \in Chunks /\ cell \in CellsOf(ChunkOf(cell))
         /\ cell[1] \in Int
<1>1. PICK e, n, x, q, m : e = Edge /\ n = NChunks /\ x = cell[1] /\ q = x \div e /\ m = x % e
  OBVIOUS
<1>2. e \in Nat \ {0} /\ n \in Nat \ {0} /\ x \in 0..(n * e - 1)
  BY <1>1, EdgeFacts DEF Cells
<1>3. x \in Int /\ n * e \in Int
  BY <1>2
<1>4. q \in Int /\ m \in 0..(e - 1) /\ x = q * e + m
  BY <1>1, <1>2, <1>3, DivMod
<1>5. q >= 0
  <2>1. ASSUME q < 0 PROVE FALSE
    <3>1. q * e + e <= 0 * e /\ q * e \in Int
      BY <1>2, <1>4, <2>1, MulLess
    <3> QED
      BY <1>2, <1>4, <3>1
  <2> QED
    BY <1>4, <2>1
<1>6. q < n
  <2>1. ASSUME n <= q PROVE FALSE
    <3>1. n * e <= q * e
      <4>1. CASE n = q
        BY <1>2, <4>1
      <4>2. CASE n < q
        BY <1>2, <1>4, <4>2, MulLess
      <4> QED
        BY <1>2, <1>4, <2>1, <4>1, <4>2
    <3>2. q * e \in Int
      BY <1>2, <1>4
    <3> QED
      BY <1>2, <1>3, <1>4, <3>1, <3>2
  <2> QED
    BY <1>2, <1>4, <2>1
<1>7. q \in Chunks /\ q = ChunkOf(cell)
  BY <1>1, <1>2, <1>4, <1>5, <1>6 DEF Chunks, ChunkOf
<1> QED
  BY <1>1, <1>3, <1>7 DEF CellsOf

\* What lies across a face lies in the chunk or in a neighbour, and then the chunk is
\* told of its changes.
LEMMA AcrossIs ==
  ASSUME NEW c \in Chunks, NEW x \in CellsOf(c), NEW d \in Directions, Across(x, d) \in Cells
  PROVE  /\ c \in WithNeighbors(ChunkOf(Across(x, d)))
         /\ c \in Bordering(Across(x, d))
<1>1. PICK y, e, m, s : y = Across(x, d) /\ e = Edge /\ m = x[1] % e
                        /\ s = IF d.axis = 1 THEN d.sign ELSE 0
  OBVIOUS
<1>2. e \in Nat \ {0} /\ c \in Int
  BY <1>1, EdgeFacts DEF Chunks
<1>3. m \in 0..(e - 1) /\ x[1] = c * e + m
  <2>1. x \in Cells /\ x[1] \div e = c
    BY <1>1 DEF CellsOf, ChunkOf
  <2>2. x[1] \in Int
    BY <2>1, CellIs
  <2> QED
    BY <1>1, <1>2, <2>1, <2>2, DivMod
<1>4. s \in {-1, 0, 1}
  BY <1>1 DEF Directions
<1>5. y[1] = c * e + m + s
  BY <1>1, <1>3 DEF Across
<1>6. c * e \in Int
  BY <1>2
<1>7. CASE m + s \in 0..(e - 1)
  <2>1. y[1] = c * e + (m + s)
    BY <1>3, <1>4, <1>5, <1>6
  <2>2. y[1] \div e = c
    BY <1>2, <1>7, <2>1, DivUnique
  <2> QED
    BY <1>1, <1>2, <2>2 DEF ChunkOf, WithNeighbors, Bordering
<1>8. CASE m + s = -1
  <2>1. (c - 1) * e = c * e - e
    BY <1>2
  <2>2. y[1] = (c - 1) * e + (e - 1)
    BY <1>2, <1>3, <1>4, <1>5, <1>6, <1>8, <2>1
  <2>3. c - 1 \in Int /\ e - 1 \in 0..(e - 1)
    BY <1>2
  <2>4. y[1] \div e = c - 1 /\ y[1] % e = e - 1
    BY <1>2, <2>2, <2>3, DivUnique
  <2>5. c - (c - 1) = 1 /\ c = (c - 1) + 1
    BY <1>2
  <2>6. ChunkOf(y) = c - 1 /\ y[1] % Edge = Edge - 1
    BY <1>1, <2>4 DEF ChunkOf
  <2>7. c \in WithNeighbors(c - 1)
    BY <2>5 DEF WithNeighbors
  <2>8. c \in Bordering(y)
    BY <2>5, <2>6 DEF Bordering
  <2> QED
    BY <1>1, <2>6, <2>7, <2>8
<1>9. CASE m + s = e
  <2>1. (c + 1) * e = c * e + e
    BY <1>2
  <2>2. y[1] = (c + 1) * e + 0
    BY <1>2, <1>3, <1>4, <1>5, <1>6, <1>9, <2>1
  <2>3. c + 1 \in Int /\ 0 \in 0..(e - 1)
    BY <1>2
  <2>4. y[1] \div e = c + 1 /\ y[1] % e = 0
    BY <1>2, <2>2, <2>3, DivUnique
  <2>5. c - (c + 1) = -1 /\ c = (c + 1) - 1
    BY <1>2
  <2>6. ChunkOf(y) = c + 1 /\ y[1] % Edge = 0
    BY <1>1, <2>4 DEF ChunkOf
  <2>7. c \in WithNeighbors(c + 1)
    BY <2>5 DEF WithNeighbors
  <2>8. c \in Bordering(y)
    BY <2>5, <2>6 DEF Bordering
  <2> QED
    BY <1>1, <2>6, <2>7, <2>8
<1>10. m + s \in 0..(e - 1) \/ m + s = -1 \/ m + s = e
  BY <1>2, <1>3, <1>4
<1> QED
  BY <1>7, <1>8, <1>9, <1>10

\* The faces of a chunk are what they were if its blocks, their tints and what lies
\* across them are.
LEMMA SameFaces ==
  ASSUME NEW c,
         \A x \in CellsOf(c) : /\ block'[x] = block[x] /\ tints'[x] = tints[x]
                               /\ \A d \in Directions : BlockAt(Across(x, d))' = BlockAt(Across(x, d))
  PROVE  WorldFaces(c)' = WorldFaces(c)
<1> DEFINE Faced(x) == /\ block[x[1]] \notin Cross \cup {Air}
                       /\ FaceVisible(block[x[1]], BlockAt(Across(x[1], x[2])))
           S == CellsOf(c) \X Directions
           A == {y \in S : Faced(y)}
           B == {x \in CellsOf(c) : block[x] \in Cross}
           F(x) == <<x[1], x[2], block[x[1]], tints[x[1]]>>
           X(cell) == <<cell, CrossDirection, block[cell], tints[cell]>>
<1>1. WorldFaces(c) = {F(x) : x \in A} \cup {X(cell) : cell \in B}
  BY DEF WorldFaces
<1>2. WorldFaces(c)' = {F(x)' : x \in A'} \cup {X(cell)' : cell \in B'}
  BY DEF WorldFaces
<1>3. \A x \in S : x[1] \in CellsOf(c) /\ x[2] \in Directions
  OBVIOUS
<1>4. ASSUME NEW x \in S PROVE Faced(x)' = Faced(x) /\ F(x)' = F(x)
  BY <1>3
<1>5. A' = A
  BY <1>4
<1>6. \A cell \in CellsOf(c) : X(cell)' = X(cell)
  OBVIOUS
<1>7. B' = B
  OBVIOUS
<1>8. {F(x)' : x \in A} = {F(x) : x \in A}
  BY <1>4
<1>9. {X(cell)' : cell \in B} = {X(cell) : cell \in B}
  BY <1>6
<1> QED
  BY <1>1, <1>2, <1>5, <1>7, <1>8, <1>9
-----------------------------------------------------------------------------
(* The picture.                                                            *)

\* Sections that draw exactly these faces of chunk c, each once.
Draws(c, sections, faces) ==
  /\ UNION {FacesAt(c, s) : s \in sections} = faces
  /\ \A s, t \in sections : s # t => FacesAt(c, s) \cap FacesAt(c, t) = {}
DrawnAsIs(c) == IF c \in loaded THEN Draws(c, SectionsOf(objects[c]), WorldFaces(c))
                                ELSE objects[c] = NoObject

\* Every node stands where its chunk is.
PlacedInv == \A c \in Chunks : objects[c] = NoObject \/ (IsObject(objects[c]) /\ objects[c].at = c - anchor)

\* Before the first sync nothing is drawn, and no chunk has been there to be forgotten.
ListenInv == /\ listening => phase \notin {"starting", "down"}
             /\ ~listening => \A c \in Chunks : objects[c] = NoObject
             /\ ~listening /\ phase \in {"starting", "events", "camera"} => loaded = {}

\* The tints of what is loaded are those of the world, and those of a chunk that is gone
\* stay at most until the next sync.
TintsInv == /\ \A c \in loaded : Tinted(c)
            /\ \A cell \in Cells : ChunkOf(cell) \notin loaded =>
                 /\ override[cell] = None
                 /\ tints[cell] # None => phase \in {"pump", "sync"} /\ ChunkOf(cell) \in dirty

DrawnInv == listening => \A c \in Chunks \ dirty : DrawnAsIs(c)

DrawingInv == /\ TypeOK /\ PlacedInv /\ ListenInv /\ DrawnInv
              /\ phase # "down" => TintsInv

LEMMA DrawingIsPicture == DrawingInv => PictureInv
<1> SUFFICES ASSUME DrawingInv, phase # "down", listening, NEW c \in Chunks \ dirty
             PROVE  IF c \in loaded
                    THEN /\ UNION {SectionFaces(objects[c], s) : s \in SectionsOf(objects[c])} = WorldFaces(c)
                         /\ DrawnOnce(objects[c])
                         /\ \A cell \in CellsOf(c) : tints[cell] \in ShownTints(cell)
                    ELSE objects[c] = NoObject
  BY DEF PictureInv, PictureIsWorld, DrawingInv
<1>1. DrawnAsIs(c)
  BY DEF DrawingInv, DrawnInv
<1>2. CASE c \notin loaded
  BY <1>1, <1>2 DEF DrawnAsIs
<1>3. CASE c \in loaded
  <2>1. ASSUME NEW s \in SectionsOf(objects[c]) PROVE SectionFaces(objects[c], s) = FacesAt(c, s)
    <3>1. objects[c] # NoObject
      BY <2>1 DEF SectionsOf
    <3>2. objects[c].at = c - anchor
      BY <3>1 DEF DrawingInv, PlacedInv
    <3>3. c \in Int /\ anchor \in Int
      BY EdgeFacts DEF DrawingInv, TypeOK, Chunks
    <3>4. anchor + objects[c].at = c
      BY <3>2, <3>3
    <3> QED
      BY <3>4 DEF SectionFaces, FacesAt
  <2>2. Draws(c, SectionsOf(objects[c]), WorldFaces(c))
    BY <1>1, <1>3 DEF DrawnAsIs
  <2>3. {SectionFaces(objects[c], s) : s \in SectionsOf(objects[c])} =
          {FacesAt(c, s) : s \in SectionsOf(objects[c])}
    BY <2>1
  <2>4. UNION {SectionFaces(objects[c], s) : s \in SectionsOf(objects[c])} = WorldFaces(c)
    BY <2>2, <2>3 DEF Draws
  <2>5. DrawnOnce(objects[c])
    BY <2>1, <2>2 DEF Draws, DrawnOnce
  <2>6. \A cell \in CellsOf(c) : tints[cell] \in ShownTints(cell)
    BY <1>3 DEF DrawingInv, TintsInv, Tinted
  <2> QED
    BY <1>3, <2>4, <2>5, <2>6
<1> QED
  BY <1>2, <1>3

LEMMA DrawingInit == Init => DrawingInv
<1> SUFFICES ASSUME Init
             PROVE  DrawingInv
  OBVIOUS
<1>1. /\ phase = "starting" /\ center = 0 /\ anchor = 0 /\ loaded = {} /\ ~listening /\ dirty = {}
      /\ materials = {} /\ tinted = {} /\ edits = 0
      /\ \A c \in Chunks : objects[c] = NoObject
      /\ listening \in BOOLEAN
  BY DEF Init
<1>2. 0 \in Chunks
  BY EdgeFacts DEF Chunks
<1>3. block \in [Cells -> Ids] /\ override \in [Cells -> Values \cup {None}]
  BY RenderingAssumption DEF Init
<1>4. tints \in [Cells -> (Values \ {0}) \cup {None}]
  BY DEF Init
<1>5. \A cell \in Cells : override[cell] = None /\ tints[cell] = None
  BY DEF Init
<1>6. 0 \in 0..MaxEdits
  BY RenderingAssumption
<1>7. TypeOK
  BY <1>1, <1>2, <1>3, <1>4, <1>6 DEF TypeOK
<1> QED
  BY <1>1, <1>5, <1>7 DEF DrawingInv, PlacedInv, ListenInv, DrawnInv, TintsInv

\* Steps that leave the picture and the world alone.
LEMMA DrawingQuiet ==
  ASSUME DrawingInv, UNCHANGED <<center, anchor, world, listening, dirty, tints, objects, tinted, edits>>,
         materials' \subseteq Ids \ {Air},
         \/ phase' = phase
         \/ phase = "starting" /\ phase' = "events"
         \/ phase = "events" /\ phase' = "camera"
         \/ phase = "pump" /\ phase' = "sync"
  PROVE  DrawingInv'
<1>1. UNCHANGED <<loaded, block, override>>
  BY DEF world
<1>2. TypeOK'
  BY <1>1 DEF DrawingInv, TypeOK
<1>3. ASSUME NEW c PROVE WorldFaces(c)' = WorldFaces(c) /\ Tinted(c)' = Tinted(c)
  <2>1. \A x : ShownTints(x)' = ShownTints(x) /\ BlockAt(x)' = BlockAt(x)
    BY <1>1 DEF ShownTints, WorldTint, PropertyOf, BlockAt
  <2>2. WorldFaces(c)' = WorldFaces(c)
    BY <1>1, <2>1, SameFaces
  <2> QED
    BY <2>1, <2>2 DEF Tinted
<1>4. DrawnInv'
  BY <1>1, <1>3 DEF DrawingInv, DrawnInv, DrawnAsIs
<1>5. PlacedInv' /\ ListenInv'
  BY <1>1 DEF DrawingInv, PlacedInv, ListenInv
<1>6. phase' # "down" => TintsInv'
  <2>1. phase' # "down" => phase # "down" /\ (phase \in {"pump", "sync"} => phase' \in {"pump", "sync"})
    OBVIOUS
  <2> QED
    BY <1>1, <1>3, <2>1 DEF DrawingInv, TintsInv
<1> QED
  BY <1>2, <1>4, <1>5, <1>6 DEF DrawingInv

LEMMA DrawingStart ==
  ASSUME DrawingInv, CreateMaterial \/ MaterialFails \/ Started
  PROVE  DrawingInv'
<1>1. CASE CreateMaterial
  <2> DEFINE T == Ids \ ({Air} \cup materials)
  <2>1. T # {} /\ T \subseteq Nat
    BY <1>1, EdgeFacts DEF CreateMaterial
  <2>2. \E n \in T : \A k \in T : n <= k
    BY <2>1, LeastNumber
  <2>3. NextMaterial \in T
    BY <2>2 DEF NextMaterial
  <2>4. materials' = materials \cup {NextMaterial} /\ materials \subseteq Ids \ {Air}
    BY <1>1 DEF CreateMaterial, DrawingInv, TypeOK
  <2>5. materials' \subseteq Ids \ {Air}
    BY <2>3, <2>4
  <2> QED
    BY <1>1, <2>5, DrawingQuiet DEF CreateMaterial
<1>2. CASE MaterialFails
  <2>1. /\ phase = "starting" /\ phase' = "down" /\ materials' = {}
        /\ UNCHANGED <<center, anchor, loaded, block, override, listening, dirty, tints, objects, tinted, edits>>
    BY <1>2 DEF MaterialFails, world
  <2>2. ~listening
    BY <2>1 DEF DrawingInv, ListenInv
  <2>3. TypeOK'
    BY <2>1 DEF DrawingInv, TypeOK
  <2>4. PlacedInv' /\ ListenInv' /\ DrawnInv'
    BY <2>1, <2>2 DEF DrawingInv, PlacedInv, ListenInv, DrawnInv
  <2> QED
    BY <2>1, <2>3, <2>4 DEF DrawingInv
<1>3. CASE Started
  <2>1. materials' \subseteq Ids \ {Air}
    BY <1>3 DEF Started, DrawingInv, TypeOK
  <2> QED
    BY <1>3, <2>1, DrawingQuiet DEF Started
<1> QED
  BY <1>1, <1>2, <1>3

LEMMA DrawingShutdown ==
  ASSUME DrawingInv, Shutdown
  PROVE  DrawingInv'
<1>1. /\ phase' = "down" /\ materials' = {} /\ tinted' = {} /\ dirty' = {} /\ listening' = FALSE
      /\ \A c \in Chunks : objects'[c] = NoObject
      /\ tints' = [cell \in Cells |-> None]
      /\ UNCHANGED <<center, anchor, loaded, block, override, edits>>
  BY DEF Shutdown, world
<1>2. tints' \in [Cells -> (Values \ {0}) \cup {None}]
  BY <1>1
<1>3. TypeOK'
  BY <1>1, <1>2 DEF DrawingInv, TypeOK
<1>4. PlacedInv' /\ ListenInv' /\ DrawnInv'
  BY <1>1 DEF PlacedInv, ListenInv, DrawnInv
<1> QED
  BY <1>1, <1>3, <1>4 DEF DrawingInv

\* A block or property command: the cell has its tint at once, and every chunk with a
\* face of it or against it waits to be drawn again.
LEMMA DrawingEdit ==
  ASSUME DrawingInv, phase \notin {"starting", "down"},
         NEW cell \in Cells, ChunkOf(cell) \in loaded, NEW value \in Values,
         SetBlockTint(cell, value, Notified(Bordering(cell))),
         block' \in [Cells -> Ids], override' \in [Cells -> Values \cup {None}],
         \A x \in Cells : x # cell => block'[x] = block[x] /\ override'[x] = override[x],
         WorldTint(cell)' = Decoded(value),
         edits' \in 0..MaxEdits,
         UNCHANGED <<phase, center, anchor, loaded, listening, rendererBooks>>
  PROVE  DrawingInv'
<1>1. /\ tints' = [tints EXCEPT ![cell] = Decoded(value)]
      /\ dirty' = dirty \cup Notified(Bordering(cell)) \cup {ChunkOf(cell)}
      /\ UNCHANGED <<phase, center, anchor, loaded, listening, objects, materials, tinted>>
  BY DEF SetBlockTint, rendererBooks
<1>2. TypeOK /\ tints \in [Cells -> (Values \ {0}) \cup {None}] /\ dirty \subseteq Chunks
  BY DEF DrawingInv, TypeOK
<1>3. Decoded(value) \in (Values \ {0}) \cup {None}
  BY DEF Decoded
<1>4. /\ tints' \in [Cells -> (Values \ {0}) \cup {None}]
      /\ tints'[cell] = Decoded(value)
      /\ \A x \in Cells : x # cell => tints'[x] = tints[x]
  BY <1>1, <1>2, <1>3
<1>5. dirty' \subseteq Chunks
  BY <1>1, <1>2, CellIs, ToldAreChunks
<1>6. TypeOK'
  BY <1>1, <1>2, <1>4, <1>5 DEF TypeOK
<1>7. ASSUME NEW x \in Cells, x # cell PROVE ShownTints(x)' = ShownTints(x) /\ tints'[x] = tints[x]
  <2>1. block'[x] = block[x] /\ override'[x] = override[x]
    BY <1>7
  <2> QED
    BY <1>4, <1>7, <2>1 DEF ShownTints, WorldTint, PropertyOf
<1>8. \A c \in loaded : Tinted(c)
  BY DEF DrawingInv, TintsInv
<1>9. TintsInv'
  <2>1. ASSUME NEW c \in loaded, NEW x \in CellsOf(c) PROVE tints'[x] \in ShownTints(x)'
    <3>1. x \in Cells /\ tints[x] \in ShownTints(x)
      BY <1>8, <2>1 DEF Tinted, CellsOf
    <3>2. CASE x = cell
      BY <1>4, <3>2 DEF ShownTints
    <3>3. CASE x # cell
      BY <1>7, <3>1, <3>3
    <3> QED
      BY <3>2, <3>3
  <2>2. ASSUME NEW x \in Cells, ChunkOf(x) \notin loaded
        PROVE  /\ override'[x] = None
               /\ tints'[x] # None => phase' \in {"pump", "sync"} /\ ChunkOf(x) \in dirty'
    <3>1. x # cell
      BY <2>2
    <3>2. /\ override[x] = None
          /\ tints[x] # None => phase \in {"pump", "sync"} /\ ChunkOf(x) \in dirty
      BY <2>2 DEF DrawingInv, TintsInv
    <3> QED
      BY <1>1, <1>4, <3>1, <3>2
  <2>3. \A c \in loaded : Tinted(c)'
    BY <2>1 DEF Tinted
  <2> QED
    BY <1>1, <2>2, <2>3 DEF TintsInv
<1>10. ASSUME listening, NEW c \in Chunks, c \notin dirty' PROVE DrawnAsIs(c)'
  <2>1. DrawnAsIs(c) /\ c \notin Bordering(cell) /\ c # ChunkOf(cell)
    BY <1>1, <1>10 DEF DrawingInv, DrawnInv, Notified
  <2>2. ASSUME NEW x \in CellsOf(c)
        PROVE  /\ block'[x] = block[x] /\ tints'[x] = tints[x]
               /\ \A d \in Directions : BlockAt(Across(x, d))' = BlockAt(Across(x, d))
    <3>1. x \in Cells /\ x # cell
      BY <2>1, <2>2 DEF CellsOf
    <3>2. ASSUME NEW d \in Directions PROVE BlockAt(Across(x, d))' = BlockAt(Across(x, d))
      <4>1. CASE Across(x, d) \in Cells
        <5>1. Across(x, d) # cell
          BY <2>1, <4>1, AcrossIs
        <5> QED
          BY <1>1, <4>1, <5>1 DEF BlockAt
      <4>2. CASE Across(x, d) \notin Cells
        BY <4>2 DEF BlockAt
      <4> QED
        BY <4>1, <4>2
    <3> QED
      BY <1>7, <3>1, <3>2
  <2>3. WorldFaces(c)' = WorldFaces(c)
    BY <2>2, SameFaces
  <2> QED
    BY <1>1, <2>1, <2>3 DEF DrawnAsIs
<1>11. DrawnInv'
  BY <1>1, <1>10 DEF DrawnInv
<1>12. PlacedInv' /\ ListenInv'
  BY <1>1 DEF DrawingInv, PlacedInv, ListenInv
<1> QED
  BY <1>6, <1>9, <1>11, <1>12 DEF DrawingInv

LEMMA DrawingEdits ==
  ASSUME DrawingInv,
         \/ \E cell \in Editable, id \in Ids : SetBlock(cell, id)
         \/ \E cell \in Editable, value \in Values : SetTintProperty(cell, value)
  PROVE  DrawingInv'
<1>1. /\ block \in [Cells -> Ids] /\ override \in [Cells -> Values \cup {None}] /\ edits \in 0..MaxEdits
      /\ Editable \subseteq Cells /\ TintDefault \in [Ids -> Values]
      /\ 0 \in Values /\ None \notin Values /\ None \notin Ids /\ TintProperty \subseteq Ids
      /\ MaxEdits \in Nat
  BY RenderingAssumption DEF DrawingInv, TypeOK
<1>2. ASSUME NEW cell \in Editable, NEW id \in Ids, SetBlock(cell, id)
      PROVE  DrawingInv'
  <2> DEFINE value == IF id \in TintProperty THEN TintDefault[id] ELSE 0
  <2>1. /\ phase \in {"events", "pump"} /\ edits < MaxEdits /\ BlockAt(cell) # None
        /\ block' = [block EXCEPT ![cell] = id]
        /\ override' = [override EXCEPT ![cell] = None]
        /\ SetBlockTint(cell, value, Notified(Bordering(cell)))
        /\ edits' = edits + 1
        /\ UNCHANGED <<phase, center, anchor, loaded, listening, rendererBooks>>
    BY <1>2 DEF SetBlock
  <2>2. cell \in Cells /\ ChunkOf(cell) \in loaded /\ value \in Values
    BY <1>1, <2>1 DEF BlockAt
  <2>3. /\ block' \in [Cells -> Ids] /\ override' \in [Cells -> Values \cup {None}]
        /\ \A x \in Cells : x # cell => block'[x] = block[x] /\ override'[x] = override[x]
        /\ block'[cell] = id /\ override'[cell] = None
        /\ edits' \in 0..MaxEdits
    BY <1>1, <2>1, <2>2
  <2>4. WorldTint(cell)' = Decoded(value)
    BY <2>3 DEF WorldTint, PropertyOf, Decoded
  <2>5. phase \notin {"starting", "down"}
    BY <2>1
  <2> HIDE DEF value
  <2> QED
    BY <2>1, <2>2, <2>3, <2>4, <2>5, DrawingEdit
<1>3. ASSUME NEW cell \in Editable, NEW value \in Values, SetTintProperty(cell, value)
      PROVE  DrawingInv'
  <2>1. /\ phase = "pump" /\ edits < MaxEdits /\ BlockAt(cell) \in TintProperty
        /\ override' = [override EXCEPT ![cell] = IF value = TintDefault[block[cell]] THEN None
                                                                                      ELSE value]
        /\ SetBlockTint(cell, value, Notified(Bordering(cell)))
        /\ edits' = edits + 1
        /\ block' = block
        /\ UNCHANGED <<phase, center, anchor, loaded, listening, rendererBooks>>
    BY <1>3 DEF SetTintProperty
  <2>2. cell \in Cells /\ ChunkOf(cell) \in loaded /\ block[cell] \in TintProperty
    BY <1>1, <2>1 DEF BlockAt
  <2>3. /\ block' \in [Cells -> Ids] /\ override' \in [Cells -> Values \cup {None}]
        /\ \A x \in Cells : x # cell => block'[x] = block[x] /\ override'[x] = override[x]
        /\ block'[cell] = block[cell]
        /\ override'[cell] = IF value = TintDefault[block[cell]] THEN None ELSE value
        /\ edits' \in 0..MaxEdits
    BY <1>1, <2>1, <2>2
  <2>4. PropertyOf(block', override', cell) = value
    BY <1>1, <2>3 DEF PropertyOf
  <2>5. WorldTint(cell)' = Decoded(value)
    BY <2>2, <2>3, <2>4 DEF WorldTint, Decoded
  <2>6. phase \notin {"starting", "down"}
    BY <2>1
  <2> QED
    BY <2>1, <2>2, <2>3, <2>5, <2>6, DrawingEdit
<1> QED
  BY <1>2, <1>3

\* A node that moves keeps its sections.
LEMMA MovedKeepsSections ==
  ASSUME NEW obj, IsObject(obj), obj # NoObject, NEW at
  PROVE  LET moved == [obj EXCEPT !.at = at]
         IN /\ IsObject(moved) /\ moved # NoObject /\ moved.at = at
            /\ SectionsOf(moved) = SectionsOf(obj)
<1> DEFINE moved == [at |-> at, caster |-> obj.caster, other |-> obj.other]
<1>1. [obj EXCEPT !.at = at] = moved
  BY DEF IsObject
<1>2. IsObject(moved) /\ moved # NoObject
  BY RecordIsObject
<1>3. moved.at = at /\ moved.caster = obj.caster /\ moved.other = obj.other
  OBVIOUS
<1>4. SectionsOf(moved) = SectionsOf(obj)
  BY <1>2, <1>3 DEF SectionsOf
<1> QED
  BY <1>1, <1>2, <1>3, <1>4

\* The camera moves and chunks come and go: who is not told sees the same world, nodes go
\* with the anchor, and what comes is drawn without any tint.
LEMMA DrawingMove ==
  ASSUME DrawingInv, NEW to \in Chunks, NEW a \in Chunks, NEW commits \in SUBSET Chunks,
         MoveAndStream(to, a, commits)
  PROVE  DrawingInv'
<1>1. PICK evicted, told :
        /\ evicted = IF to = center THEN {} ELSE loaded \ View(to)
        /\ told = UNION {WithNeighbors(c) : c \in evicted \cup commits}
  OBVIOUS
<1>2. /\ phase = "camera" /\ phase' = "pump" /\ commits \subseteq View(to) \ loaded
      /\ loaded' = (loaded \ evicted) \cup commits
      /\ block' = [cell \in Cells |-> IF ChunkOf(cell) \in commits THEN Base[cell]
                                      ELSE IF ChunkOf(cell) \in evicted THEN Air
                                      ELSE block[cell]]
      /\ override' = [cell \in Cells |-> IF ChunkOf(cell) \in evicted THEN None
                                                                      ELSE override[cell]]
      /\ dirty' = dirty \cup Notified(told)
      /\ center' = to /\ anchor' = a
      /\ objects' = Reanchored(a)
      /\ UNCHANGED <<listening, tints, materials, tinted, edits>>
  BY <1>1 DEF MoveAndStream
<1>3. /\ evicted \subseteq loaded /\ evicted \cap commits = {}
      /\ loaded \subseteq Chunks /\ dirty \subseteq Chunks
      /\ block \in [Cells -> Ids] /\ override \in [Cells -> Values \cup {None}]
      /\ TypeOK
  BY <1>1, <1>2 DEF DrawingInv, TypeOK
<1>4. ASSUME NEW c \in Chunks
      PROVE  /\ objects'[c] = NoObject <=> objects[c] = NoObject
             /\ objects'[c] # NoObject => IsObject(objects'[c]) /\ objects'[c].at = c - a
             /\ SectionsOf(objects'[c]) = SectionsOf(objects[c])
  <2>1. objects'[c] = IF objects[c] = NoObject THEN NoObject
                      ELSE [objects[c] EXCEPT !.at = c - a]
    BY <1>2 DEF Reanchored
  <2>2. CASE objects[c] = NoObject
    BY <2>1, <2>2
  <2>3. CASE objects[c] # NoObject
    <3>1. IsObject(objects[c])
      BY <2>3 DEF DrawingInv, PlacedInv
    <3>2. PICK at : at = c - a
      OBVIOUS
    <3>3. objects'[c] = [objects[c] EXCEPT !.at = at]
      BY <2>1, <2>3, <3>2
    <3> QED
      BY <2>3, <3>1, <3>2, <3>3, MovedKeepsSections
  <2> QED
    BY <2>2, <2>3
<1>5. TypeOK'
  <2>1. loaded' \subseteq Chunks
    BY <1>2, <1>3
  <2>2. dirty' \subseteq Chunks
    BY <1>1, <1>2, <1>3, ToldAreChunks
  <2>3. block' \in [Cells -> Ids]
    BY <1>2, <1>3, RenderingAssumption
  <2>4. override' \in [Cells -> Values \cup {None}]
    BY <1>2, <1>3
  <2>5. ASSUME NEW c \in Chunks, objects'[c] # NoObject
        PROVE  /\ objects'[c].at \in Int
               /\ \A s \in SectionsOf(objects'[c]) :
                    s.quad.id \in Ids \ {Air} /\ s.quad.owner \in Cells /\ s.tint \in Values \cup {None}
    <3>1. c - a \in Int
      BY EdgeFacts DEF Chunks
    <3>2. \A s \in SectionsOf(objects[c]) :
            s.quad.id \in Ids \ {Air} /\ s.quad.owner \in Cells /\ s.tint \in Values \cup {None}
      BY <1>3, <1>4, <2>5 DEF TypeOK
    <3> QED
      BY <1>4, <2>5, <3>1, <3>2
  <2>6. /\ phase' \in {"starting", "events", "camera", "pump", "sync", "down"}
        /\ center' \in Chunks /\ anchor' \in Chunks /\ listening' \in BOOLEAN
        /\ tints' \in [Cells -> (Values \ {0}) \cup {None}]
        /\ materials' \subseteq Ids \ {Air} /\ tinted' \subseteq Ids \X Values /\ edits' \in 0..MaxEdits
    BY <1>2, <1>3 DEF TypeOK
  <2> QED
    BY <2>1, <2>2, <2>3, <2>4, <2>5, <2>6 DEF TypeOK
<1>6. PlacedInv'
  BY <1>2, <1>4 DEF PlacedInv
<1>7. ListenInv'
  BY <1>2, <1>4 DEF DrawingInv, ListenInv
<1>8. \A cell \in Cells : ChunkOf(cell) \notin loaded => override[cell] = None /\ tints[cell] = None
  BY <1>2 DEF DrawingInv, TintsInv
<1>9. ASSUME NEW c \in loaded, c \notin evicted, NEW x \in Cells, ChunkOf(x) = c
      PROVE  block'[x] = block[x] /\ override'[x] = override[x]
  BY <1>2, <1>9
<1>10. ASSUME NEW c \in loaded, c \notin evicted, NEW x \in CellsOf(c)
       PROVE  block'[x] = block[x] /\ ShownTints(x)' = ShownTints(x)
  <2>1. x \in Cells /\ ChunkOf(x) = c
    BY <1>10 DEF CellsOf
  <2>2. block'[x] = block[x] /\ override'[x] = override[x]
    BY <1>9, <1>10, <2>1
  <2> QED
    BY <2>2 DEF ShownTints, WorldTint, PropertyOf
<1>11. \A c \in loaded' : Tinted(c)'
  <2>1. SUFFICES ASSUME NEW c \in loaded', NEW x \in CellsOf(c)
                 PROVE  tints'[x] \in ShownTints(x)'
    BY DEF Tinted
  <2>2. x \in Cells /\ ChunkOf(x) = c
    BY DEF CellsOf
  <2>3. CASE c \in commits
    <3>1. c \notin evicted /\ c \notin loaded
      BY <1>2, <1>3, <2>3
    <3>2. block'[x] = Base[x] /\ override'[x] = override[x]
      BY <1>2, <2>2, <2>3, <3>1
    <3>3. override'[x] = None /\ tints'[x] = None
      BY <1>2, <1>8, <2>2, <3>1, <3>2
    <3> QED
      BY <3>2, <3>3 DEF ShownTints
  <2>4. CASE c \notin commits
    <3>1. c \in loaded /\ c \notin evicted
      BY <1>2, <2>1, <2>4
    <3>2. tints[x] \in ShownTints(x)
      BY <1>2, <2>1, <3>1 DEF DrawingInv, TintsInv, Tinted
    <3> QED
      BY <1>2, <1>10, <2>1, <3>1, <3>2
  <2> QED
    BY <2>3, <2>4
<1>12. ASSUME NEW cell \in Cells, ChunkOf(cell) \notin loaded'
       PROVE  /\ override'[cell] = None
              /\ tints'[cell] # None => phase' \in {"pump", "sync"} /\ ChunkOf(cell) \in dirty'
  <2>1. ChunkOf(cell) \notin commits
    BY <1>2, <1>12
  <2>2. CASE ChunkOf(cell) \in evicted
    <3>1. override'[cell] = None
      BY <1>2, <2>2
    <3>2. listening
      BY <1>2, <1>3, <2>2 DEF DrawingInv, ListenInv
    <3>3. ChunkOf(cell) \in told
      <4>1. ChunkOf(cell) \in Chunks
        BY CellIs
      <4>2. ChunkOf(cell) - ChunkOf(cell) = 0
        BY <4>1, EdgeFacts DEF Chunks
      <4>3. ChunkOf(cell) \in WithNeighbors(ChunkOf(cell))
        BY <4>1, <4>2 DEF WithNeighbors
      <4> QED
        BY <1>1, <2>2, <4>3
    <3> QED
      BY <1>2, <3>1, <3>2, <3>3 DEF Notified
  <2>3. CASE ChunkOf(cell) \notin evicted
    <3>1. ChunkOf(cell) \notin loaded
      BY <1>2, <1>12, <2>3
    <3> QED
      BY <1>2, <1>8, <2>3, <3>1
  <2> QED
    BY <2>2, <2>3
<1>13. TintsInv'
  BY <1>11, <1>12 DEF TintsInv
<1>14. ASSUME listening, NEW c \in Chunks, c \notin dirty' PROVE DrawnAsIs(c)'
  <2>1. DrawnAsIs(c) /\ c \notin told
    BY <1>2, <1>14 DEF DrawingInv, DrawnInv, Notified
  <2>2. ASSUME NEW k, c \in WithNeighbors(k) PROVE k \notin evicted \cup commits
    BY <1>1, <2>1, <2>2
  <2>3. c \notin evicted \cup commits
    <3>1. c \in WithNeighbors(c)
      BY EdgeFacts DEF WithNeighbors, Chunks
    <3> QED
      BY <2>2, <3>1
  <2>4. c \in loaded' <=> c \in loaded
    BY <1>2, <2>3
  <2>5. CASE c \notin loaded
    BY <1>4, <2>1, <2>4, <2>5 DEF DrawnAsIs
  <2>6. CASE c \in loaded
    <3>1. ASSUME NEW x \in CellsOf(c), NEW d \in Directions
          PROVE  BlockAt(Across(x, d))' = BlockAt(Across(x, d))
      <4>1. CASE Across(x, d) \in Cells
        <5>1. ChunkOf(Across(x, d)) \notin evicted \cup commits
          BY <2>2, <3>1, <4>1, AcrossIs
        <5>2. block'[Across(x, d)] = block[Across(x, d)]
          BY <1>2, <4>1, <5>1
        <5>3. ChunkOf(Across(x, d)) \in loaded' <=> ChunkOf(Across(x, d)) \in loaded
          BY <1>2, <5>1
        <5> QED
          BY <5>2, <5>3 DEF BlockAt
      <4>2. CASE Across(x, d) \notin Cells
        BY <4>2 DEF BlockAt
      <4> QED
        BY <4>1, <4>2
    <3>2. \A x \in CellsOf(c) : block'[x] = block[x] /\ tints'[x] = tints[x]
      BY <1>2, <1>10, <2>3, <2>6
    <3>3. WorldFaces(c)' = WorldFaces(c)
      BY <3>1, <3>2, SameFaces
    <3> QED
      BY <1>4, <2>1, <2>4, <2>6, <3>3 DEF DrawnAsIs
  <2> QED
    BY <2>5, <2>6
<1>15. DrawnInv'
  BY <1>2, <1>14 DEF DrawnInv
<1> QED
  BY <1>5, <1>6, <1>7, <1>13, <1>15 DEF DrawingInv

\* What sync makes of a chunk that is there is the world.
LEMMA RebuiltIs ==
  ASSUME NEW c \in Chunks, block \in [Cells -> Ids], Tinted(c), anchor \in Int,
         tints \in [Cells -> (Values \ {0}) \cup {None}],
         objects[c] = NoObject \/ objects[c].at = c - anchor
  PROVE  /\ Rebuilt(c) = NoObject \/ (IsObject(Rebuilt(c)) /\ Rebuilt(c).at = c - anchor)
         /\ \A s \in SectionsOf(Rebuilt(c)) :
              s.quad.id \in Ids \ {Air} /\ s.quad.owner \in Cells /\ s.tint \in Values \cup {None}
         /\ Draws(c, SectionsOf(Rebuilt(c)), WorldFaces(c))
<1> DEFINE at == IF objects[c] = NoObject THEN c - anchor ELSE objects[c].at
           obj == [at |-> at, caster |-> Sections(Mesh(c), TRUE), other |-> Sections(Mesh(c), FALSE)]
<1>1. at = c - anchor
  OBVIOUS
<1>2. Rebuilt(c) = IF Mesh(c) = {} THEN NoObject ELSE obj
  BY DEF Rebuilt
<1>3. IsObject(obj) /\ obj # NoObject
  BY RecordIsObject
<1>4. obj.at = c - anchor /\ obj.caster = Sections(Mesh(c), TRUE) /\ obj.other = Sections(Mesh(c), FALSE)
  BY <1>1
<1>5. SectionsOf(obj) = Sections(Mesh(c), TRUE) \cup Sections(Mesh(c), FALSE)
  BY <1>3, <1>4 DEF SectionsOf
<1>6. Sections(Mesh(c), TRUE) \cup Sections(Mesh(c), FALSE) = {Section(q) : q \in Mesh(c)}
  <2>1. \A q : Section(q) = [quad |-> q, tint |-> tints[q.owner]]
    BY DEF Section
  <2>2. Sections(Mesh(c), TRUE) = {Section(q) : q \in {m \in Mesh(c) : m.id \in CastShadows}}
    BY <2>1 DEF Sections
  <2>3. Sections(Mesh(c), FALSE) = {Section(q) : q \in {m \in Mesh(c) : m.id \notin CastShadows}}
    BY <2>1 DEF Sections
  <2> QED
    BY <2>2, <2>3
<1> HIDE DEF obj, at
<1>7. SectionsOf(Rebuilt(c)) = {Section(q) : q \in Mesh(c)}
  <2>1. CASE Mesh(c) = {}
    BY <1>2, <2>1 DEF SectionsOf
  <2>2. CASE Mesh(c) # {}
    BY <1>2, <1>5, <1>6, <2>2
  <2> QED
    BY <2>1, <2>2
<1>8. ASSUME NEW s \in SectionsOf(Rebuilt(c))
      PROVE  s.quad.id \in Ids \ {Air} /\ s.quad.owner \in Cells /\ s.tint \in Values \cup {None}
  <2>1. PICK q \in Mesh(c) : s = Section(q)
    BY <1>7
  <2>2. s.quad = q /\ s.tint = tints[q.owner]
    BY <2>1 DEF Section
  <2>3. q.id \in Ids \ {Air} /\ q.owner \in Cells
    BY MeshTypes
  <2>4. tints[q.owner] \in Values \cup {None}
    BY <2>3
  <2> QED
    BY <2>2, <2>3, <2>4
<1>9. Draws(c, SectionsOf(Rebuilt(c)), WorldFaces(c))
  <2>1. UNION {FacesAt(c, s) : s \in SectionsOf(Rebuilt(c))} = WorldFaces(c)
    <3>1. {FacesAt(c, s) : s \in {Section(q) : q \in Mesh(c)}} = {FacesAt(c, Section(q)) : q \in Mesh(c)}
      OBVIOUS
    <3> QED
      BY <1>7, <3>1, MeshCovers
  <2>2. ASSUME NEW s \in SectionsOf(Rebuilt(c)), NEW t \in SectionsOf(Rebuilt(c)), s # t
        PROVE  FacesAt(c, s) \cap FacesAt(c, t) = {}
    <3>1. PICK q \in Mesh(c) : s = Section(q)
      BY <1>7
    <3>2. PICK r \in Mesh(c) : t = Section(r)
      BY <1>7
    <3>3. q # r
      BY <2>2, <3>1, <3>2
    <3>4. ASSUME NEW f, f \in FacesAt(c, Section(q)), f \in FacesAt(c, Section(r)) PROVE FALSE
      BY <3>3, <3>4, MeshOnce
    <3> QED
      BY <3>1, <3>2, <3>4
  <2> QED
    BY <2>1, <2>2 DEF Draws
<1> QED
  BY <1>1, <1>2, <1>3, <1>4, <1>8, <1>9

\* sync: what is gone goes, what is meshed is the world, and what waits stays dirty.
LEMMA DrawingSync ==
  ASSUME DrawingInv, Sync
  PROVE  DrawingInv'
<1>1. /\ phase = "sync" /\ phase' = "events" /\ listening' = TRUE /\ dirty' = Waiting
      /\ tints' = KeptTints /\ objects' = Synced /\ tinted' = tinted \cup Drawn(objects')
      /\ UNCHANGED <<center, anchor, loaded, block, override, materials, edits>>
  BY DEF Sync, world
<1>2. /\ TypeOK /\ TintsInv /\ PlacedInv /\ ListenInv /\ DrawnInv
      /\ loaded \subseteq Chunks /\ dirty \subseteq Chunks /\ anchor \in Int
      /\ block \in [Cells -> Ids] /\ tints \in [Cells -> (Values \ {0}) \cup {None}]
  BY <1>1, EdgeFacts DEF DrawingInv, TypeOK, Chunks
<1>3. /\ Pending \subseteq Chunks /\ Meshed \subseteq Pending \cap loaded
      /\ Waiting = (Pending \cap loaded) \ Meshed
  BY <1>2 DEF Pending, Meshed, Waiting
<1>4. /\ \A c \in Pending \ loaded : objects'[c] = NoObject
      /\ \A c \in Meshed : objects'[c] = Rebuilt(c)
      /\ \A c \in Chunks : c \notin Meshed /\ c \notin Pending \ loaded => objects'[c] = objects[c]
  <2>1. ASSUME NEW c \in Pending \ loaded PROVE objects'[c] = NoObject
    <3>1. c \in Chunks /\ c \notin Meshed
      BY <1>3
    <3> QED
      BY <1>1, <2>1, <3>1 DEF Synced
  <2>2. ASSUME NEW c \in Meshed PROVE objects'[c] = Rebuilt(c)
    <3>1. c \in Chunks /\ c \notin Pending \ loaded
      BY <1>3
    <3> QED
      BY <1>1, <2>2, <3>1 DEF Synced
  <2>3. ASSUME NEW c \in Chunks, c \notin Meshed, c \notin Pending \ loaded
        PROVE  objects'[c] = objects[c]
    BY <1>1, <2>3 DEF Synced
  <2> QED
    BY <2>1, <2>2, <2>3
<1>5. ASSUME NEW c \in Meshed
      PROVE  /\ objects'[c] = NoObject \/ (IsObject(objects'[c]) /\ objects'[c].at = c - anchor)
             /\ \A s \in SectionsOf(objects'[c]) :
                  s.quad.id \in Ids \ {Air} /\ s.quad.owner \in Cells /\ s.tint \in Values \cup {None}
             /\ Draws(c, SectionsOf(objects'[c]), WorldFaces(c))
  <2>1. c \in Chunks /\ c \in loaded
    BY <1>2, <1>3
  <2>2. Tinted(c)
    BY <1>2, <2>1 DEF TintsInv
  <2>3. objects[c] = NoObject \/ objects[c].at = c - anchor
    BY <1>2, <2>1 DEF PlacedInv
  <2> QED
    BY <1>2, <1>4, <2>1, <2>2, <2>3, RebuiltIs
<1>6. ASSUME NEW c \in Chunks
      PROVE  /\ objects'[c] = NoObject \/ (IsObject(objects'[c]) /\ objects'[c].at = c - anchor)
             /\ objects'[c] # NoObject =>
                  /\ objects'[c].at \in Int
                  /\ \A s \in SectionsOf(objects'[c]) :
                       s.quad.id \in Ids \ {Air} /\ s.quad.owner \in Cells /\ s.tint \in Values \cup {None}
  <2>0. c - anchor \in Int
    BY <1>2, EdgeFacts DEF Chunks
  <2>1. CASE c \in Pending \ loaded
    BY <1>4, <2>1
  <2>2. CASE c \in Meshed
    BY <1>5, <2>0, <2>2
  <2>3. CASE c \notin Meshed /\ c \notin Pending \ loaded
    BY <1>2, <1>4, <2>3 DEF TypeOK, PlacedInv
  <2> QED
    BY <2>1, <2>2, <2>3
<1>7. tints' \in [Cells -> (Values \ {0}) \cup {None}]
  BY <1>1, <1>2 DEF KeptTints
<1>8. tinted' \subseteq Ids \X Values
  <2>1. ASSUME NEW c \in Meshed, NEW k \in TintedOf(objects'[c]) PROVE k \in Ids \X Values
    <3>1. PICK s \in SectionsOf(objects'[c]) : s.tint # None /\ k = <<s.quad.id, s.tint>>
      BY <2>1 DEF TintedOf
    <3> QED
      BY <1>5, <2>1, <3>1
  <2>2. Drawn(objects') \subseteq Ids \X Values
    BY <2>1 DEF Drawn
  <2> QED
    BY <1>1, <1>2, <2>2 DEF TypeOK
<1>9. dirty' \subseteq Chunks
  BY <1>1, <1>3
<1>10. TypeOK'
  <2>1. /\ phase' \in {"starting", "events", "camera", "pump", "sync", "down"}
        /\ center' \in Chunks /\ anchor' \in Chunks /\ loaded' \subseteq Chunks
        /\ block' \in [Cells -> Ids] /\ override' \in [Cells -> Values \cup {None}]
        /\ listening' \in BOOLEAN
        /\ materials' \subseteq Ids \ {Air} /\ edits' \in 0..MaxEdits
    BY <1>1, <1>2 DEF TypeOK
  <2> QED
    BY <1>6, <1>7, <1>8, <1>9, <2>1 DEF TypeOK
<1>11. PlacedInv'
  BY <1>1, <1>6 DEF PlacedInv
<1>12. ListenInv'
  BY <1>1 DEF ListenInv
<1>13. ASSUME NEW x
       PROVE  ShownTints(x)' = ShownTints(x) /\ BlockAt(x)' = BlockAt(x)
  BY <1>1 DEF ShownTints, WorldTint, PropertyOf, BlockAt
<1>14. TintsInv'
  <2>1. ASSUME NEW c \in loaded, NEW x \in CellsOf(c) PROVE tints'[x] \in ShownTints(x)'
    <3>1. x \in Cells /\ ChunkOf(x) \in loaded /\ tints[x] \in ShownTints(x)
      BY <1>2, <2>1 DEF TintsInv, Tinted, CellsOf
    <3>2. tints'[x] = tints[x]
      BY <1>1, <3>1 DEF KeptTints
    <3> QED
      BY <1>13, <3>1, <3>2
  <2>2. ASSUME NEW x \in Cells, ChunkOf(x) \notin loaded PROVE override'[x] = None /\ tints'[x] = None
    <3>1. override[x] = None /\ (tints[x] # None => ChunkOf(x) \in Pending)
      BY <1>2, <2>2 DEF TintsInv, Pending
    <3>2. tints'[x] = None
      BY <1>1, <2>2, <3>1 DEF KeptTints
    <3> QED
      BY <1>1, <3>1, <3>2
  <2>3. \A c \in loaded : Tinted(c)'
    BY <2>1 DEF Tinted
  <2> QED
    BY <1>1, <2>2, <2>3 DEF TintsInv
<1>15. ASSUME NEW c \in Chunks, c \notin Waiting PROVE DrawnAsIs(c)'
  <2>1. c \in loaded => WorldFaces(c)' = WorldFaces(c)
    <3>1. ASSUME c \in loaded, NEW x \in CellsOf(c) PROVE tints'[x] = tints[x]
      <4>1. x \in Cells /\ ChunkOf(x) \in loaded
        BY <3>1 DEF CellsOf
      <4> QED
        BY <1>1, <4>1 DEF KeptTints
    <3> QED
      BY <1>1, <1>13, <3>1, SameFaces
  <2>2. CASE c \in Meshed
    <3>1. c \in loaded
      BY <1>3, <2>2
    <3> QED
      BY <1>1, <1>5, <2>1, <2>2, <3>1 DEF DrawnAsIs
  <2>3. CASE c \in Pending \ loaded
    BY <1>1, <1>4, <2>3 DEF DrawnAsIs
  <2>4. CASE c \notin Pending
    <3>1. objects'[c] = objects[c]
      BY <1>3, <1>4, <2>4
    <3>2. DrawnAsIs(c)
      <4>1. CASE listening
        BY <1>2, <2>4, <4>1 DEF DrawnInv, Pending
      <4>2. CASE ~listening
        BY <1>2, <2>4, <4>2 DEF ListenInv, DrawnAsIs, Pending
      <4> QED
        BY <4>1, <4>2
    <3> QED
      BY <1>1, <2>1, <3>1, <3>2 DEF DrawnAsIs
  <2> QED
    BY <1>3, <1>15, <2>2, <2>3, <2>4
<1>16. DrawnInv'
  BY <1>1, <1>15 DEF DrawnInv
<1> QED
  BY <1>10, <1>11, <1>12, <1>14, <1>16 DEF DrawingInv

LEMMA DrawingNext == DrawingInv /\ [Next]_vars => DrawingInv'
<1> SUFFICES ASSUME DrawingInv, [Next]_vars
             PROVE  DrawingInv'
  OBVIOUS
<1>1. CASE CreateMaterial \/ MaterialFails \/ Started
  BY <1>1, DrawingStart
<1>2. CASE EventsDone \/ PumpDone
  <2>1. materials' \subseteq Ids \ {Air}
    BY <1>2 DEF EventsDone, PumpDone, rendererBooks, DrawingInv, TypeOK
  <2> QED
    BY <1>2, <2>1, DrawingQuiet DEF EventsDone, PumpDone, rendererBooks
<1>3. CASE Sync
  BY <1>3, DrawingSync
<1>4. CASE \E to, a \in Chunks : \E commits \in SUBSET Chunks : MoveAndStream(to, a, commits)
  BY <1>4, DrawingMove
<1>5. CASE \/ \E cell \in Editable, id \in Ids : SetBlock(cell, id)
           \/ \E cell \in Editable, value \in Values : SetTintProperty(cell, value)
  BY <1>5, DrawingEdits
<1>6. CASE CloseRequested \/ PumpThrows
  BY <1>6, DrawingShutdown DEF CloseRequested, PumpThrows
<1>7. CASE Down \/ UNCHANGED vars
  <2>1. materials' \subseteq Ids \ {Air}
    BY <1>7 DEF Down, vars, DrawingInv, TypeOK
  <2> QED
    BY <1>7, <2>1, DrawingQuiet DEF Down, vars
<1> QED
  BY <1>1, <1>2, <1>3, <1>4, <1>5, <1>6, <1>7 DEF Next, Frame

\* The picture is the world, for all content: through every edit, border, merge, budget,
\* anchor, eviction and reload, what is drawn of a chunk that is not dirty is its faces, each
\* once, each in the tint of its property or, where nobody changed what worldgen placed,
\* perhaps in none.
THEOREM PictureHolds == FairSpec => []PictureInv
<1> QED
  BY DrawingInit, DrawingNext, DrawingIsPicture, PTL DEF FairSpec, Spec
=============================================================================
