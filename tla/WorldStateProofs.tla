-------------------------- MODULE WorldStateProofs --------------------------
(* Theorems about WorldState, for every value of its constants. *)
EXTENDS WorldState, TLAPS

-----------------------------------------------------------------------------
(* The shape of the steps.                                                 *)

\* What a step that writes a block does: the cell was in a loaded chunk.
BlockWritten(c, id) ==
  /\ Loaded(c)
  /\ id \in BlockIds /\ id # block[c]
  /\ id = Air \/ block[c] = Air
  /\ UNCHANGED <<loaded, lost>>
  /\ block' = [block EXCEPT ![c] = id]
  /\ stored' = [stored EXCEPT ![c] = Replaced(c)]
  /\ propDelta' = [propDelta EXCEPT ![c] = ReplacedDeltas(c)]
  /\ blockDelta' = [blockDelta EXCEPT ![c] = id]
  /\ dirty' = dirty \cup {ChunkOf[c]}
  /\ reply' = "accepted"

\* What a step that writes a property does.
PropertyWritten(t, p, v) ==
  /\ Writable(t, p, v)
  /\ reply' = "accepted"
  /\ stored' = [stored EXCEPT ![t][p] = NewEntry(t, p, v)]
  /\ propDelta' = [propDelta EXCEPT ![t][p] = PropertyDelta(t, p, v)]
  /\ dirty' = IF t \in Cells /\ p \in Persist THEN dirty \cup {ChunkOf[t]} ELSE dirty
  /\ UNCHANGED <<loaded, block, blockDelta, lost>>

\* A command that is rejected leaves the world alone; one that is accepted
\* writes one block of a loaded chunk or one property.
LEMMA StepKinds ==
  ASSUME TypeOK, Next
  PROVE  \/ Rejected
         \/ \E c \in Cells, id \in BlockIds : BlockWritten(c, id)
         \/ \E t \in Targets, p \in Properties, v \in Values : PropertyWritten(t, p, v)
         \/ \E k \in Chunks : Load(k)
         \/ \E k \in Chunks : Evict(k)
<1> USE WorldAssumption DEF TypeOK
<1>1. ASSUME NEW c \in Cells, NEW id \in RequestedIds, Place(c, id)
      PROVE  Rejected \/ (id \in BlockIds /\ BlockWritten(c, id))
  <2>1. CASE Rejected
    BY <2>1
  <2>2. CASE Placeable(c, id) /\ SetBlock(c, id) /\ ~Rejected
    <3>1. Loaded(c) /\ block[c] = Air
      BY <2>2 DEF Placeable, BlockAt
    <3>2. loaded' = loaded \cup {ChunkOf[c]}
      BY <2>2 DEF SetBlock
    <3>3. loaded' = loaded
      BY <3>1, <3>2 DEF Loaded
    <3> QED
      BY <2>2, <3>1, <3>3 DEF SetBlock, Changes, BlockWritten
  <2> QED
    BY <1>1, <2>1, <2>2 DEF Place
<1>2. ASSUME NEW c \in Cells, Remove(c)
      PROVE  Rejected \/ BlockWritten(c, Air)
  <2>1. CASE Rejected
    BY <2>1
  <2>2. CASE Loaded(c) /\ SetBlock(c, Air) /\ ~Rejected
    <3>1. loaded' = loaded \cup {ChunkOf[c]}
      BY <2>2 DEF SetBlock
    <3>2. loaded' = loaded
      BY <2>2, <3>1 DEF Loaded
    <3> QED
      BY <2>2, <3>2 DEF SetBlock, Changes, BlockWritten
  <2> QED
    BY <1>2, <2>1, <2>2 DEF Remove
<1>3. ASSUME NEW t \in Targets, NEW p \in Properties, NEW v \in Values, SetProperty(t, p, v)
      PROVE  Rejected \/ PropertyWritten(t, p, v)
  BY <1>3 DEF SetProperty, PropertyWritten
<1> QED
  BY <1>1, <1>2, <1>3 DEF Next

-----------------------------------------------------------------------------
(* Type correctness.                                                       *)

\* Every step keeps the types.
LEMMA TypeStep ==
  ASSUME TypeOK, [Next]_vars
  PROVE  TypeOK'
<1> USE WorldAssumption DEF TypeOK, Overrides
<1>1. CASE Rejected
  BY <1>1 DEF Rejected, sink
<1>2. ASSUME NEW c \in Cells, NEW id \in BlockIds, BlockWritten(c, id)
      PROVE  TypeOK'
  <2>1. c \in Targets /\ ChunkOf[c] \in Chunks
    BY DEF Targets
  <2>2. Replaced(c) \in Overrides
    BY DEF Replaced, NoOverrides
  <2>3. ReplacedDeltas(c) \in [Properties -> Values \cup {None, Removed}]
    BY <2>1 DEF ReplacedDeltas
  <2> QED
    BY <1>2, <2>1, <2>2, <2>3 DEF BlockWritten
<1>3. ASSUME NEW t \in Targets, NEW p \in Properties, NEW v \in Values,
             PropertyWritten(t, p, v)
      PROVE  TypeOK'
  <2>1. NewEntry(t, p, v) \in Values \cup {None}
    BY DEF NewEntry
  <2>2. PropertyDelta(t, p, v) \in Values \cup {None, Removed}
    BY DEF PropertyDelta
  <2>3. stored' \in [Targets -> Overrides]
    BY <1>3, <2>1 DEF PropertyWritten
  <2>4. propDelta' \in [Targets -> [Properties -> Values \cup {None, Removed}]]
    BY <1>3, <2>2 DEF PropertyWritten
  <2>5. dirty' \subseteq Chunks /\ dirty \subseteq dirty'
    BY <1>3 DEF PropertyWritten
  <2> QED
    BY <1>3, <2>3, <2>4, <2>5 DEF PropertyWritten
<1>4. ASSUME NEW k \in Chunks, Load(k)
      PROVE  TypeOK'
  <2>1. NoOverrides \in Overrides
    BY DEF NoOverrides
  <2> QED
    BY <1>4, <2>1 DEF Load, sink
<1>5. ASSUME NEW k \in Chunks, Evict(k)
      PROVE  TypeOK'
  <2>1. NoOverrides \in Overrides
    BY DEF NoOverrides
  <2> QED
    BY <1>5, <2>1 DEF Evict, sink
<1>6. CASE UNCHANGED vars
  BY <1>6 DEF vars, sink
<1> QED
  BY <1>1, <1>2, <1>3, <1>4, <1>5, <1>6, StepKinds

\* Every variable of the world state and of the sink keeps its type.
THEOREM TypeCorrect == Spec => []TypeOK
<1>1. Init => TypeOK
  BY WorldAssumption DEF Init, TypeOK, Overrides, NoOverrides
<1>2. TypeOK /\ [Next]_vars => TypeOK'
  BY TypeStep
<1> QED
  BY <1>1, <1>2, PTL DEF Spec

-----------------------------------------------------------------------------
(* No override without an owner.                                           *)

\* The override of t for p is one the object at t can have.
Owned(t, p) == stored[t][p] # None => /\ Has(t, p)
                                      /\ stored[t][p] \in Fits[p]
                                      /\ stored[t][p] # DefaultOf(t, p)

\* A step that leaves the object at t and its override alone.
LEMMA OwnedLocal ==
  ASSUME NEW t \in Targets, NEW p \in Properties, Owned(t, p),
         t \in Cells => (Loaded(t)' <=> Loaded(t)) /\ block'[t] = block[t],
         stored'[t] = stored[t]
  PROVE  Owned(t, p)'
<1>1. Has(t, p)' <=> Has(t, p)
  BY DEF Has
<1>2. DefaultOf(t, p)' = DefaultOf(t, p)
  BY DEF DefaultOf, LogicalDefaultFor
<1> QED
  BY <1>1, <1>2 DEF Owned

\* Every step keeps the overrides owned.
LEMMA OwnedStep ==
  ASSUME TypeOK, NoZombieOverrides, [Next]_vars
  PROVE  NoZombieOverrides'
<1> USE WorldAssumption
<1> SUFFICES ASSUME NEW t \in Targets, NEW p \in Properties
             PROVE  Owned(t, p)'
  BY DEF NoZombieOverrides, Owned
<1>0. Owned(t, p)
  BY DEF NoZombieOverrides, Owned
<1>t. stored \in [Targets -> [Properties -> Values \cup {None}]] /\ block \in [Cells -> BlockIds]
  BY DEF TypeOK, Overrides
<1>1. CASE Rejected
  BY <1>0, <1>1, OwnedLocal DEF Rejected, Loaded
<1>2. ASSUME NEW c \in Cells, NEW id \in BlockIds, BlockWritten(c, id)
      PROVE  Owned(t, p)'
  <2>1. CASE t = c
    <3>1. stored'[t][p] = None
      BY <1>2, <2>1, <1>t DEF BlockWritten, Replaced, NoOverrides
    <3> QED
      BY <3>1 DEF Owned
  <2>2. CASE t # c
    <3>1. stored'[t] = stored[t]
      BY <1>2, <2>2, <1>t DEF BlockWritten
    <3>2. t \in Cells => (Loaded(t)' <=> Loaded(t)) /\ block'[t] = block[t]
      BY <1>2, <2>2, <1>t DEF BlockWritten, Loaded
    <3> QED
      BY <1>0, <3>1, <3>2, OwnedLocal
  <2> QED
    BY <2>1, <2>2
<1>3. ASSUME NEW u \in Targets, NEW q \in Properties, NEW v \in Values,
             PropertyWritten(u, q, v)
      PROVE  Owned(t, p)'
  <2>1. Loaded(t)' <=> Loaded(t)
    BY <1>3 DEF PropertyWritten, Loaded
  <2>2. block' = block
    BY <1>3 DEF PropertyWritten
  <2>3. CASE t = u /\ p = q
    <3>1. stored'[t][p] = NewEntry(t, p, v)
      BY <1>3, <2>3, <1>t DEF PropertyWritten
    <3>2. Has(t, p) /\ v \in Fits[p]
      BY <1>3, <2>3 DEF PropertyWritten, Writable
    <3>3. Has(t, p)'
      BY <3>2, <2>1, <2>2 DEF Has
    <3>4. DefaultOf(t, p)' = DefaultOf(t, p)
      BY <2>2 DEF DefaultOf, LogicalDefaultFor
    <3> QED
      BY <3>1, <3>2, <3>3, <3>4 DEF Owned, NewEntry
  <2>4. CASE t # u \/ p # q
    <3>1. stored'[t][p] = stored[t][p]
      BY <1>3, <2>4, <1>t DEF PropertyWritten
    <3>2. Has(t, p)' <=> Has(t, p)
      BY <2>1, <2>2 DEF Has
    <3>3. DefaultOf(t, p)' = DefaultOf(t, p)
      BY <2>2 DEF DefaultOf, LogicalDefaultFor
    <3> QED
      BY <1>0, <3>1, <3>2, <3>3 DEF Owned
  <2> QED
    BY <2>3, <2>4
<1>4. ASSUME NEW k \in Chunks, Load(k) \/ Evict(k)
      PROVE  Owned(t, p)'
  <2>1. CASE t \in Cells /\ ChunkOf[t] = k
    <3>1. stored'[t][p] = None
      BY <1>4, <2>1 DEF Load, Evict, NoOverrides
    <3> QED
      BY <3>1 DEF Owned
  <2>2. CASE ~(t \in Cells /\ ChunkOf[t] = k)
    <3>1. stored'[t] = stored[t]
      BY <1>4, <2>2 DEF Load, Evict
    <3>2. t \in Cells => (Loaded(t)' <=> Loaded(t)) /\ block'[t] = block[t]
      BY <1>4, <2>2 DEF Load, Evict, Loaded
    <3> QED
      BY <1>0, <3>1, <3>2, OwnedLocal
  <2> QED
    BY <2>1, <2>2
<1>5. CASE UNCHANGED vars
  BY <1>0, <1>5, OwnedLocal DEF vars, Loaded
<1> QED
  BY <1>1, <1>2, <1>3, <1>4, <1>5, StepKinds

\* No override outlives the block, the chunk or the default it belongs to.
THEOREM NoZombies == Spec => []NoZombieOverrides
<1>1. Init => TypeOK /\ NoZombieOverrides
  BY WorldAssumption DEF Init, TypeOK, Overrides, NoOverrides, NoZombieOverrides
<1>2. TypeOK /\ NoZombieOverrides /\ [Next]_vars => (TypeOK /\ NoZombieOverrides)'
  BY TypeStep, OwnedStep
<1> QED
  BY <1>1, <1>2, PTL DEF Spec

\* Together with the types.
THEOREM OverridesSafe == Spec => []OverridesInv
BY TypeCorrect, NoZombies, PTL DEF OverridesInv

-----------------------------------------------------------------------------
(* A block is removed before another one takes its place.                  *)

\* No step exchanges one block for another in a chunk that stays.
THEOREM NoOverwrites == Spec => NoSilentOverwrite
<1> DEFINE Polite == \A c \in Cells : Loaded(c) /\ Loaded(c)' /\ block[c] # Air
                                        => block'[c] \in {block[c], Air}
<1>1. ASSUME TypeOK, Next
      PROVE  Polite
  <2> SUFFICES ASSUME NEW c \in Cells, Loaded(c), Loaded(c)', block[c] # Air
               PROVE  block'[c] \in {block[c], Air}
    OBVIOUS
  <2>1. CASE Rejected
    BY <2>1 DEF Rejected
  <2>2. ASSUME NEW d \in Cells, NEW id \in BlockIds, BlockWritten(d, id)
        PROVE  block'[c] \in {block[c], Air}
    BY <1>1, <2>2 DEF BlockWritten, TypeOK
  <2>3. ASSUME NEW t \in Targets, NEW p \in Properties, NEW v \in Values,
               PropertyWritten(t, p, v)
        PROVE  block'[c] \in {block[c], Air}
    BY <2>3 DEF PropertyWritten
  <2>4. ASSUME NEW k \in Chunks, Load(k) \/ Evict(k)
        PROVE  block'[c] \in {block[c], Air}
    BY <2>4 DEF Load, Evict, Loaded
  <2> QED
    BY <1>1, <2>1, <2>2, <2>3, <2>4, StepKinds
<1>2. TypeOK /\ [Next]_vars => [Polite]_vars
  BY <1>1
<1> QED
  BY <1>2, TypeCorrect, PTL DEF Spec, NoSilentOverwrite

-----------------------------------------------------------------------------
(* The sink and the world.                                                 *)

\* BasePlusDeltasIsWorld speaks of loaded chunks only.  When a chunk is
\* loaded again it matters that a chunk which is neither loaded nor lost has
\* no delta: every delta has its chunk marked dirty.
DirtyAccounted ==
  /\ dirty \subseteq loaded \cup lost
  /\ \A c \in Cells : ChunkOf[c] \notin dirty =>
       blockDelta[c] = None /\ \A p \in Properties : propDelta[c][p] = None

MirrorInv == TypeOK /\ BasePlusDeltasIsWorld /\ DirtyAccounted

\* The first states satisfy the invariant.
LEMMA MirrorInit == Init => MirrorInv
<1> SUFFICES ASSUME Init
             PROVE  MirrorInv
  OBVIOUS
<1> USE WorldAssumption
<1>1. TypeOK
  BY DEF Init, TypeOK, Overrides, NoOverrides
<1>2. \A t \in Targets, p \in Properties : stored[t][p] = None /\ propDelta[t][p] = None
  BY DEF Init, NoOverrides
<1>3. BasePlusDeltasIsWorld
  BY <1>2 DEF Init, BasePlusDeltasIsWorld, Kept, Loaded, FinalValue
<1>4. DirtyAccounted
  BY <1>2 DEF Init, DirtyAccounted, Targets
<1> QED
  BY <1>1, <1>3, <1>4 DEF MirrorInv

\* A block write is recorded with the overrides it removes.
LEMMA MirrorBlock ==
  ASSUME MirrorInv, NEW c \in Cells, NEW id \in BlockIds, BlockWritten(c, id)
  PROVE  BasePlusDeltasIsWorld' /\ DirtyAccounted'
<1> USE WorldAssumption DEF MirrorInv, TypeOK, Overrides
<1>0. c \in Targets /\ Loaded(c)
  BY DEF Targets, BlockWritten
<1>1. ASSUME NEW t \in Targets
      PROVE  Kept(t)' <=> Kept(t)
  BY DEF BlockWritten, Kept, Loaded
<1>2. ASSUME NEW d \in Cells, Kept(d)
      PROVE  block'[d] = FinalBlock(d)'
  <2>1. block[d] = FinalBlock(d)
    BY <1>2 DEF BasePlusDeltasIsWorld
  <2> QED
    BY <2>1 DEF BlockWritten, FinalBlock
<1>3. ASSUME NEW t \in Targets, NEW p \in Persist, Kept(t)
      PROVE  stored'[t][p] = FinalValue(t, p)'
  <2>1. stored[t][p] = FinalValue(t, p)
    BY <1>3 DEF BasePlusDeltasIsWorld
  <2>2. CASE t = c
    <3>1. stored'[t][p] = None
      BY <1>0, <2>2 DEF BlockWritten, Replaced, NoOverrides
    <3>2. propDelta'[t][p] = IF stored[t][p] # None THEN Removed ELSE propDelta[t][p]
      BY <1>0, <2>2 DEF BlockWritten, ReplacedDeltas
    <3> QED
      BY <2>1, <3>1, <3>2 DEF FinalValue
  <2>3. CASE t # c
    BY <2>1, <2>3 DEF BlockWritten, FinalValue
  <2> QED
    BY <2>2, <2>3
<1>4. ASSUME NEW t \in Targets, NEW p \in Properties \ Persist
      PROVE  propDelta'[t][p] = None
  <2>1. propDelta[t][p] = None
    BY DEF BasePlusDeltasIsWorld
  <2> QED
    BY <1>0, <2>1 DEF BlockWritten, ReplacedDeltas
<1>5. BasePlusDeltasIsWorld'
  BY <1>1, <1>2, <1>3, <1>4 DEF BasePlusDeltasIsWorld, Targets
<1>6. DirtyAccounted'
  <2>1. dirty' \subseteq loaded' \cup lost'
    BY <1>0 DEF BlockWritten, DirtyAccounted, Loaded
  <2>2. ASSUME NEW d \in Cells, ChunkOf[d] \notin dirty'
        PROVE  blockDelta'[d] = None /\ \A p \in Properties : propDelta'[d][p] = None
    <3>1. d # c /\ ChunkOf[d] \notin dirty
      BY <2>2 DEF BlockWritten
    <3>2. blockDelta'[d] = blockDelta[d] /\ propDelta'[d] = propDelta[d]
      BY <3>1 DEF BlockWritten, Targets
    <3> QED
      BY <3>1, <3>2 DEF DirtyAccounted
  <2> QED
    BY <2>1, <2>2 DEF DirtyAccounted
<1> QED
  BY <1>5, <1>6

\* A property write is recorded where its sidecar type persists.
LEMMA MirrorProperty ==
  ASSUME MirrorInv, NEW u \in Targets, NEW q \in Properties, NEW v \in Values,
         PropertyWritten(u, q, v)
  PROVE  BasePlusDeltasIsWorld' /\ DirtyAccounted'
<1> USE WorldAssumption DEF MirrorInv, TypeOK, Overrides
<1>1. ASSUME NEW t \in Targets
      PROVE  Kept(t)' <=> Kept(t)
  BY DEF PropertyWritten, Kept, Loaded
<1>2. ASSUME NEW d \in Cells, Kept(d)
      PROVE  block'[d] = FinalBlock(d)'
  BY <1>2 DEF PropertyWritten, BasePlusDeltasIsWorld, FinalBlock
<1>3. \A t \in Targets, p \in Properties :
        /\ stored'[t][p] = IF t = u /\ p = q THEN NewEntry(u, q, v) ELSE stored[t][p]
        /\ propDelta'[t][p] = IF t = u /\ p = q THEN PropertyDelta(u, q, v) ELSE propDelta[t][p]
  BY DEF PropertyWritten
<1>4. ASSUME NEW t \in Targets, NEW p \in Persist, Kept(t)
      PROVE  stored'[t][p] = FinalValue(t, p)'
  <2>1. stored[t][p] = FinalValue(t, p)
    BY <1>4 DEF BasePlusDeltasIsWorld
  <2>2. CASE t = u /\ p = q
    <3>1. PropertyDelta(u, q, v) = IF v = DefaultOf(u, q) THEN Removed ELSE v
      BY <2>2 DEF PropertyDelta
    <3> QED
      BY <1>3, <2>2, <3>1 DEF NewEntry, FinalValue
  <2>3. CASE ~(t = u /\ p = q)
    BY <1>3, <2>1, <2>3 DEF FinalValue
  <2> QED
    BY <2>2, <2>3
<1>5. q \notin Persist => PropertyDelta(u, q, v) = propDelta[u][q]
  BY DEF PropertyDelta
<1>6. ASSUME NEW t \in Targets, NEW p \in Properties \ Persist
      PROVE  propDelta'[t][p] = None
  BY <1>3, <1>5 DEF BasePlusDeltasIsWorld
<1>7. BasePlusDeltasIsWorld'
  BY <1>1, <1>2, <1>4, <1>6 DEF BasePlusDeltasIsWorld, Targets
<1>8. DirtyAccounted'
  <2>1. u \in Cells => Loaded(u)
    BY DEF PropertyWritten, Writable, Has
  <2>2. dirty' \subseteq loaded' \cup lost'
    BY <2>1 DEF PropertyWritten, DirtyAccounted, Loaded
  <2>3. ASSUME NEW d \in Cells, ChunkOf[d] \notin dirty'
        PROVE  blockDelta'[d] = None /\ \A p \in Properties : propDelta'[d][p] = None
    <3>1. ChunkOf[d] \notin dirty
      BY <2>3 DEF PropertyWritten
    <3>2. d = u => q \notin Persist
      BY <2>3 DEF PropertyWritten
    <3>3. \A p \in Properties : propDelta'[d][p] = propDelta[d][p]
      BY <1>3, <1>5, <3>2 DEF Targets
    <3> QED
      BY <3>1, <3>3 DEF DirtyAccounted, PropertyWritten
  <2> QED
    BY <2>2, <2>3 DEF DirtyAccounted
<1> QED
  BY <1>7, <1>8

\* Worldgen fills a chunk that has no delta, or one that is lost.
LEMMA MirrorLoad ==
  ASSUME MirrorInv, NEW k \in Chunks, Load(k)
  PROVE  BasePlusDeltasIsWorld' /\ DirtyAccounted'
<1> USE WorldAssumption DEF MirrorInv, TypeOK, Overrides
<1>1. UNCHANGED <<blockDelta, propDelta, dirty, lost>>
  BY DEF Load, sink
<1>2. k \notin lost => k \notin dirty
  BY DEF Load, DirtyAccounted
<1>3. ASSUME NEW t \in Targets, Kept(t)', ~(t \in Cells /\ ChunkOf[t] = k)
      PROVE  Kept(t) /\ stored'[t] = stored[t] /\ (t \in Cells => block'[t] = block[t])
  BY <1>1, <1>3 DEF Load, Kept, Loaded
<1>4. ASSUME NEW d \in Cells, Kept(d)'
      PROVE  block'[d] = FinalBlock(d)'
  <2>1. CASE ChunkOf[d] = k
    <3>1. blockDelta[d] = None
      BY <1>1, <1>2, <1>4, <2>1 DEF Kept, DirtyAccounted
    <3> QED
      BY <1>1, <2>1, <3>1 DEF Load, FinalBlock
  <2>2. CASE ChunkOf[d] # k
    BY <1>1, <1>3, <1>4, <2>2 DEF BasePlusDeltasIsWorld, FinalBlock, Targets
  <2> QED
    BY <2>1, <2>2
<1>5. ASSUME NEW t \in Targets, NEW p \in Persist, Kept(t)'
      PROVE  stored'[t][p] = FinalValue(t, p)'
  <2>1. CASE t \in Cells /\ ChunkOf[t] = k
    <3>1. propDelta[t][p] = None
      BY <1>1, <1>2, <1>5, <2>1 DEF Kept, DirtyAccounted
    <3>2. stored'[t][p] = None
      BY <2>1 DEF Load, NoOverrides
    <3> QED
      BY <1>1, <3>1, <3>2 DEF FinalValue
  <2>2. CASE ~(t \in Cells /\ ChunkOf[t] = k)
    BY <1>1, <1>3, <1>5, <2>2 DEF BasePlusDeltasIsWorld, FinalValue
  <2> QED
    BY <2>1, <2>2
<1>6. BasePlusDeltasIsWorld'
  BY <1>1, <1>4, <1>5 DEF BasePlusDeltasIsWorld
<1>7. DirtyAccounted'
  BY <1>1 DEF Load, DirtyAccounted
<1> QED
  BY <1>6, <1>7

\* An evicted chunk is no longer spoken of.
LEMMA MirrorEvict ==
  ASSUME MirrorInv, NEW k \in Chunks, Evict(k)
  PROVE  BasePlusDeltasIsWorld' /\ DirtyAccounted'
<1> USE WorldAssumption DEF MirrorInv, TypeOK, Overrides
<1>1. UNCHANGED <<blockDelta, propDelta, dirty>>
  BY DEF Evict, sink
<1>2. ASSUME NEW t \in Targets, Kept(t)'
      PROVE  Kept(t) /\ stored'[t] = stored[t] /\ (t \in Cells => block'[t] = block[t])
  BY <1>2 DEF Evict, Kept, Loaded
<1>3. ASSUME NEW d \in Cells, Kept(d)'
      PROVE  block'[d] = FinalBlock(d)'
  BY <1>1, <1>2, <1>3 DEF BasePlusDeltasIsWorld, FinalBlock, Targets
<1>4. ASSUME NEW t \in Targets, NEW p \in Persist, Kept(t)'
      PROVE  stored'[t][p] = FinalValue(t, p)'
  BY <1>1, <1>2, <1>4 DEF BasePlusDeltasIsWorld, FinalValue
<1>5. BasePlusDeltasIsWorld'
  BY <1>1, <1>3, <1>4 DEF BasePlusDeltasIsWorld
<1>6. DirtyAccounted'
  BY <1>1 DEF Evict, DirtyAccounted
<1> QED
  BY <1>5, <1>6

\* Worldgen output plus the recorded deltas is the world, for every set of
\* chunks, blocks, properties and defaults.
THEOREM Mirrors == Spec => []BasePlusDeltasIsWorld
<1>1. MirrorInv /\ [Next]_vars => MirrorInv'
  <2> SUFFICES ASSUME MirrorInv, [Next]_vars
               PROVE  MirrorInv'
    OBVIOUS
  <2>1. TypeOK'
    BY TypeStep DEF MirrorInv
  <2>2. BasePlusDeltasIsWorld' /\ DirtyAccounted'
    <3>1. CASE Rejected \/ UNCHANGED vars
      BY <3>1 DEF MirrorInv, Rejected, vars, sink, BasePlusDeltasIsWorld, DirtyAccounted,
                  Kept, Loaded, FinalBlock, FinalValue
    <3>2. CASE Next
      BY <3>1, <3>2, StepKinds, MirrorBlock, MirrorProperty, MirrorLoad, MirrorEvict
         DEF MirrorInv
    <3> QED
      BY <3>1, <3>2
  <2> QED
    BY <2>1, <2>2 DEF MirrorInv
<1>2. MirrorInv => BasePlusDeltasIsWorld
  BY DEF MirrorInv
<1> QED
  BY <1>1, <1>2, MirrorInit, PTL DEF Spec

-----------------------------------------------------------------------------
(* What a reader sees of a command.                                        *)

\* After a write at t the stored entry stands for v: the value itself, or
\* nothing where v is the default of the object.
LEMMA ReadsBack ==
  ASSUME TypeOK, NEW t \in Targets, NEW p \in Properties, NEW v \in Values, Has(t, p),
         stored'[t][p] = NewEntry(t, p, v), UNCHANGED <<loaded, block>>
  PROVE  Get(t, p)' = v
<1>1. Has(t, p)' /\ DefaultOf(t, p)' = DefaultOf(t, p)
  BY DEF Has, Loaded, DefaultOf, LogicalDefaultFor
<1>2. v # None
  BY WorldAssumption
<1> QED
  BY <1>1, <1>2 DEF Get, NewEntry

\* A block write changes what is read at its cell.
LEMMA BlockSeen ==
  ASSUME TypeOK, NEW c \in Cells, NEW id \in BlockIds, BlockWritten(c, id)
  PROVE  View' # View
<1>1. BlockAt(c) = block[c] /\ BlockAt(c)' = id /\ id # block[c]
  BY DEF BlockWritten, BlockAt, Loaded, TypeOK
<1>2. View.cells[c] = BlockAt(c) /\ View'.cells[c] = BlockAt(c)'
  BY DEF View
<1> QED
  BY <1>1, <1>2

\* A property write changes what is read at its target: this is where the
\* sparse storage could show, since a write of the default removes an entry.
LEMMA PropertySeen ==
  ASSUME TypeOK, NoZombieOverrides, NEW t \in Targets, NEW p \in Properties, NEW v \in Values,
         PropertyWritten(t, p, v)
  PROVE  View' # View
<1>1. /\ Has(t, p) /\ NewEntry(t, p, v) # stored[t][p] /\ UNCHANGED <<loaded, block>>
      /\ stored' = [stored EXCEPT ![t][p] = NewEntry(t, p, v)]
  BY DEF PropertyWritten, Writable
<1>2. stored'[t][p] = NewEntry(t, p, v)
  BY <1>1 DEF TypeOK, Overrides
<1>3. Get(t, p)' = v
  BY <1>1, <1>2, ReadsBack
<1>4. stored[t][p] # None => stored[t][p] # DefaultOf(t, p)
  BY DEF NoZombieOverrides
<1>5. Get(t, p) # v
  BY <1>1, <1>4 DEF Get, NewEntry
<1>6. View.properties[t][p] = Get(t, p) /\ View'.properties[t][p] = Get(t, p)'
  BY DEF View
<1> QED
  BY <1>3, <1>5, <1>6

\* A command answers "accepted" exactly when a reader of the world can tell:
\* neither the sparse storage nor the defaults show through the answer.
THEOREM AnswersTrue == Spec => AcceptedIffVisible
<1> DEFINE A == /\ reply' = "accepted" => View' # View
                /\ reply' = "rejected" => View' = View
<1>1. ASSUME OverridesInv, Next
      PROVE  A
  <2>0. TypeOK /\ NoZombieOverrides
    BY <1>1 DEF OverridesInv
  <2>1. CASE Rejected
    <3>1. View' = View
      BY <2>1 DEF Rejected, View, BlockAt, Loaded, Get, Has, DefaultOf, LogicalDefaultFor
    <3> QED
      BY <2>1, <3>1 DEF Rejected
  <2>2. ASSUME NEW c \in Cells, NEW id \in BlockIds, BlockWritten(c, id)
        PROVE  A
    BY <2>0, <2>2, BlockSeen DEF BlockWritten
  <2>3. ASSUME NEW t \in Targets, NEW p \in Properties, NEW v \in Values, PropertyWritten(t, p, v)
        PROVE  A
    BY <2>0, <2>3, PropertySeen DEF PropertyWritten
  <2>4. ASSUME NEW k \in Chunks, Load(k) \/ Evict(k)
        PROVE  A
    BY <2>4 DEF Load, Evict
  <2> QED
    BY <1>1, <2>0, <2>1, <2>2, <2>3, <2>4, StepKinds
<1>2. OverridesInv /\ [Next]_vars => [A]_vars
  BY <1>1
<1> QED
  BY <1>2, OverridesSafe, PTL DEF Spec, AcceptedIffVisible

\* A write the object supports is what is read next, whatever the answer was:
\* one that is rejected as no change found that value there already.
THEOREM WritesRead == Spec => WriteThenRead
<1> DEFINE A == \A t \in Targets, p \in Properties, v \in Values :
                  SetProperty(t, p, v) /\ Has(t, p) /\ v \in Fits[p] => Get(t, p)' = v
<1>1. ASSUME TypeOK, Next
      PROVE  A
  <2> SUFFICES ASSUME NEW t \in Targets, NEW p \in Properties, NEW v \in Values,
                      SetProperty(t, p, v), Has(t, p), v \in Fits[p]
               PROVE  Get(t, p)' = v
    OBVIOUS
  <2>1. CASE Writable(t, p, v)
    <3>1. stored' = [stored EXCEPT ![t][p] = NewEntry(t, p, v)] /\ UNCHANGED <<loaded, block>>
      BY <2>1 DEF SetProperty
    <3>2. stored'[t][p] = NewEntry(t, p, v)
      BY <1>1, <3>1 DEF TypeOK, Overrides
    <3> QED
      BY <1>1, <3>1, <3>2, ReadsBack
  <2>2. CASE ~Writable(t, p, v)
    <3>1. stored[t][p] = NewEntry(t, p, v)
      BY <2>2 DEF Writable
    <3>2. UNCHANGED <<loaded, block, stored>>
      BY <2>2 DEF SetProperty, Rejected
    <3>3. stored'[t][p] = NewEntry(t, p, v)
      BY <3>1, <3>2
    <3> QED
      BY <1>1, <3>2, <3>3, ReadsBack
  <2> QED
    BY <2>1, <2>2 DEF SetProperty
<1>2. TypeOK /\ [Next]_vars => [A]_vars
  BY <1>1
<1> QED
  BY <1>2, TypeCorrect, PTL DEF Spec, WriteThenRead
=============================================================================
