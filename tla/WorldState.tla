----------------------------- MODULE WorldState -----------------------------
(***************************************************************************)
(* src/world/state: the block and property state behind the world commands *)
(* (BlockCommandHandlers.cpp), its storage in the chunks and in the        *)
(* hierarchy store, and the sink that records its deltas.                  *)
(*                                                                         *)
(* Everything runs on the game thread: a step is one command, or one chunk *)
(* loaded or evicted by the streaming manager.  A property written at a    *)
(* block lives in the chunk of the block; one written at a higher tier     *)
(* (chunk ... sector) lives in the hierarchy store.                        *)
(***************************************************************************)
EXTENDS Integers

CONSTANTS Chunks, Cells, Tiers,  \* addresses of chunks, blocks, and other targets
          ChunkOf,               \* the chunk of a cell
          Scope,                 \* the scope of a target and of a property id
          Base,                  \* what worldgen puts in a cell
          BlockIds, Air,         \* the ids of the BlockIdTable
          RequestedIds,          \* ids that commands name, known or not
          Properties,            \* registered sidecar types
          Persist,               \* the ones with persist: true
          Values,
          Fits,                  \* valueFitsSidecarDef
          SidecarDefault,        \* SidecarDef::defaultValue
          Declared,              \* the properties a block's prototype declares
          PrototypeDefault,      \* PrototypePropertyDef::defaultValue
          None,                  \* nothing stored, nothing recorded
          Removed                \* a delta whose value is nullopt

Targets == Cells \cup Tiers

ASSUME WorldAssumption ==
  /\ ChunkOf \in [Cells -> Chunks]
  /\ Base \in [Cells -> BlockIds]
  /\ Air \in BlockIds
  /\ Persist \subseteq Properties
  /\ Fits \in [Properties -> SUBSET Values]
  /\ SidecarDefault \in [Properties -> Values]
  /\ \A p \in Properties : SidecarDefault[p] \in Fits[p]
  /\ Declared \in [BlockIds -> SUBSET Properties]
  /\ Declared[Air] = {}
  /\ PrototypeDefault \in [BlockIds -> [Properties -> Values]]
  /\ None \notin BlockIds
  /\ {None, Removed} \cap Values = {}
  /\ None # Removed
  /\ \A t \in Cells : Scope[t] = "block"
  /\ \A t \in Tiers : Scope[t] # "block"
  /\ Cells \cap Tiers = {}

VARIABLES loaded,     \* chunks in the ChunkManager
          block,      \* voxels of the loaded chunks (AIR elsewhere)
          stored,     \* the overrides: chunk sidecars and hierarchy bags
          blockDelta, \* mBlockDeltas, the new id of each
          propDelta,  \* mPropertyDeltas
          dirty,      \* mDirtyChunks
          reply,      \* the answer to the last command
          lost        \* chunks evicted since they became dirty (history)

sink == <<blockDelta, propDelta, dirty>>
vars == <<loaded, block, stored, sink, reply, lost>>

NoOverrides == [p \in Properties |-> None]

Init == /\ loaded = {}
        /\ block = [c \in Cells |-> Air]
        /\ stored = [t \in Targets |-> NoOverrides]
        /\ blockDelta = [c \in Cells |-> None]
        /\ propDelta = [t \in Targets |-> NoOverrides]
        /\ dirty = {}
        /\ reply = "none"
        /\ lost = {}
-----------------------------------------------------------------------------
(* Reading.                                                                *)

Loaded(c) == ChunkOf[c] \in loaded
BlockAt(c) == IF Loaded(c) THEN block[c] ELSE None

\* The prototype's default where it fits the sidecar type.
LogicalDefaultFor(id, p) ==
  IF PrototypeDefault[id][p] \in Fits[p] THEN PrototypeDefault[id][p] ELSE SidecarDefault[p]

\* has(): the scopes agree and a block declares the property.
Has(t, p) == /\ Scope[p] = Scope[t]
             /\ t \in Cells => /\ Loaded(t)
                               /\ block[t] # Air
                               /\ p \in Declared[block[t]]

DefaultOf(t, p) == IF t \in Cells THEN LogicalDefaultFor(block[t], p) ELSE SidecarDefault[p]

Get(t, p) == CASE ~Has(t, p) -> None
               [] Has(t, p) /\ stored[t][p] # None -> stored[t][p]
               [] OTHER -> DefaultOf(t, p)
-----------------------------------------------------------------------------
(* Mutations.                                                              *)

Rejected == /\ reply' = "rejected"
            /\ UNCHANGED <<loaded, block, stored, sink, lost>>

\* Sidecar and bag entries: the default is never stored.
\* Faulty variant: compares with the default of the sidecar type.
NewEntry_SidecarDefault(t, p, v) == IF v = SidecarDefault[p] THEN None ELSE v
NewEntry(t, p, v) == IF v = DefaultOf(t, p) THEN None ELSE v

\* Overrides left by a replaced block.
\* Faulty variant: they stay.
Replaced_Keeps(c) == stored[c]
Replaced(c) == NoOverrides

\* The deltas of the overrides that go with a replaced block.
ReplacedDeltas(c) ==
  [p \in Properties |-> IF p \in Persist /\ stored[c][p] # None THEN Removed
                                                               ELSE propDelta[c][p]]

Changes(c, id) == id \in BlockIds /\ block[c] # id

\* WorldState::setBlock.  An absent chunk would be created here, all AIR.
SetBlock(c, id) ==
  \/ /\ ~Changes(c, id)
     /\ Rejected
  \/ /\ Changes(c, id)
     /\ reply' = "accepted"
     /\ loaded' = loaded \cup {ChunkOf[c]}
     /\ block' = [block EXCEPT ![c] = id]
     /\ stored' = [stored EXCEPT ![c] = Replaced(c)]
     /\ propDelta' = [propDelta EXCEPT ![c] = ReplacedDeltas(c)]
     /\ blockDelta' = [blockDelta EXCEPT ![c] = id]
     /\ dirty' = dirty \cup {ChunkOf[c]}
     /\ UNCHANGED lost

\* core:block.place.  Faulty variant: places into chunks that are not loaded.
Placeable_Anywhere(c, id) == id # Air /\ BlockAt(c) \in {None, Air}
Placeable(c, id) == id # Air /\ BlockAt(c) = Air

Place(c, id) == \/ /\ ~Placeable(c, id)
                   /\ Rejected
                \/ /\ Placeable(c, id)
                   /\ SetBlock(c, id)

\* core:block.remove
Remove(c) == \/ /\ ~Loaded(c)
                /\ Rejected
             \/ /\ Loaded(c)
                /\ SetBlock(c, Air)

\* What the sink records for a property write.
PropertyDelta(t, p, v) == CASE p \notin Persist -> propDelta[t][p]
                            [] p \in Persist /\ v = DefaultOf(t, p) -> Removed
                            [] OTHER -> v

\* core:property.set, at the target's tier.
\* Faulty variant: a write of the stored value counts as a change.
Writable_Unchanged(t, p, v) == Has(t, p) /\ v \in Fits[p]
Writable(t, p, v) == Has(t, p) /\ v \in Fits[p] /\ NewEntry(t, p, v) # stored[t][p]

SetProperty(t, p, v) ==
  \/ /\ ~Writable(t, p, v)
     /\ Rejected
  \/ /\ Writable(t, p, v)
     /\ reply' = "accepted"
     /\ stored' = [stored EXCEPT ![t][p] = NewEntry(t, p, v)]
     /\ propDelta' = [propDelta EXCEPT ![t][p] = PropertyDelta(t, p, v)]
     /\ dirty' = IF t \in Cells /\ p \in Persist THEN dirty \cup {ChunkOf[t]} ELSE dirty
     /\ UNCHANGED <<loaded, block, blockDelta, lost>>
-----------------------------------------------------------------------------
(* Residency.                                                              *)

\* The streaming manager commits a generated chunk unless it is there.
Load(k) ==
  /\ k \notin loaded
  /\ loaded' = loaded \cup {k}
  /\ block' = [c \in Cells |-> IF ChunkOf[c] = k THEN Base[c] ELSE block[c]]
  /\ stored' = [t \in Targets |-> IF t \in Cells /\ ChunkOf[t] = k THEN NoOverrides
                                                                  ELSE stored[t]]
  /\ reply' = "none"
  /\ UNCHANGED <<sink, lost>>

\* Eviction drops the chunk with its voxels and sidecars.
Evict(k) ==
  /\ k \in loaded
  /\ loaded' = loaded \ {k}
  /\ block' = [c \in Cells |-> IF ChunkOf[c] = k THEN Air ELSE block[c]]
  /\ stored' = [t \in Targets |-> IF t \in Cells /\ ChunkOf[t] = k THEN NoOverrides
                                                                  ELSE stored[t]]
  /\ lost' = IF k \in dirty THEN lost \cup {k} ELSE lost
  /\ reply' = "none"
  /\ UNCHANGED sink

Next == \/ \E c \in Cells, id \in RequestedIds : Place(c, id)
        \/ \E c \in Cells : Remove(c)
        \/ \E t \in Targets, p \in Properties, v \in Values : SetProperty(t, p, v)
        \/ \E k \in Chunks : Load(k) \/ Evict(k)

Spec == Init /\ [][Next]_vars
-----------------------------------------------------------------------------
(* Properties.                                                             *)

Overrides == [Properties -> Values \cup {None}]

\* Every variable has its type.
TypeOK == /\ loaded \subseteq Chunks
          /\ block \in [Cells -> BlockIds]
          /\ stored \in [Targets -> Overrides]
          /\ blockDelta \in [Cells -> BlockIds \cup {None}]
          /\ propDelta \in [Targets -> [Properties -> Values \cup {None, Removed}]]
          /\ dirty \subseteq Chunks
          /\ reply \in {"none", "accepted", "rejected"}
          /\ lost \subseteq dirty

\* An override is stored only where the object that is there now has the
\* property, only a value that fits, and never the object's own default:
\* no entry outlives a replaced block or an evicted chunk (Chunk.h:47-60,
\* 101-104), and blocks with different defaults share a sidecar type.
NoZombieOverrides ==
  \A t \in Targets, p \in Properties :
    stored[t][p] # None => /\ Has(t, p)
                           /\ stored[t][p] \in Fits[p]
                           /\ stored[t][p] # DefaultOf(t, p)

FinalBlock(c) == IF blockDelta[c] = None THEN Base[c] ELSE blockDelta[c]
FinalValue(t, p) == IF propDelta[t][p] = Removed THEN None ELSE propDelta[t][p]
Kept(t) == t \in Cells => Loaded(t) /\ ChunkOf[t] \notin lost

\* Worldgen output plus the recorded deltas is the world, voxel by voxel and
\* property by property, as long as no dirty chunk was evicted: nothing is
\* mutated past the sink, nothing materializes a chunk worldgen did not fill,
\* and nothing transient is recorded.
BasePlusDeltasIsWorld ==
  /\ \A c \in Cells : Kept(c) => block[c] = FinalBlock(c)
  /\ \A t \in Targets, p \in Persist : Kept(t) => stored[t][p] = FinalValue(t, p)
  /\ \A t \in Targets, p \in Properties \ Persist : propDelta[t][p] = None

View == [cells |-> [c \in Cells |-> BlockAt(c)],
         properties |-> [t \in Targets |-> [p \in Properties |-> Get(t, p)]]]

\* A command answers "accepted" exactly when a reader of the world can tell:
\* the sparse storage and its defaults never show through the answer.
AcceptedIffVisible == [][/\ reply' = "accepted" => View' # View
                         /\ reply' = "rejected" => View' = View]_vars

\* Whatever the answer, a write the object supports is what is read next,
\* whoever wrote the sidecar before and with whichever default (ADR-028).
WriteThenRead ==
  [][\A t \in Targets, p \in Properties, v \in Values :
       SetProperty(t, p, v) /\ Has(t, p) /\ v \in Fits[p] => Get(t, p)' = v]_vars

\* A block is never overwritten by another one: it is removed first
\* (BlockCommandHandlers.cpp:63-65), or its chunk is evicted.
NoSilentOverwrite ==
  [][\A c \in Cells : Loaded(c) /\ Loaded(c)' /\ block[c] # Air
                        => block'[c] \in {block[c], Air}]_vars

\* The stored overrides in one invariant.
OverridesInv == TypeOK /\ NoZombieOverrides
=============================================================================
