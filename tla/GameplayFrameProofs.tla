-------------------------- MODULE GameplayFrameProofs --------------------------
(***************************************************************************)
(* A frame, for every content, every script and every order in which the   *)
(* chunks come: no start function runs twice, no bootstrap is half made or *)
(* waits for more than its cells (StartsOnce, PlacesAllOrNone,             *)
(* OnlyCellsWait), the host knows who speaks (CallersAreKnown), and after  *)
(* a budget abort only to-be-closed variables run (AbortsHold).            *)
(***************************************************************************)
EXTENDS GameplayFrame, WellFoundedInduction, TLAPS

Working == {"bootstrap", "placing", "starting"}

\* The bootstrap that the second loop or its start function is at.
At(b) == phase \in {"placing", "starting"} /\ boot = b

Count(b) == Len(Placements(b))

BootTypes == /\ boot \in 1..(Len(Bootstraps) + 1)
             /\ placing \in Nat \ {0}
             /\ complete \subseteq BootIds
             /\ block \in [Cells -> Contents]
             /\ starts \in [BootIds -> Nat]
             /\ placed \in [BootIds -> Nat]

\* The latch ends the work on bootstraps for good.
LatchHolds == phase \in Working => ~bootstrapFailed

\* What is neither complete nor being made was never touched, unless the latch
\* has fallen.
Untouched == \A b \in BootIds : \/ b \in complete
                                \/ bootstrapFailed
                                \/ At(b)
                                \/ starts[b] = 0 /\ placed[b] = 0

\* What is being made is at its place in the second loop, or at its one start;
\* the cells that the first loop found are still there.
InProgress ==
  phase \in {"placing", "starting"} =>
    /\ boot \in BootIds /\ boot \notin complete
    /\ starts[boot] = IF phase = "placing" THEN 0 ELSE 1
    /\ placed[boot] = IF phase = "placing" THEN placing - 1 ELSE Count(boot)
    /\ phase = "placing" => /\ placing <= Count(boot) + 1
                            /\ \A i \in 1..Count(boot) : block[Placements(boot)[i].cell] # Unloaded

Done == \A b \in BootIds : At(b) \/ (starts[b] <= 1 /\ placed[b] \in {0, Count(b)})

BootInv == BootTypes /\ LatchHolds /\ Untouched /\ InProgress /\ Done
-----------------------------------------------------------------------------
(* The host and the Lua state.                                             *)

\* A __close function at work interrupted something.
Held == {g \in Guards : g.kind = "closing" => g.held # "none"}

Frame == [principal : STRING, cause : Causes, guards : Seq(Held)]

\* A context with a cause is that of a handler or a start function, which has a
\* principal.
Entry == {c \in [principal : STRING, cause : Causes, budget : 0..Budget, exceeded : BOOLEAN,
                 replies : 0..MaxReplies] : c.cause # NoCause => c.principal # Nobody}

\* A message that a script may have made.
Sent == {m \in Message : /\ m.sender # Nobody
                         /\ ~m.finalizer => /\ m.sender = m.author
                                            /\ m.correlation \in {NoCause, m.authorCause}
                         /\ m.kind \in {"Command", "Event"}}

\* The context of a function is about that function.
Same(c, f) == c.principal = f.principal /\ c.cause = f.cause
Matches(fs, cs) == Len(cs) = Len(fs) /\ \A i \in 1..Len(fs) : Same(cs[i], fs[i])

StackInv == /\ lua \in Seq(Frame) /\ contexts \in Seq(Entry) /\ Matches(lua, contexts)
            /\ Len(contexts) <= MaxInvocationDepth

\* The rest of the state of the host: queues, results and ids.
HostInv == /\ raising \in Errors
           /\ replied \in 0..MaxReplies
           /\ hookCount \in 0..BudgetStep
           /\ inbound \in Seq(Sent) /\ scheduled \in Seq(Sent) /\ handoff \in Seq(Sent)
           /\ nextId \in 1..(MaxId + 1)
           /\ Len(inbound) <= InCapacity

LuaInv == StackInv /\ HostInv

\* The pre-flight of the pump left room for what the handler may reply.
PumpInv == /\ pumped \in {"Command", "Event"} /\ outbound \in 0..OutCapacity
           /\ phase = "handling" => Room(pumped)

FrameTypes == phase \in Phases /\ bootstrapFailed \in BOOLEAN /\ edits \in 0..MaxEdits

CallersInv == LuaInv /\ PumpInv /\ FrameTypes
-----------------------------------------------------------------------------
(* Bootstraps.                                                             *)

LEMMA PlacementIs ==
  ASSUME NEW b \in BootIds
  PROVE  /\ Count(b) \in Nat /\ DOMAIN Placements(b) = 1..Count(b)
         /\ Bootstraps[b].principal \in STRING \ {Nobody}
         /\ \A i \in 1..Count(b) : /\ Placements(b)[i].cell \in Cells
                                   /\ Placements(b)[i].id \in Contents \ {Unloaded}
<1> DEFINE Item == [cell : Cells, id : STRING \ {Air, Unloaded}, replace : BOOLEAN]
<1> DEFINE Boots == [principal : STRING \ {Nobody}, placements : Seq(Item)]
<1>1. Bootstraps[b] \in Boots
  <2>1. Bootstraps \in Seq(Boots)
    BY BootstrapsAssumption
  <2> HIDE DEF Boots
  <2> QED
    BY <2>1 DEF BootIds
<1>2. Bootstraps[b].principal \in STRING \ {Nobody} /\ Placements(b) \in Seq(Item)
  <2> HIDE DEF Item
  <2> QED
    BY <1>1 DEF Placements
<1>3. Count(b) \in Nat /\ DOMAIN Placements(b) = 1..Count(b)
      /\ \A i \in 1..Count(b) : Placements(b)[i] \in Item
  <2> HIDE DEF Item
  <2> QED
    BY <1>2 DEF Count
<1>4. ASSUME NEW i \in 1..Count(b)
      PROVE  Placements(b)[i].cell \in Cells /\ Placements(b)[i].id \in Contents \ {Unloaded}
  <2>1. Placements(b)[i] \in Item
    BY <1>3
  <2>2. Placements(b)[i].cell \in Cells /\ Placements(b)[i].id # Unloaded
    BY <2>1
  <2>3. Placements(b)[i].id \in {Placements(b)[j].id : j \in DOMAIN Placements(b)}
    BY <1>3
  <2> QED
    BY <2>2, <2>3 DEF Contents
<1> QED
  BY <1>2, <1>3, <1>4

LEMMA BootInit == ASSUME Init PROVE BootInv
<1>1. /\ phase = "load" /\ complete = {} /\ boot = 1 /\ placing = 1
      /\ block = [c \in Cells |-> Unloaded]
      /\ starts = [b \in BootIds |-> 0] /\ placed = [b \in BootIds |-> 0]
  BY DEF Init
<1>2. Len(Bootstraps) \in Nat
  BY BootstrapsAssumption
<1>3. BootTypes
  BY <1>1, <1>2 DEF BootTypes, Contents
<1>4. LatchHolds /\ Untouched /\ InProgress /\ Done
  BY <1>1 DEF LatchHolds, Untouched, InProgress, Done, Working
<1> QED
  BY <1>3, <1>4 DEF BootInv

\* A step that is not about bootstraps, or one of their scripts'.
LEMMA SameBoot ==
  ASSUME BootInv,
         UNCHANGED <<phase, bootstrapFailed, complete, boot, placing, block, starts, placed>>
  PROVE  BootInv'
BY DEF BootInv, BootTypes, LatchHolds, Untouched, InProgress, Done, At

\* A step from one part of the frame to another.
LEMMA ElsewhereBoot ==
  ASSUME BootInv, phase \notin {"placing", "starting"}, phase' \notin {"placing", "starting"},
         phase' = "bootstrap" => ~bootstrapFailed,
         boot' \in 1..(Len(Bootstraps) + 1), block' \in [Cells -> Contents],
         UNCHANGED <<bootstrapFailed, complete, placing, starts, placed>>
  PROVE  BootInv'
<1>1. BootTypes' /\ InProgress'
  BY DEF BootInv, BootTypes, InProgress
<1>2. LatchHolds'
  BY DEF BootInv, LatchHolds, Working
<1>3. Untouched' /\ Done'
  BY DEF BootInv, Untouched, Done, At
<1> QED
  BY <1>1, <1>2, <1>3 DEF BootInv

LEMMA StreamBoot ==
  ASSUME BootInv, LoadContent \/ PollEvents \/ View
  PROVE  BootInv'
<1>0. boot \in 1..(Len(Bootstraps) + 1) /\ block \in [Cells -> Contents] /\ 1 \in 1..(Len(Bootstraps) + 1)
  BY BootstrapsAssumption DEF BootInv, BootTypes
<1>1. CASE LoadContent
  BY <1>0, <1>1, ElsewhereBoot DEF LoadContent
<1>2. CASE PollEvents
  <2>1. /\ phase = "poll" /\ phase' \in {"view", "quit"}
        /\ UNCHANGED <<bootstrapFailed, complete, boot, placing, starts, placed>>
    BY <1>2 DEF PollEvents
  <2>2. block' \in [Cells -> Contents]
    BY <1>0, <1>2 DEF PollEvents, Contents
  <2> QED
    BY <1>0, <2>1, <2>2, ElsewhereBoot
<1>3. CASE View
  <2>1. phase = "view" /\ EndView /\ block' \in [Cells -> Contents]
    BY <1>0, <1>3 DEF View, ChunkCommitted, ChunkEvicted, NothingStreamed, Contents
  <2>2. CASE bootstrapFailed
    BY <1>0, <2>1, <2>2, ElsewhereBoot DEF EndView
  <2>3. CASE ~bootstrapFailed
    BY <1>0, <2>1, <2>3, ElsewhereBoot DEF EndView
  <2> QED
    BY <2>2, <2>3
<1> QED
  BY <1>1, <1>2, <1>3

LEMMA DrainBoot ==
  ASSUME BootInv, DrainDue \/ Pump \/ TimerDue
  PROVE  BootInv'
<1>1. boot \in 1..(Len(Bootstraps) + 1) /\ block \in [Cells -> Contents]
  BY DEF BootInv, BootTypes
<1>2. CASE phase' # phase
  <2>1. /\ phase \in {"drain", "pump", "handling"}
        /\ phase' \in {"message rejected", "pump", "backpressure", "handling", "handler failed", "poll"}
        /\ UNCHANGED <<bootstrapFailed, complete, boot, placing, block, starts, placed>>
    BY <1>2 DEF DrainDue, Pump, PumpOne, HandlerReturned, FrameDone, TimerDue
  <2> QED
    BY <1>1, <2>1, ElsewhereBoot
<1>3. CASE phase' = phase
  <2>1. UNCHANGED <<bootstrapFailed, complete, boot, placing, block, starts, placed>>
    BY DEF DrainDue, Pump, PumpOne, HandlerReturned, FrameDone, TimerDue
  <2> QED
    BY <1>3, <2>1, SameBoot
<1> QED
  BY <1>2, <1>3

\* Where a bootstrap was begun it was not begun before.
LEMMA CheckBoot ==
  ASSUME BootInv, CheckBootstrap
  PROVE  BootInv'
<1>1. /\ phase = "bootstrap" /\ boot \in BootIds
      /\ UNCHANGED <<complete, block, starts, placed>>
  BY DEF CheckBootstrap
<1>2. BootTypes /\ Len(Bootstraps) \in Nat
  BY BootstrapsAssumption DEF BootInv
<1>3. CASE boot' = boot + 1 /\ UNCHANGED <<phase, placing, bootstrapFailed>>
  <2>1. boot' \in 1..(Len(Bootstraps) + 1) /\ block' \in [Cells -> Contents]
    BY <1>1, <1>2, <1>3 DEF BootTypes, BootIds
  <2>2. phase' = "bootstrap" => ~bootstrapFailed
    BY <1>1 DEF BootInv, LatchHolds, Working
  <2> QED
    BY <1>1, <1>3, <2>1, <2>2, ElsewhereBoot
<1>4. CASE BootstrapFails /\ UNCHANGED <<boot, placing>>
  <2>1. BootTypes' /\ LatchHolds' /\ Untouched' /\ InProgress'
    BY <1>1, <1>2, <1>4 DEF BootTypes, LatchHolds, Untouched, InProgress, BootstrapFails, Working
  <2>2. Done'
    BY <1>1, <1>4 DEF BootInv, Done, At, BootstrapFails
  <2> QED
    BY <2>1, <2>2 DEF BootInv
<1>5. CASE /\ boot \notin complete /\ Problems(Placements(boot)) = {}
           /\ phase' = "placing" /\ placing' = 1 /\ UNCHANGED <<boot, bootstrapFailed>>
  <2>1. BootTypes'
    BY <1>1, <1>2, <1>5 DEF BootTypes
  <2>2. ~bootstrapFailed /\ LatchHolds'
    BY <1>1, <1>5 DEF BootInv, LatchHolds, Working
  <2>3. starts[boot] = 0 /\ placed[boot] = 0
    BY <1>1, <1>5, <2>2 DEF BootInv, Untouched, At
  <2>4. Untouched' /\ Done'
    BY <1>1, <1>5 DEF BootInv, Untouched, Done, At
  <2>5. \A i \in 1..Count(boot) : block[Placements(boot)[i].cell] # Unloaded
    BY <1>1, <1>5, PlacementIs DEF Problems
  <2>6. Count(boot) \in Nat
    BY <1>1, PlacementIs
  <2>7. InProgress'
    BY <1>1, <1>5, <2>3, <2>5, <2>6 DEF InProgress
  <2> QED
    BY <2>1, <2>2, <2>4, <2>7 DEF BootInv
<1> QED
  BY <1>3, <1>4, <1>5 DEF CheckBootstrap, NextBootstrap

\* No placement is refused: its cell is still there.
LEMMA PlaceBoot ==
  ASSUME BootInv, MakePlacement
  PROVE  BootInv'
<1> DEFINE p == Placements(boot)[placing]
<1>1. /\ phase = "placing" /\ boot \in BootIds /\ boot \notin complete
      /\ starts[boot] = 0 /\ placed[boot] = placing - 1 /\ placing \in 1..Count(boot)
      /\ Count(boot) \in Nat
      /\ \A i \in 1..Count(boot) : block[Placements(boot)[i].cell] # Unloaded
  BY PlacementIs DEF MakePlacement, BootInv, InProgress
<1>2. BootTypes /\ p.cell \in Cells /\ p.id \in Contents \ {Unloaded}
  BY <1>1, PlacementIs DEF BootInv
<1>3. /\ block' = [block EXCEPT ![p.cell] = p.id]
      /\ placed' = [placed EXCEPT ![boot] = @ + 1]
      /\ placing' = placing + 1
      /\ UNCHANGED <<phase, bootstrapFailed, complete, boot, starts>>
  BY <1>1 DEF MakePlacement
<1>4. BootTypes'
  <2>1. block' \in [Cells -> Contents]
    BY <1>2, <1>3 DEF BootTypes
  <2>2. placed' \in [BootIds -> Nat]
    BY <1>1, <1>2, <1>3 DEF BootTypes
  <2>3. placing' \in Nat \ {0}
    BY <1>1, <1>3
  <2> QED
    BY <1>2, <1>3, <2>1, <2>2, <2>3 DEF BootTypes
<1>5. \A b \in BootIds : b # boot => placed'[b] = placed[b]
  BY <1>2, <1>3 DEF BootTypes
<1>6. LatchHolds' /\ Untouched' /\ Done'
  <2> HIDE DEF p
  <2>1. LatchHolds'
    BY <1>3 DEF BootInv, LatchHolds
  <2>2. \A b \in BootIds : At(b)' <=> b = boot
    BY <1>1, <1>3 DEF At
  <2>3. Untouched'
    BY <1>3, <1>5, <2>2 DEF BootInv, Untouched, At
  <2>4. \A b \in BootIds : b = boot \/ (starts[b] <= 1 /\ placed[b] \in {0, Count(b)})
    BY DEF BootInv, Done, At
  <2>5. Done'
    BY <1>3, <1>5, <2>2, <2>4 DEF Done
  <2> QED
    BY <2>1, <2>3, <2>5
<1>7. \A i \in 1..Count(boot) : block'[Placements(boot)[i].cell] # Unloaded
  <2> HIDE DEF p
  <2>1. \A c \in Cells : block[c] # Unloaded => block'[c] # Unloaded
    BY <1>2, <1>3 DEF BootTypes
  <2>2. \A i \in 1..Count(boot) : Placements(boot)[i].cell \in Cells
    BY <1>1, PlacementIs
  <2> QED
    BY <1>1, <2>1, <2>2
<1>8. placed'[boot] = (placing + 1) - 1
  BY <1>1, <1>2, <1>3 DEF BootTypes
<1>9. InProgress'
  <2>1. placing + 1 <= Count(boot) + 1
    BY <1>1
  <2> QED
    BY <1>1, <1>3, <1>7, <1>8, <2>1 DEF InProgress
<1> QED
  BY <1>4, <1>6, <1>9 DEF BootInv

LEMMA StartBoot ==
  ASSUME BootInv, InvokeStart
  PROVE  BootInv'
<1>1. /\ phase = "placing" /\ boot \in BootIds /\ boot \notin complete
      /\ starts[boot] = 0 /\ placed[boot] = placing - 1 /\ placing \in Nat \ {0}
      /\ placing <= Count(boot) + 1 /\ Count(boot) \in Nat /\ placing \notin 1..Count(boot)
  BY PlacementIs DEF InvokeStart, BootInv, InProgress, BootTypes
<1>2. /\ phase' = "starting" /\ starts' = [starts EXCEPT ![boot] = @ + 1]
      /\ UNCHANGED <<bootstrapFailed, complete, boot, placing, block, placed>>
  BY DEF InvokeStart
<1>3. BootTypes
  BY DEF BootInv
<1>4. starts' \in [BootIds -> Nat] /\ starts'[boot] = 1
  BY <1>1, <1>2, <1>3 DEF BootTypes
<1>5. BootTypes'
  BY <1>2, <1>3, <1>4 DEF BootTypes
<1>6. \A b \in BootIds : b # boot => starts'[b] = starts[b]
  BY <1>2, <1>3 DEF BootTypes
<1>7. LatchHolds'
  BY <1>1, <1>2 DEF BootInv, LatchHolds, Working
<1>8. Untouched' /\ Done'
  BY <1>1, <1>2, <1>6 DEF BootInv, Untouched, Done, At
<1>9. placed[boot] = Count(boot)
  BY <1>1
<1>10. InProgress'
  BY <1>1, <1>2, <1>4, <1>9 DEF InProgress
<1> QED
  BY <1>5, <1>7, <1>8, <1>10 DEF BootInv

LEMMA ReturnBoot ==
  ASSUME BootInv, StartReturned
  PROVE  BootInv'
<1>1. /\ phase = "starting" /\ boot \in BootIds
      /\ starts[boot] = 1 /\ placed[boot] = Count(boot) /\ ~bootstrapFailed
      /\ UNCHANGED <<placing, block, starts, placed>>
  BY DEF StartReturned, BootInv, InProgress, LatchHolds, Working
<1>2. BootTypes /\ Len(Bootstraps) \in Nat
  BY BootstrapsAssumption DEF BootInv
<1>3. \A b \in BootIds : starts[b] <= 1 /\ placed[b] \in {0, Count(b)}
  BY <1>1 DEF BootInv, Done, At
<1>4. Done'
  BY <1>1, <1>3 DEF Done
<1>5. CASE complete' = complete \cup {boot} /\ boot' = boot + 1 /\ phase' = "bootstrap"
             /\ UNCHANGED bootstrapFailed
  <2>1. boot' \in 1..(Len(Bootstraps) + 1) /\ complete' \subseteq BootIds
    BY <1>1, <1>2, <1>5 DEF BootTypes, BootIds
  <2>2. BootTypes'
    BY <1>1, <1>2, <2>1 DEF BootTypes
  <2>3. LatchHolds' /\ InProgress' /\ Untouched'
    BY <1>1, <1>5 DEF BootInv, LatchHolds, InProgress, Untouched, At, Working
  <2> QED
    BY <1>4, <2>2, <2>3 DEF BootInv
<1>6. CASE BootstrapFails /\ UNCHANGED <<complete, boot>>
  <2>1. BootTypes' /\ LatchHolds' /\ Untouched' /\ InProgress'
    BY <1>1, <1>2, <1>6 DEF BootTypes, LatchHolds, Untouched, InProgress, BootstrapFails, Working
  <2> QED
    BY <1>4, <2>1 DEF BootInv
<1> QED
  BY <1>5, <1>6 DEF StartReturned

LEMMA BootNext ==
  ASSUME BootInv, [Next]_vars
  PROVE  BootInv'
<1>1. CASE LoadContent \/ PollEvents \/ View
  BY <1>1, StreamBoot
<1>2. CASE DrainDue \/ Pump \/ TimerDue
  BY <1>2, DrainBoot
<1>3. CASE CheckBootstrap \/ MakePlacement \/ InvokeStart \/ StartReturned
  BY <1>3, CheckBoot, PlaceBoot, StartBoot, ReturnBoot
<1>4. CASE BootstrapsUpdated
  <2>1. boot \in 1..(Len(Bootstraps) + 1) /\ block \in [Cells -> Contents]
    BY DEF BootInv, BootTypes
  <2> QED
    BY <1>4, <2>1, ElsewhereBoot DEF BootstrapsUpdated
<1>5. CASE Script \/ UNCHANGED vars
  BY <1>5, SameBoot DEF Script, vars, frameVars
<1> QED
  BY <1>1, <1>2, <1>3, <1>4, <1>5 DEF Next, GameThread, UpdateBootstraps

LEMMA BootHolds == Spec => []BootInv
BY BootInit, BootNext, PTL DEF Spec

\* A start function runs at most once in the life of the program: whatever the
\* chunks, the scripts and their errors do (updateBootstraps and the latch of
\* runFrameUpdate).
THEOREM StartsOnce == Spec => []StartedAtMostOnce
<1>1. BootInv => StartedAtMostOnce
  <2>1. ASSUME BootInv, NEW b \in BootIds
        PROVE  starts[b] <= 1
    <3>1. CASE At(b)
      BY <2>1, <3>1 DEF BootInv, InProgress, At
    <3>2. CASE ~At(b)
      BY <2>1, <3>2 DEF BootInv, Done
    <3> QED
      BY <3>1, <3>2
  <2> QED
    BY <2>1 DEF StartedAtMostOnce
<1> QED
  BY <1>1, BootHolds, PTL

\* A bootstrap is made as a whole or not at all, and once: the first loop of
\* updateBootstraps finds every cell that the second loop needs.
THEOREM PlacesAllOrNone == Spec => []PlacedAllOrNone
<1>1. BootInv => PlacedAllOrNone
  <2>1. ASSUME BootInv, NEW b \in BootIds
        PROVE  \/ placed[b] \in {0, Count(b)}
               \/ phase = "placing" /\ b = boot /\ placed[b] = placing - 1
    <3>1. CASE At(b)
      BY <2>1, <3>1 DEF BootInv, InProgress, At
    <3>2. CASE ~At(b)
      BY <2>1, <3>2 DEF BootInv, Done
    <3> QED
      BY <3>1, <3>2
  <2> QED
    BY <2>1 DEF PlacedAllOrNone, Count
<1> QED
  BY <1>1, BootHolds, PTL

\* What the loop has passed by waits for a cell, or is complete.
Waits(b) == \E i \in DOMAIN Placements(b) : block[Placements(b)[i].cell] = Unloaded
Passed == phase \in Working => \A b \in BootIds : b < boot => b \in complete \/ Waits(b)

LEMMA FirstOf ==
  ASSUME NEW S, S \subseteq Nat, S # {}
  PROVE  (CHOOSE i \in S : \A j \in S : i <= j) \in S
<1>1. PICK i \in S : \A j \in S : ~(<<j, i>> \in OpToRel(<, Nat))
  BY NatLessThanWellFounded, WFMin
<1>2. ASSUME NEW j \in S
      PROVE  i <= j
  <2>1. i \in Nat /\ j \in Nat
    OBVIOUS
  <2>2. ~(<<j, i>> \in OpToRel(<, Nat))
    BY <1>1
  <2> QED
    BY <2>1, <2>2 DEF OpToRel
<1> QED
  BY <1>2

LEMMA PassedNext ==
  ASSUME BootInv, Passed, [Next]_vars
  PROVE  Passed'
<1>1. BootTypes /\ Len(Bootstraps) \in Nat /\ boot \in Nat
  BY BootstrapsAssumption DEF BootInv, BootTypes
<1>2. CASE phase' \notin Working
  BY <1>2 DEF Passed
<1>3. CASE View
  BY <1>1, <1>3 DEF View, ChunkCommitted, ChunkEvicted, NothingStreamed, EndView, Passed, BootIds
<1>4. CASE UNCHANGED <<phase, boot, complete, block>>
  BY <1>4 DEF Passed, Waits
<1>5. CASE CheckBootstrap /\ phase' \in Working
  <2> DEFINE ps == Placements(boot)
             first == CHOOSE i \in Problems(ps) : \A j \in Problems(ps) : i <= j
  <2>1. phase = "bootstrap" /\ boot \in BootIds /\ UNCHANGED <<complete, block>>
    BY <1>5 DEF CheckBootstrap
  <2>2. CASE boot' = boot
    BY <2>1, <2>2 DEF Passed, Waits, Working
  <2>3. CASE boot' # boot
    <3>1. boot' = boot + 1 /\ (boot \in complete \/ (Problems(ps) # {} /\ ~Occupied(ps[first])))
      BY <1>5, <2>3 DEF CheckBootstrap, NextBootstrap, BootstrapFails
    <3>2. ASSUME Problems(ps) # {}, ~Occupied(ps[first])
          PROVE  Waits(boot)
      <4>1. Problems(ps) \subseteq Nat
        BY <2>1, PlacementIs DEF Problems
      <4> HIDE DEF ps
      <4>2. first \in Problems(ps)
        BY <3>2, <4>1, FirstOf
      <4> HIDE DEF first
      <4>3. first \in DOMAIN ps /\ block[ps[first].cell] = Unloaded
        BY <3>2, <4>2 DEF Problems
      <4> QED
        BY <4>3 DEF Waits, ps
    <3>3. ASSUME NEW b \in BootIds, b < boot'
          PROVE  b \in complete \/ Waits(b)
      <4>1. CASE b = boot
        BY <3>1, <3>2, <4>1
      <4>2. CASE b # boot
        <5>1. b < boot
          BY <1>1, <3>1, <3>3, <4>2 DEF BootIds
        <5> QED
          BY <2>1, <5>1 DEF Passed, Working
      <4> QED
        BY <4>1, <4>2
    <3> QED
      BY <2>1, <3>3 DEF Passed, Waits
  <2> QED
    BY <2>2, <2>3
<1>6. CASE MakePlacement
  <2>1. /\ phase = "placing" /\ UNCHANGED <<complete, boot>>
        /\ \/ block' = block
           \/ \E c, x : block[c] # Unloaded /\ block' = [block EXCEPT ![c] = x]
    BY <1>6 DEF MakePlacement
  <2>2. \A c \in Cells : block[c] = Unloaded => block'[c] = Unloaded
    BY <1>1, <2>1 DEF BootTypes
  <2>3. ASSUME NEW b \in BootIds, Waits(b)
        PROVE  Waits(b)'
    BY <2>2, <2>3, PlacementIs DEF Waits
  <2> QED
    BY <2>1, <2>3 DEF Passed, Working
<1>7. CASE InvokeStart
  BY <1>7 DEF InvokeStart, Passed, Waits, Working
<1>8. CASE StartReturned /\ phase' \in Working
  <2>1. /\ phase = "starting" /\ boot' = boot + 1 /\ complete' = complete \cup {boot}
        /\ block' = block
    BY <1>8 DEF StartReturned, BootstrapFails, Working
  <2>2. ASSUME NEW b \in BootIds, b < boot'
        PROVE  b \in complete' \/ Waits(b)
    <3>1. b = boot \/ b < boot
      BY <1>1, <2>1, <2>2 DEF BootIds
    <3> QED
      BY <2>1, <3>1 DEF Passed, Working
  <2> QED
    BY <2>1, <2>2 DEF Passed, Waits
<1>9. CASE Script \/ TimerDue \/ UNCHANGED vars
  BY <1>4, <1>9 DEF Script, TimerDue, vars, frameVars
<1>10. CASE LoadContent \/ PollEvents \/ DrainDue \/ Pump \/ BootstrapsUpdated
  <2>1. phase' \notin Working
    BY <1>10 DEF LoadContent, PollEvents, DrainDue, Pump, PumpOne, HandlerReturned, FrameDone,
                 BootstrapsUpdated, Working
  <2> QED
    BY <1>2, <2>1
<1> QED
  BY <1>2, <1>3, <1>5, <1>6, <1>7, <1>8, <1>9, <1>10 DEF Next, GameThread, UpdateBootstraps

\* A bootstrap that the loop of updateBootstraps leaves behind waits for a chunk
\* and for nothing else: not for one before it, nor for a cell that it may take.
THEOREM OnlyCellsWait == Spec => []OnlyMissingCellsWait
<1>1. Init => Passed
  BY DEF Init, Passed, Working
<1>2. BootInv /\ Passed => OnlyMissingCellsWait
  <2>1. ASSUME BootInv, Passed, phase = "bootstrap", boot \notin BootIds, NEW b \in BootIds
        PROVE  b < boot
    <3>1. boot \in 1..(Len(Bootstraps) + 1) /\ Len(Bootstraps) \in Nat
      BY <2>1, BootstrapsAssumption DEF BootInv, BootTypes
    <3> QED
      BY <2>1, <3>1 DEF BootIds
  <2> QED
    BY <2>1 DEF OnlyMissingCellsWait, Passed, Waits, Working
<1>3. Spec => [](BootInv /\ Passed)
  BY <1>1, BootInit, BootNext, PassedNext, PTL DEF Spec
<1> QED
  BY <1>2, <1>3, PTL
-----------------------------------------------------------------------------
(* Stacks.                                                                 *)

LEMMA FrontFacts ==
  ASSUME NEW T, NEW s \in Seq(T), s # <<>>
  PROVE  /\ Front(s) \in Seq(T) /\ Last(s) \in T
         /\ Len(s) \in Nat \ {0} /\ Len(Front(s)) = Len(s) - 1
         /\ \A i \in 1..(Len(s) - 1) : Front(s)[i] = s[i]
         /\ Last(s) = s[Len(s)]
BY DEF Front, Last

LEMMA PushFacts ==
  ASSUME NEW T, NEW s \in Seq(T), NEW x \in T
  PROVE  /\ Append(s, x) \in Seq(T) /\ Len(s) \in Nat /\ Len(Append(s, x)) = Len(s) + 1
         /\ \A i \in 1..Len(s) : Append(s, x)[i] = s[i]
         /\ Append(s, x)[Len(s) + 1] = x
OBVIOUS

LEMMA TopFacts ==
  ASSUME NEW T, NEW s \in Seq(T), s # <<>>, NEW x \in T
  PROVE  /\ SetTop(s, x) \in Seq(T) /\ Len(s) \in Nat \ {0} /\ Len(SetTop(s, x)) = Len(s)
         /\ \A i \in 1..(Len(s) - 1) : SetTop(s, x)[i] = s[i]
         /\ SetTop(s, x)[Len(s)] = x
<1>1. /\ Front(s) \in Seq(T) /\ Len(s) \in Nat \ {0} /\ Len(Front(s)) = Len(s) - 1
      /\ \A i \in 1..(Len(s) - 1) : Front(s)[i] = s[i]
  BY FrontFacts
<1>2. /\ SetTop(s, x) \in Seq(T) /\ Len(SetTop(s, x)) = Len(Front(s)) + 1
      /\ \A i \in 1..Len(Front(s)) : SetTop(s, x)[i] = Front(s)[i]
      /\ SetTop(s, x)[Len(Front(s)) + 1] = x
  BY <1>1, PushFacts DEF SetTop
<1> QED
  BY <1>1, <1>2

\* What the two stacks may do together: grow, shrink, and change at the top.
LEMMA GrowTogether ==
  ASSUME NEW fs \in Seq(Frame), NEW cs \in Seq(Entry), Matches(fs, cs),
         NEW f \in Frame, NEW c \in Entry, Same(c, f)
  PROVE  Matches(Append(fs, f), Append(cs, c))
<1>1. /\ Len(cs) = Len(fs) /\ Len(fs) \in Nat
      /\ Len(Append(fs, f)) = Len(fs) + 1 /\ Len(Append(cs, c)) = Len(fs) + 1
      /\ \A i \in 1..Len(fs) : Append(fs, f)[i] = fs[i] /\ Append(cs, c)[i] = cs[i]
      /\ Append(fs, f)[Len(fs) + 1] = f /\ Append(cs, c)[Len(fs) + 1] = c
  BY PushFacts DEF Matches
<1>2. ASSUME NEW i \in 1..(Len(fs) + 1)
      PROVE  Same(Append(cs, c)[i], Append(fs, f)[i])
  <2>1. CASE i = Len(fs) + 1
    BY <1>1, <2>1
  <2>2. CASE i # Len(fs) + 1
    <3>1. i \in 1..Len(fs)
      BY <1>1, <2>2
    <3> QED
      BY <1>1, <3>1 DEF Matches
  <2> QED
    BY <2>1, <2>2
<1> QED
  BY <1>1, <1>2 DEF Matches

LEMMA ShrinkTogether ==
  ASSUME NEW fs \in Seq(Frame), NEW cs \in Seq(Entry), Matches(fs, cs), fs # <<>>
  PROVE  cs # <<>> /\ Matches(Front(fs), Front(cs)) /\ Same(Last(cs), Last(fs))
<1>1. Len(cs) = Len(fs) /\ Len(fs) \in Nat \ {0} /\ cs # <<>>
  BY DEF Matches
<1>2. /\ Len(Front(fs)) = Len(fs) - 1 /\ Len(Front(cs)) = Len(fs) - 1
      /\ \A i \in 1..(Len(fs) - 1) : Front(fs)[i] = fs[i] /\ Front(cs)[i] = cs[i]
      /\ Last(fs) = fs[Len(fs)] /\ Last(cs) = cs[Len(fs)]
  BY <1>1, FrontFacts
<1>3. \A i \in 1..Len(fs) : Same(cs[i], fs[i])
  BY DEF Matches
<1> QED
  BY <1>1, <1>2, <1>3 DEF Matches

LEMMA ChangeTops ==
  ASSUME NEW fs \in Seq(Frame), NEW cs \in Seq(Entry), Matches(fs, cs), fs # <<>>,
         NEW f \in Frame, NEW c \in Entry, Same(c, f)
  PROVE  Matches(SetTop(fs, f), SetTop(cs, c))
<1>1. cs # <<>> /\ Matches(Front(fs), Front(cs)) /\ Front(fs) \in Seq(Frame) /\ Front(cs) \in Seq(Entry)
  BY ShrinkTogether, FrontFacts
<1> QED
  BY <1>1, GrowTogether DEF SetTop

LEMMA ChangeContext ==
  ASSUME NEW fs \in Seq(Frame), NEW cs \in Seq(Entry), Matches(fs, cs), fs # <<>>,
         NEW c \in Entry, Same(c, Last(fs))
  PROVE  Matches(fs, SetTop(cs, c))
<1>1. cs # <<>> /\ Len(cs) = Len(fs) /\ Len(fs) \in Nat \ {0} /\ Last(fs) = fs[Len(fs)]
  BY ShrinkTogether, FrontFacts DEF Matches
<1>2. /\ Len(SetTop(cs, c)) = Len(fs) /\ SetTop(cs, c)[Len(fs)] = c
      /\ \A i \in 1..(Len(fs) - 1) : SetTop(cs, c)[i] = cs[i]
  <2>1. cs # <<>>
    BY <1>1
  <2>2. /\ Len(SetTop(cs, c)) = Len(cs) /\ SetTop(cs, c)[Len(cs)] = c
        /\ \A i \in 1..(Len(cs) - 1) : SetTop(cs, c)[i] = cs[i]
    BY <2>1, TopFacts
  <2> QED
    BY <1>1, <2>2
<1>3. ASSUME NEW i \in 1..Len(fs)
      PROVE  Same(SetTop(cs, c)[i], fs[i])
  <2>1. CASE i = Len(fs)
    BY <1>1, <1>2, <2>1
  <2>2. CASE i # Len(fs)
    <3>1. i \in 1..(Len(fs) - 1)
      BY <1>1, <2>2
    <3> QED
      BY <1>2, <3>1 DEF Matches
  <2> QED
    BY <2>1, <2>2
<1> QED
  BY <1>2, <1>3 DEF Matches

LEMMA ChangeFrame ==
  ASSUME NEW fs \in Seq(Frame), NEW cs \in Seq(Entry), Matches(fs, cs), fs # <<>>,
         NEW f \in Frame, Same(Last(cs), f)
  PROVE  Matches(SetTop(fs, f), cs)
<1>1. cs # <<>> /\ Len(cs) = Len(fs) /\ Len(fs) \in Nat \ {0} /\ Last(cs) = cs[Len(fs)]
  BY ShrinkTogether, FrontFacts DEF Matches
<1>2. /\ Len(SetTop(fs, f)) = Len(fs) /\ SetTop(fs, f)[Len(fs)] = f
      /\ \A i \in 1..(Len(fs) - 1) : SetTop(fs, f)[i] = fs[i]
  BY TopFacts
<1>3. ASSUME NEW i \in 1..Len(fs)
      PROVE  Same(cs[i], SetTop(fs, f)[i])
  <2>1. CASE i = Len(fs)
    BY <1>1, <1>2, <2>1
  <2>2. CASE i # Len(fs)
    <3>1. i \in 1..(Len(fs) - 1)
      BY <1>1, <2>2
    <3> QED
      BY <1>2, <3>1 DEF Matches
  <2> QED
    BY <2>1, <2>2
<1> QED
  BY <1>1, <1>2, <1>3 DEF Matches

\* The one who runs, and what it may spend.
LEMMA TopIs ==
  ASSUME StackInv, lua # <<>>
  PROVE  /\ contexts # <<>> /\ Caller \in Entry /\ Acting \in Frame /\ Same(Caller, Acting)
         /\ Acting.guards \in Seq(Held)
         /\ Caller.budget \in 0..Budget /\ Caller.replies \in 0..MaxReplies
         /\ Caller.principal \in STRING /\ Caller.cause \in Causes
         /\ Caller.cause # NoCause => Caller.principal # Nobody
<1>1. contexts # <<>> /\ Same(Caller, Acting)
  BY ShrinkTogether DEF StackInv, Caller, Acting
<1>2. Caller \in Entry /\ Acting \in Frame
  BY <1>1, FrontFacts DEF StackInv, Caller, Acting
<1>3. Acting.guards \in Seq(Held)
  BY <1>2 DEF Frame
<1> QED
  BY <1>1, <1>2, <1>3 DEF Entry

LEMMA EntrySteps ==
  ASSUME NEW c \in Entry
  PROVE  /\ [c EXCEPT !.exceeded = TRUE] \in Entry
         /\ Same([c EXCEPT !.exceeded = TRUE], c)
         /\ c.budget > 0 => /\ [c EXCEPT !.budget = @ - 1] \in Entry
                            /\ Same([c EXCEPT !.budget = @ - 1], c)
         /\ \A n \in 0..MaxReplies : /\ [c EXCEPT !.replies = n] \in Entry
                                     /\ Same([c EXCEPT !.replies = n], c)
<1>0. /\ c \in [principal : STRING, cause : Causes, budget : 0..Budget, exceeded : BOOLEAN,
                replies : 0..MaxReplies]
      /\ c.cause # NoCause => c.principal # Nobody
      /\ Budget \in Nat
  BY LuaAssumption DEF Entry
<1>1. [c EXCEPT !.exceeded = TRUE] \in Entry
  BY <1>0 DEF Entry
<1>2. ASSUME c.budget > 0
      PROVE  [c EXCEPT !.budget = @ - 1] \in Entry
  <2>1. c.budget - 1 \in 0..Budget
    BY <1>0, <1>2
  <2> QED
    BY <1>0, <2>1 DEF Entry
<1>3. ASSUME NEW n \in 0..MaxReplies
      PROVE  [c EXCEPT !.replies = n] \in Entry
  BY <1>0 DEF Entry
<1>4. /\ Same([c EXCEPT !.exceeded = TRUE], c) /\ Same([c EXCEPT !.budget = @ - 1], c)
      /\ \A n \in 0..MaxReplies : Same([c EXCEPT !.replies = n], c)
  BY <1>0 DEF Same
<1> QED
  BY <1>1, <1>2, <1>3, <1>4

LEMMA Began ==
  ASSUME NEW principal \in STRING, NEW cause \in Causes, cause # NoCause => principal # Nobody
  PROVE  /\ Call(principal, cause) \in Frame /\ Context(principal, cause) \in Entry
         /\ Same(Context(principal, cause), Call(principal, cause))
<1>1. Call(principal, cause) \in Frame
  BY DEF Call, Frame
<1>2. Context(principal, cause) \in Entry
  BY LuaAssumption DEF Context, Entry, MaxReplies
<1> QED
  BY <1>1, <1>2 DEF Call, Context, Same

LEMMA SpendStack ==
  ASSUME StackInv, lua # <<>>, NEW c \in Entry, Same(c, Caller),
         contexts' = SetTop(contexts, c), lua' = lua
  PROVE  StackInv'
<1>1. contexts # <<>> /\ Same(c, Acting)
  BY TopIs DEF Same
<1>2. contexts' \in Seq(Entry) /\ Len(contexts') = Len(contexts)
  BY <1>1, TopFacts DEF StackInv
<1>3. Matches(lua, SetTop(contexts, c))
  BY <1>1, ChangeContext DEF StackInv, Acting
<1>4. Matches(lua', contexts')
  BY <1>3
<1> QED
  BY <1>2, <1>4 DEF StackInv

LEMMA GuardFrame ==
  ASSUME StackInv, lua # <<>>, NEW gs \in Seq(Held)
  PROVE  /\ [Acting EXCEPT !.guards = gs] \in Frame
         /\ Same(Caller, [Acting EXCEPT !.guards = gs])
         /\ WithGuards(gs) \in Seq(Frame)
<1>1. [Acting EXCEPT !.guards = gs] \in Frame
  BY TopIs DEF Frame
<1>2. Same(Caller, [Acting EXCEPT !.guards = gs])
  BY TopIs DEF Same, Frame
<1> QED
  BY <1>1, <1>2, TopFacts DEF WithGuards, StackInv

LEMMA GuardStack ==
  ASSUME StackInv, lua # <<>>, NEW gs \in Seq(Held), lua' = WithGuards(gs), contexts' = contexts
  PROVE  StackInv'
<1>1. Matches(WithGuards(gs), contexts)
  BY GuardFrame, ChangeFrame DEF StackInv, Caller, WithGuards
<1>2. Matches(lua', contexts')
  BY <1>1
<1> QED
  BY <1>2, GuardFrame DEF StackInv

LEMMA PopStack ==
  ASSUME StackInv, lua # <<>>, lua' = Front(lua), contexts' = Front(contexts)
  PROVE  StackInv'
<1>1. contexts # <<>> /\ Matches(Front(lua), Front(contexts))
  BY ShrinkTogether DEF StackInv
<1>2. /\ lua' \in Seq(Frame) /\ contexts' \in Seq(Entry) /\ Len(contexts') = Len(contexts) - 1
      /\ Len(contexts) \in Nat
  BY <1>1, FrontFacts DEF StackInv
<1>3. Matches(lua', contexts')
  BY <1>1
<1>4. Len(contexts') <= MaxInvocationDepth
  BY <1>2, LuaAssumption DEF StackInv
<1> QED
  BY <1>2, <1>3, <1>4 DEF StackInv

LEMMA InvokeStack ==
  ASSUME StackInv, NEW principal \in STRING \ {Nobody}, NEW cause \in Causes, Invoke(principal, cause)
  PROVE  StackInv'
<1>1. lua = <<>> /\ contexts = <<>>
  BY DEF Invoke, StackInv, Matches
<1>2. /\ Call(principal, cause) \in Frame /\ Context(principal, cause) \in Entry
      /\ Same(Context(principal, cause), Call(principal, cause))
  BY Began
<1>3. lua' = Append(lua, Call(principal, cause)) /\ contexts' = Append(contexts, Context(principal, cause))
  BY <1>1 DEF Invoke
<1>4. Matches(Append(lua, Call(principal, cause)), Append(contexts, Context(principal, cause)))
  BY <1>2, GrowTogether DEF StackInv
<1>5. Matches(lua', contexts')
  BY <1>3, <1>4
<1>6. lua' \in Seq(Frame) /\ contexts' \in Seq(Entry) /\ Len(contexts') = 1
  <2>1. /\ lua' \in Seq(Frame) /\ contexts' \in Seq(Entry)
        /\ Len(contexts') = Len(contexts) + 1
    BY <1>2, <1>3, PushFacts DEF StackInv
  <2>2. Len(contexts) = 0
    BY <1>1
  <2> QED
    BY <2>1, <2>2
<1> QED
  BY <1>5, <1>6, LuaAssumption DEF StackInv
-----------------------------------------------------------------------------
(* Scripts.                                                                *)

LEMMA SameStack ==
  ASSUME StackInv, UNCHANGED <<lua, contexts>>
  PROVE  StackInv'
BY DEF StackInv, Matches, Same

LEMMA HookCounts ==
  ASSUME HostInv, Executed, hookCount > 0
  PROVE  hookCount' \in 0..BudgetStep
BY LuaAssumption DEF HostInv, Executed

\* What the host writes on a message is true of the one who makes it.
LEMMA EnvelopeSent ==
  ASSUME StackInv, lua # <<>>, NEW spec \in Specs, Sendable(spec), nextId \in 1..MaxId
  PROVE  BuildEnvelope(spec) \in Sent
<1> DEFINE mine == FinalizersIn(Acting)
           author == IF mine = {} THEN Acting.principal ELSE (CHOOSE g \in mine : TRUE).script
           authorCause == IF mine = {} THEN Acting.cause ELSE NoCause
           correlation == IF spec.causal THEN Caller.cause ELSE NoCause
<1>1. /\ spec.to \in STRING /\ spec.kind \in STRING /\ spec.schema \in STRING
      /\ spec.kind \in {"Command", "Event"}
  BY PrincipalsAssumption DEF Sendable, DecodeMessageSpec
<1>2. /\ Caller.principal \in STRING /\ Caller.cause \in Causes /\ Caller.principal # Nobody
      /\ Caller.principal = Acting.principal /\ Caller.cause = Acting.cause
  BY TopIs DEF Same, Sendable, HandlerContext
<1>3. NoCause \in Causes
  BY LuaAssumption DEF NoCause, Causes
<1>4. \A g \in mine : g.script \in STRING
  <2>1. Acting.guards \in Seq(Held)
    BY TopIs
  <2>2. \A g \in ToSet(Acting.guards) : g \in Guards
    BY <2>1 DEF ToSet, Held
  <2> QED
    BY <2>2 DEF FinalizersIn, Guards
<1>5. author \in STRING
  <2>1. CASE mine = {}
    BY <1>2, <2>1
  <2>2. CASE mine # {}
    <3>1. (CHOOSE g \in mine : TRUE) \in mine
      BY <2>2
    <3> QED
      BY <1>4, <2>2, <3>1
  <2> QED
    BY <2>1, <2>2
<1>6. authorCause \in Causes /\ correlation \in Causes
  BY <1>2, <1>3
<1>7. BuildEnvelope(spec) =
        [id |-> nextId, sender |-> Caller.principal, to |-> spec.to, kind |-> spec.kind,
         schema |-> spec.schema, correlation |-> correlation, author |-> author,
         authorCause |-> authorCause, finalizer |-> mine # {}]
  BY DEF BuildEnvelope
<1>8. mine = {} => /\ author = Caller.principal
                   /\ correlation \in {NoCause, authorCause}
  BY <1>2
<1> HIDE DEF mine, author, authorCause, correlation
<1>9. BuildEnvelope(spec) \in Message
  BY <1>1, <1>2, <1>5, <1>6, <1>7 DEF Message
<1>10. /\ BuildEnvelope(spec).sender = Caller.principal /\ BuildEnvelope(spec).kind = spec.kind
       /\ BuildEnvelope(spec).correlation = correlation /\ BuildEnvelope(spec).author = author
       /\ BuildEnvelope(spec).authorCause = authorCause
       /\ BuildEnvelope(spec).finalizer = (mine # {})
  BY <1>7
<1> QED
  BY <1>1, <1>2, <1>8, <1>9, <1>10 DEF Sent

LEMMA QuietHost ==
  ASSUME HostInv, raising' \in Errors, hookCount' \in 0..BudgetStep,
         UNCHANGED <<replied, inbound, scheduled, handoff, nextId>>
  PROVE  HostInv'
BY DEF HostInv

LEMMA BusCallInv ==
  ASSUME StackInv, HostInv, UNCHANGED handoff, NEW spec \in Specs,
         LuaBusSend(spec) \/ LuaBusScheduleAfter(spec)
  PROVE  StackInv' /\ HostInv'
<1>1. /\ lua # <<>> /\ UNCHANGED <<lua, contexts, replied>>
      /\ nextId \in 1..MaxId /\ Executed /\ hookCount > 0
  BY DEF LuaBusSend, LuaBusScheduleAfter, MayStep, ScriptRuns
<1>2. StackInv' /\ hookCount' \in 0..BudgetStep
  BY <1>1, SameStack, HookCounts
<1>3. CASE raising' = "error" /\ UNCHANGED <<inbound, scheduled, nextId>>
  BY <1>1, <1>2, <1>3, QuietHost DEF Errors
<1>4. CASE /\ Sendable(spec) /\ Len(inbound) < InCapacity
           /\ inbound' = Append(inbound, BuildEnvelope(spec))
           /\ nextId' = nextId + 1 /\ UNCHANGED <<raising, scheduled>>
  <2>1. BuildEnvelope(spec) \in Sent
    BY <1>1, <1>4, EnvelopeSent
  <2>2. /\ inbound' \in Seq(Sent) /\ Len(inbound') = Len(inbound) + 1 /\ Len(inbound) \in Nat
    BY <1>4, <2>1, PushFacts DEF HostInv
  <2>3. Len(inbound') <= InCapacity
    BY <1>4, <2>2, LuaAssumption
  <2>4. nextId' \in 1..(MaxId + 1)
    BY <1>1, <1>4, LuaAssumption
  <2> QED
    BY <1>1, <1>2, <1>4, <2>2, <2>3, <2>4 DEF HostInv
<1>5. CASE /\ Sendable(spec)
           /\ scheduled' = Append(scheduled, BuildEnvelope(spec))
           /\ nextId' = nextId + 1 /\ UNCHANGED <<raising, inbound>>
  <2>1. BuildEnvelope(spec) \in Sent
    BY <1>1, <1>5, EnvelopeSent
  <2>2. scheduled' \in Seq(Sent)
    BY <1>5, <2>1, PushFacts DEF HostInv
  <2>3. nextId' \in 1..(MaxId + 1)
    BY <1>1, <1>5, LuaAssumption
  <2> QED
    BY <1>1, <1>2, <1>5, <2>2, <2>3 DEF HostInv
<1> QED
  BY <1>3, <1>4, <1>5 DEF LuaBusSend, LuaBusScheduleAfter

LEMMA QueryInv ==
  ASSUME StackInv, HostInv, UNCHANGED handoff, NEW spec \in Specs, LuaBusQuery(spec)
  PROVE  StackInv' /\ HostInv'
<1>1. /\ lua # <<>> /\ UNCHANGED <<replied, inbound, scheduled, nextId>>
      /\ Executed /\ hookCount > 0 /\ raising' \in {"error", raising}
  BY DEF LuaBusQuery, MayStep, ScriptRuns
<1>2. HostInv'
  <2>1. raising' \in Errors
    BY <1>1 DEF HostInv, Errors
  <2> QED
    BY <1>1, <2>1, QuietHost, HookCounts
<1>3. CASE UNCHANGED <<lua, contexts>>
  BY <1>2, <1>3, SameStack
<1>4. ASSUME NEW b \in SlotsOf(BuildEnvelope(spec)), Nested(b, BuildEnvelope(spec).id),
             Len(contexts) < MaxInvocationDepth
      PROVE  StackInv'
  <2>1. /\ b.principal \in STRING \ {Nobody}
        /\ BuildEnvelope(spec).id \in Causes
    BY <1>4, PrincipalsAssumption, LuaAssumption DEF SlotsOf, BuildEnvelope, HostInv, Causes
  <2> DEFINE f == Call(b.principal, BuildEnvelope(spec).id)
             c == Context(b.principal, BuildEnvelope(spec).id)
  <2>2. f \in Frame /\ c \in Entry /\ Same(c, f)
    BY <2>1, Began
  <2>3. lua' = Append(lua, f) /\ contexts' = Append(contexts, c)
    BY <1>4 DEF Nested
  <2> HIDE DEF f, c
  <2>4. Matches(Append(lua, f), Append(contexts, c))
    BY <2>2, GrowTogether DEF StackInv
  <2>5. Matches(lua', contexts')
    BY <2>3, <2>4
  <2>6. /\ lua' \in Seq(Frame) /\ contexts' \in Seq(Entry) /\ Len(contexts') = Len(contexts) + 1
        /\ Len(contexts) \in Nat
    BY <2>2, <2>3, PushFacts DEF StackInv
  <2>7. Len(contexts') <= MaxInvocationDepth
    BY <1>4, <2>6, LuaAssumption
  <2> QED
    BY <2>5, <2>6, <2>7 DEF StackInv
<1> QED
  BY <1>2, <1>3, <1>4 DEF LuaBusQuery

\* Calls that change the context on top at most.
LEMMA PlainCallInv ==
  ASSUME StackInv, HostInv, UNCHANGED handoff,
         \/ InstructionBudgetHook \/ Compute \/ RaiseError
         \/ \E fields \in ReplyTables : LuaBusReply(fields)
  PROVE  StackInv' /\ HostInv'
<1>1. lua # <<>> /\ UNCHANGED <<lua, replied, inbound, scheduled, nextId>>
  BY DEF InstructionBudgetHook, Compute, RaiseError, LuaBusReply, MayStep, ScriptRuns
<1>2. raising' \in Errors
  BY DEF HostInv, Errors, InstructionBudgetHook, Compute, RaiseError, LuaBusReply
<1>3. hookCount' \in 0..BudgetStep
  <2>1. CASE InstructionBudgetHook
    BY <2>1, LuaAssumption DEF InstructionBudgetHook
  <2>2. CASE MayStep /\ Executed
    BY <2>2, HookCounts DEF MayStep
  <2> QED
    BY <2>1, <2>2 DEF Compute, RaiseError, LuaBusReply
<1>4. HostInv'
  BY <1>1, <1>2, <1>3, QuietHost
<1>5. CASE contexts' = contexts
  BY <1>1, <1>4, <1>5, SameStack
<1>6. CASE InstructionBudgetHook
  <2> DEFINE over == [Caller EXCEPT !.exceeded = TRUE]
             paid == [Caller EXCEPT !.budget = @ - 1]
  <2>1. /\ over \in Entry /\ Same(over, Caller)
        /\ Caller.budget > 0 => paid \in Entry /\ Same(paid, Caller)
    BY <1>1, TopIs, EntrySteps
  <2>2. \/ contexts' = contexts
        \/ contexts' = SetTop(contexts, over)
        \/ Caller.budget > 0 /\ contexts' = SetTop(contexts, paid)
    BY <1>6 DEF InstructionBudgetHook
  <2> HIDE DEF over, paid
  <2> QED
    BY <1>1, <1>4, <1>5, <2>1, <2>2, SpendStack
<1>7. ASSUME NEW n \in 0..MaxReplies, contexts' = SetTop(contexts, [Caller EXCEPT !.replies = n])
      PROVE  StackInv'
  <2> DEFINE c == [Caller EXCEPT !.replies = n]
  <2>1. c \in Entry /\ Same(c, Caller) /\ contexts' = SetTop(contexts, c)
    BY <1>1, <1>7, TopIs, EntrySteps
  <2> HIDE DEF c
  <2> QED
    BY <1>1, <2>1, SpendStack
<1>8. ASSUME NEW fields \in ReplyTables, LuaBusReply(fields)
      PROVE  StackInv'
  <2> DEFINE n == IF Caller.replies < MaxReplies THEN Caller.replies + 1 ELSE Caller.replies
  <2>1. n \in 0..MaxReplies
    BY <1>1, TopIs DEF MaxReplies
  <2>2. contexts' = contexts \/ contexts' = SetTop(contexts, [Caller EXCEPT !.replies = n])
    BY <1>8 DEF LuaBusReply
  <2> HIDE DEF n
  <2> QED
    BY <1>4, <1>5, <1>7, <2>1, <2>2
<1> QED
  BY <1>4, <1>5, <1>6, <1>8 DEF Compute, RaiseError

\* What opens in a function.
LEMMA OpenInv ==
  ASSUME StackInv, HostInv, UNCHANGED handoff,
         RunFinalizer \/ \E kind \in {"pcall", "xpcall", "close"} : Open(kind)
  PROVE  StackInv' /\ HostInv'
<1>1. /\ lua # <<>> /\ UNCHANGED <<contexts, raising, replied, inbound, scheduled, nextId>>
      /\ hookCount' = hookCount \/ (hookCount > 0 /\ Executed)
  BY DEF Open, RunFinalizer, MayStep, ScriptRuns
<1>2. HostInv'
  BY <1>1, QuietHost, HookCounts DEF HostInv
<1>3. ASSUME NEW g \in Held, lua' = WithGuards(Append(Acting.guards, g))
      PROVE  StackInv'
  BY <1>1, <1>3, TopIs, PushFacts, GuardStack
<1>4. ASSUME NEW kind \in {"pcall", "xpcall", "close", "finalizer"}, NEW name \in STRING
      PROVE  [Guard(kind) EXCEPT !.script = name] \in Held /\ Guard(kind) \in Held
  BY <1>4, LuaAssumption, PrincipalsAssumption DEF Guard, Guards, Held, Errors
<1>5. CASE RunFinalizer
  <2>1. PICK name \in Scripts :
          lua' = WithGuards(Append(Acting.guards, [Guard("finalizer") EXCEPT !.script = name]))
    BY <1>5 DEF RunFinalizer
  <2>2. name \in STRING
    BY PrincipalsAssumption DEF Scripts
  <2> QED
    BY <1>2, <1>3, <1>4, <2>1, <2>2
<1>6. ASSUME NEW kind \in {"pcall", "xpcall", "close"}, Open(kind)
      PROVE  StackInv'
  <2>1. lua' = WithGuards(Append(Acting.guards, Guard(kind)))
    BY <1>6 DEF Open
  <2>2. Guard(kind) \in Held
    BY <1>4, PrincipalsAssumption
  <2> QED
    BY <1>3, <2>1, <2>2
<1> QED
  BY <1>2, <1>5, <1>6

\* Errors and returns through what is open in one function.
LEMMA UnwindInv ==
  ASSUME StackInv, HostInv, UNCHANGED handoff,
         \/ LeaveNormally \/ CatchError \/ RunErrorHandler \/ ReRaiseAbort
         \/ RunCloser \/ CloserFails \/ FinalizerFails
  PROVE  StackInv' /\ HostInv'
<1> USE DEF LeaveNormally, CatchError, RunErrorHandler, ReRaiseAbort, RunCloser, CloserFails,
            FinalizerFails, ReachedBy
<1>1. /\ lua # <<>> /\ Acting.guards # <<>>
      /\ UNCHANGED <<contexts, hookCount, replied, inbound, scheduled, nextId>>
      /\ raising' \in {"none", "abort", raising, Innermost.held}
  BY DEF ScriptRuns
<1>2. Acting.guards \in Seq(Held)
  BY <1>1, TopIs
<1>3. Front(Acting.guards) \in Seq(Held) /\ Innermost \in Held
  BY <1>1, <1>2, FrontFacts DEF Innermost
<1>4. HostInv'
  <2>1. Innermost.held \in Errors
    BY <1>3 DEF Held, Guards
  <2>2. raising' \in Errors
    BY <1>1, <2>1 DEF HostInv, Errors
  <2> QED
    BY <1>1, <2>2, QuietHost DEF HostInv
<1>5. ASSUME lua' = WithGuards(Front(Acting.guards))
      PROVE  StackInv'
  BY <1>1, <1>3, <1>5, GuardStack
<1>6. ASSUME NEW g \in Held, lua' = WithGuards(SetTop(Acting.guards, g))
      PROVE  StackInv'
  <2>1. SetTop(Acting.guards, g) \in Seq(Held)
    BY <1>1, <1>2, TopFacts
  <2> QED
    BY <1>1, <1>6, <2>1, GuardStack
<1>7. ASSUME RunErrorHandler
      PROVE  StackInv'
  <2> DEFINE left == IF Innermost.kind = "xpcall" THEN HandlerRuns ELSE Innermost.left
             again == [Guard("handler") EXCEPT !.left = left - 1]
  <2>1. CASE left = 0
    BY <1>5, <1>7, <2>1
  <2>2. CASE left # 0
    <3>1. lua' = WithGuards(SetTop(Acting.guards, again))
      BY <1>7, <2>2
    <3>2. left \in 0..HandlerRuns /\ HandlerRuns \in Nat
      BY <1>3, LuaAssumption DEF Held, Guards
    <3>3. left - 1 \in 0..HandlerRuns
      BY <2>2, <3>2
    <3> HIDE DEF left
    <3>4. again \in Held
      BY <3>3, PrincipalsAssumption DEF Held, Guards, Guard, Errors
    <3> QED
      BY <1>6, <3>1, <3>4
  <2> QED
    BY <2>1, <2>2
<1>8. ASSUME RunCloser
      PROVE  StackInv'
  <2>1. [Guard("closing") EXCEPT !.held = raising] \in Held
    BY <1>8, LuaAssumption, PrincipalsAssumption DEF Held, Guards, Guard, Errors
  <2> QED
    BY <1>6, <1>8, <2>1
<1> QED
  BY <1>4, <1>5, <1>7, <1>8 DEF LeaveInnermost

\* A function ends, by a return or by an exception.
LEMMA EndInv ==
  ASSUME StackInv, HostInv, UNCHANGED handoff, FunctionReturns \/ InvokeThrows
  PROVE  StackInv' /\ HostInv'
<1>1. /\ lua # <<>> /\ lua' = Front(lua) /\ contexts' = Front(contexts)
      /\ UNCHANGED <<hookCount, inbound, scheduled, nextId>>
      /\ raising' \in {"none", "error", raising} /\ replied' \in {0, Caller.replies}
  BY DEF FunctionReturns, InvokeThrows, ScriptRuns
<1>2. StackInv'
  BY <1>1, PopStack
<1>3. replied' \in 0..MaxReplies
  BY <1>1, TopIs DEF MaxReplies
<1>4. HostInv'
  BY <1>1, <1>3 DEF HostInv, Errors
<1> QED
  BY <1>2, <1>4

LEMMA ScriptInv ==
  ASSUME LuaInv, UNCHANGED handoff, ScriptStep
  PROVE  LuaInv'
<1>1. StackInv /\ HostInv
  BY DEF LuaInv
<1>2. CASE InstructionBudgetHook \/ Compute \/ RaiseError \/ \E fields \in ReplyTables : LuaBusReply(fields)
  BY <1>1, <1>2, PlainCallInv DEF LuaInv
<1>3. CASE \E spec \in Specs : LuaBusSend(spec) \/ LuaBusScheduleAfter(spec) \/ LuaBusQuery(spec)
  BY <1>1, <1>3, BusCallInv, QueryInv DEF LuaInv
<1>4. CASE RunFinalizer \/ \E kind \in {"pcall", "xpcall", "close"} : Open(kind)
  BY <1>1, <1>4, OpenInv DEF LuaInv
<1>5. CASE \/ LeaveNormally \/ CatchError \/ RunErrorHandler \/ ReRaiseAbort
           \/ RunCloser \/ CloserFails \/ FinalizerFails
  BY <1>1, <1>5, UnwindInv DEF LuaInv
<1>6. CASE FunctionReturns \/ InvokeThrows
  BY <1>1, <1>6, EndInv DEF LuaInv
<1> QED
  BY <1>2, <1>3, <1>4, <1>5, <1>6 DEF ScriptStep, ScriptCalls, Unwinding
-----------------------------------------------------------------------------
(* The steps of the frame around the scripts.                              *)

LEMMA CallersInit == ASSUME Init PROVE CallersInv
<1>1. /\ lua = <<Call(Nobody, NoCause)>> /\ contexts = <<Context(Nobody, NoCause)>>
      /\ raising = "none" /\ replied = 0 /\ inbound = <<>> /\ scheduled = <<>> /\ handoff = <<>>
      /\ nextId = 1 /\ hookCount = BudgetStep
  BY DEF Init, LuaInit
<1>2. HostInv
  BY <1>1, LuaAssumption DEF HostInv, Errors, MaxReplies
<1>3. NoCause \in Causes /\ Nobody \in STRING
  BY LuaAssumption, PrincipalsAssumption DEF NoCause, Causes
<1>4. /\ Call(Nobody, NoCause) \in Frame /\ Context(Nobody, NoCause) \in Entry
      /\ Same(Context(Nobody, NoCause), Call(Nobody, NoCause))
  BY <1>3, Began
<1>5. StackInv
  <2>1. ASSUME NEW f \in Frame, NEW c \in Entry, Same(c, f)
        PROVE  /\ <<f>> \in Seq(Frame) /\ <<c>> \in Seq(Entry) /\ Matches(<<f>>, <<c>>) /\ Len(<<c>>) = 1
    BY <2>1 DEF Matches
  <2> QED
    BY <1>1, <1>4, <2>1, LuaAssumption DEF StackInv
<1>6. PumpInv
  BY FrameAssumption DEF Init, PumpInv
<1>7. FrameTypes
  <2>1. phase = "load" /\ bootstrapFailed = FALSE /\ edits = 0
    BY DEF Init
  <2>2. phase \in Phases
    BY <2>1 DEF Phases
  <2>3. edits \in 0..MaxEdits
    BY <2>1, FrameAssumption
  <2> QED
    BY <2>1, <2>2, <2>3 DEF FrameTypes
<1> QED
  BY <1>2, <1>5, <1>6, <1>7 DEF CallersInv, LuaInv

LEMMA QuietLua ==
  ASSUME LuaInv, UNCHANGED <<lua, contexts, hookCount, inbound, scheduled, nextId, handoff>>,
         raising' \in Errors, replied' \in 0..MaxReplies
  PROVE  LuaInv'
<1>1. StackInv'
  BY SameStack DEF LuaInv
<1>2. HostInv'
  BY DEF LuaInv, HostInv
<1> QED
  BY <1>1, <1>2 DEF LuaInv

LEMMA CaughtLua ==
  ASSUME LuaInv, Caught, UNCHANGED handoff
  PROVE  LuaInv'
BY QuietLua DEF Caught, Errors, MaxReplies

LEMMA SameLua ==
  ASSUME LuaInv, UNCHANGED <<luaVars, handoff>>
  PROVE  LuaInv'
<1>1. raising \in Errors /\ replied \in 0..MaxReplies
  BY DEF LuaInv, HostInv
<1> QED
  BY <1>1, QuietLua DEF luaVars

LEMMA SamePump ==
  ASSUME PumpInv, phase' # "handling" \/ phase' = phase, UNCHANGED <<pumped, outbound>>
  PROVE  PumpInv'
BY DEF PumpInv, Room

LEMMA EditsFacts ==
  ASSUME FrameTypes, edits' = edits \/ (edits < MaxEdits /\ edits' = edits + 1)
  PROVE  edits' \in 0..MaxEdits
<1>1. edits \in 0..MaxEdits
  BY DEF FrameTypes
<1> QED
  BY <1>1, FrameAssumption

LEMMA FrameTypesNext ==
  ASSUME FrameTypes, [Next]_vars
  PROVE  FrameTypes'
<1> USE DEF FrameTypes, Phases, Stops
<1>1. CASE Script \/ UNCHANGED vars \/ TimerDue
  BY <1>1 DEF Script, TimerDue, vars, frameVars
<1>2. CASE LoadContent \/ DrainDue \/ Pump
  BY <1>2 DEF LoadContent, DrainDue, Pump, PumpOne, HandlerReturned, FrameDone
<1>3. CASE PollEvents
  <2>1. phase' \in Phases /\ bootstrapFailed' = bootstrapFailed
    BY <1>3 DEF PollEvents
  <2>2. edits' \in 0..MaxEdits
    BY <1>3, EditsFacts DEF PollEvents
  <2> QED
    BY <2>1, <2>2
<1>4. CASE View
  <2>1. phase' \in {"drain", "bootstrap"} /\ bootstrapFailed' = bootstrapFailed
    BY <1>4 DEF View, ChunkCommitted, ChunkEvicted, NothingStreamed, EndView
  <2>2. edits' \in 0..MaxEdits
    BY <1>4, EditsFacts DEF View, ChunkCommitted, ChunkEvicted, NothingStreamed
  <2> QED
    BY <2>1, <2>2
<1>5. CASE UpdateBootstraps
  <2>1. phase' \in {phase, "placing", "drain", "starting", "bootstrap"} /\ edits' = edits
    BY <1>5 DEF UpdateBootstraps, CheckBootstrap, MakePlacement, InvokeStart, StartReturned,
                BootstrapsUpdated, BootstrapFails, NextBootstrap
  <2>2. bootstrapFailed' = bootstrapFailed \/ bootstrapFailed' = TRUE
    BY <1>5 DEF UpdateBootstraps, CheckBootstrap, MakePlacement, InvokeStart, StartReturned,
                BootstrapsUpdated, BootstrapFails, NextBootstrap
  <2> QED
    BY <2>1, <2>2
<1> QED
  BY <1>1, <1>2, <1>3, <1>4, <1>5 DEF Next, GameThread

\* Steps that neither run a script nor move a message.
LEMMA AroundCallers ==
  ASSUME LuaInv, PumpInv,
         \/ LoadContent \/ PollEvents \/ View \/ CheckBootstrap \/ MakePlacement \/ StartReturned
         \/ BootstrapsUpdated \/ FrameDone
  PROVE  LuaInv' /\ PumpInv'
<1>1. CASE LoadContent \/ StartReturned
  <2>1. Caught /\ UNCHANGED <<handoff, pumped, outbound>> /\ phase' # "handling"
    BY <1>1 DEF LoadContent, StartReturned, BootstrapFails
  <2> QED
    BY <2>1, CaughtLua, SamePump
<1>2. CASE PollEvents \/ View \/ CheckBootstrap \/ MakePlacement \/ BootstrapsUpdated \/ FrameDone
  <2>1. UNCHANGED <<luaVars, handoff, pumped, outbound>>
    BY <1>2 DEF PollEvents, View, ChunkCommitted, ChunkEvicted, NothingStreamed, EndView,
                CheckBootstrap, MakePlacement, BootstrapsUpdated, FrameDone
  <2>2. phase' # "handling" \/ phase' = phase
    BY <1>2 DEF PollEvents, View, ChunkCommitted, ChunkEvicted, NothingStreamed, EndView,
                CheckBootstrap, MakePlacement, BootstrapsUpdated, FrameDone, BootstrapFails,
                NextBootstrap
  <2> QED
    BY <2>1, <2>2, SameLua, SamePump
<1> QED
  BY <1>1, <1>2

LEMMA StartCallers ==
  ASSUME LuaInv, PumpInv, BootInv, InvokeStart
  PROVE  LuaInv' /\ PumpInv'
<1>1. boot \in BootIds /\ Bootstraps[boot].principal \in STRING \ {Nobody}
  BY PlacementIs DEF InvokeStart, BootInv, InProgress
<1>2. nextId \in Causes
  BY LuaAssumption DEF LuaInv, HostInv, Causes
<1>3. StackInv'
  BY <1>1, <1>2, InvokeStack DEF InvokeStart, LuaInv
<1>4. HostInv'
  BY DEF InvokeStart, Invoke, LuaInv, HostInv
<1>5. PumpInv'
  BY SamePump DEF InvokeStart
<1> QED
  BY <1>3, <1>4, <1>5 DEF LuaInv

LEMMA RemoveFacts ==
  ASSUME NEW T, NEW s \in Seq(T), NEW i \in DOMAIN s
  PROVE  s[i] \in T /\ RemoveAt(s, i) \in Seq(T)
<1>1. SubSeq(s, 1, i - 1) \in Seq(T) /\ SubSeq(s, i + 1, Len(s)) \in Seq(T) /\ s[i] \in T
  OBVIOUS
<1> QED
  BY <1>1 DEF RemoveAt

LEMMA HeadFacts ==
  ASSUME NEW T, NEW s \in Seq(T), s # <<>>
  PROVE  Head(s) \in T /\ Tail(s) \in Seq(T) /\ Len(Tail(s)) = Len(s) - 1 /\ Len(s) \in Nat
OBVIOUS

LEMMA QueueCallers ==
  ASSUME LuaInv, PumpInv, TimerDue \/ DrainDue
  PROVE  LuaInv' /\ PumpInv'
<1>1. /\ UNCHANGED <<lua, contexts, hookCount, raising, replied, nextId, pumped, outbound>>
      /\ phase' # "handling"
  BY DEF TimerDue, DrainDue
<1>2. StackInv'
  BY <1>1, SameStack DEF LuaInv
<1>3. PumpInv'
  BY <1>1, SamePump
<1>4. inbound \in Seq(Sent) /\ scheduled \in Seq(Sent) /\ handoff \in Seq(Sent) /\ Len(inbound) <= InCapacity
  BY DEF LuaInv, HostInv
<1>5. /\ inbound' \in Seq(Sent) /\ scheduled' \in Seq(Sent) /\ handoff' \in Seq(Sent)
      /\ Len(inbound') <= InCapacity
  <2>1. CASE TimerDue
    <3>1. inbound' = inbound
      BY <2>1 DEF TimerDue
    <3>2. PICK i \in DOMAIN scheduled : /\ handoff' = Append(handoff, scheduled[i])
                                        /\ scheduled' = RemoveAt(scheduled, i)
      BY <2>1 DEF TimerDue
    <3>3. scheduled[i] \in Sent /\ RemoveAt(scheduled, i) \in Seq(Sent)
      BY <1>4, RemoveFacts
    <3> QED
      BY <1>4, <3>1, <3>2, <3>3, PushFacts
  <2>2. CASE DrainDue
    <3>1. scheduled' = scheduled
      BY <2>2 DEF DrainDue
    <3>2. CASE UNCHANGED <<inbound, handoff>>
      BY <1>4, <3>1, <3>2
    <3>3. CASE handoff # <<>> /\ handoff' = Tail(handoff) /\ inbound' = inbound
      BY <1>4, <3>1, <3>3, HeadFacts
    <3>4. CASE /\ handoff # <<>> /\ handoff' = Tail(handoff) /\ Len(inbound) < InCapacity
               /\ inbound' = Append(inbound, Head(handoff))
      <4>1. Head(handoff) \in Sent /\ handoff' \in Seq(Sent)
        BY <1>4, <3>4, HeadFacts
      <4>2. inbound' \in Seq(Sent) /\ Len(inbound') = Len(inbound) + 1 /\ Len(inbound) \in Nat
        BY <1>4, <3>4, <4>1, PushFacts
      <4>3. Len(inbound') <= InCapacity
        BY <3>4, <4>2, LuaAssumption
      <4> QED
        BY <1>4, <3>1, <4>1, <4>2, <4>3
    <3> QED
      BY <2>2, <3>2, <3>3, <3>4 DEF DrainDue
  <2> QED
    BY <2>1, <2>2
<1>6. HostInv'
  BY <1>1, <1>5 DEF LuaInv, HostInv
<1> QED
  BY <1>2, <1>3, <1>6 DEF LuaInv

\* The pre-flight: what the handler may reply has room.
LEMMA PumpCallers ==
  ASSUME LuaInv, PumpInv, PumpOne
  PROVE  LuaInv' /\ PumpInv'
<1> DEFINE m == Head(inbound)
<1>1. CASE phase' = "backpressure" /\ UNCHANGED <<luaVars, pumped, outbound>>
  BY <1>1, SameLua, SamePump DEF PumpOne
<1>2. ASSUME NEW b \in SlotsOf(m), Room(m.kind), inbound' = Tail(inbound),
             UNCHANGED <<scheduled, nextId>>,
             \/ /\ b.principal = Native /\ outbound' = outbound + MaxOutputs(m.kind)
                /\ UNCHANGED <<lua, contexts, hookCount, raising, replied, phase, pumped>>
             \/ /\ b.principal # Native /\ Invoke(b.principal, m.id)
                /\ phase' = "handling" /\ pumped' = m.kind /\ UNCHANGED outbound
      PROVE  LuaInv' /\ PumpInv'
  <2>1. inbound \in Seq(Sent) /\ inbound # <<>> /\ Len(inbound) <= InCapacity
        /\ phase = "pump" /\ handoff' = handoff
    BY DEF PumpOne, LuaInv, HostInv
  <2>2. m \in Sent /\ inbound' \in Seq(Sent) /\ Len(inbound') <= InCapacity
    BY <1>2, <2>1, HeadFacts, LuaAssumption
  <2>3. m.kind \in {"Command", "Event"} /\ m.id \in Causes
    BY <2>2, LuaAssumption DEF Sent, Message, Causes
  <2>4. b.principal \in STRING \ {Nobody}
    BY <1>2, PrincipalsAssumption DEF SlotsOf
  <2> HIDE DEF m
  <2>5. UNCHANGED <<hookCount, raising, replied>>
    BY <1>2 DEF Invoke
  <2>6. HostInv'
    BY <1>2, <2>1, <2>2, <2>5 DEF LuaInv, HostInv
  <2>7. StackInv'
    <3>1. CASE UNCHANGED <<lua, contexts>>
      BY <3>1, SameStack DEF LuaInv
    <3>2. CASE Invoke(b.principal, m.id)
      BY <2>3, <2>4, <3>2, InvokeStack DEF LuaInv
    <3> QED
      BY <1>2, <3>1, <3>2
  <2>8. outbound \in 0..OutCapacity /\ MaxOutputs(m.kind) \in {0, 1}
        /\ outbound + MaxOutputs(m.kind) <= OutCapacity /\ OutCapacity \in Nat
    BY <1>2, FrameAssumption DEF PumpInv, Room, MaxOutputs
  <2>9. PumpInv'
    <3>1. CASE outbound' = outbound + MaxOutputs(m.kind) /\ UNCHANGED <<phase, pumped>>
      BY <2>1, <2>8, <3>1 DEF PumpInv
    <3>2. CASE phase' = "handling" /\ pumped' = m.kind /\ UNCHANGED outbound
      BY <1>2, <2>3, <2>8, <3>2 DEF PumpInv, Room
    <3> QED
      BY <1>2, <3>1, <3>2
  <2> QED
    BY <2>6, <2>7, <2>9 DEF LuaInv
<1> QED
  BY <1>1, <1>2 DEF PumpOne

LEMMA ReturnCallers ==
  ASSUME LuaInv, PumpInv, HandlerReturned
  PROVE  LuaInv' /\ PumpInv'
<1>1. LuaInv'
  BY CaughtLua DEF HandlerReturned
<1>2. phase = "handling" /\ pumped' = pumped /\ phase' \in {"pump", "handler failed"}
  BY DEF HandlerReturned
<1>3. outbound' \in 0..OutCapacity
  <2>1. CASE UNCHANGED outbound
    BY <2>1 DEF PumpInv
  <2>2. CASE ContractAccepts /\ outbound' = outbound + replied
    <3>1. /\ replied \in Nat /\ replied <= MaxOutputs(pumped) /\ MaxOutputs(pumped) \in {0, 1}
          /\ outbound + MaxOutputs(pumped) <= OutCapacity /\ outbound \in Nat
      <4>1. replied \in Nat
        BY DEF LuaInv, HostInv, MaxReplies
      <4>2. replied <= MaxOutputs(pumped)
        BY <2>2 DEF ContractAccepts
      <4>3. MaxOutputs(pumped) \in {0, 1}
        BY DEF MaxOutputs
      <4>4. outbound \in Nat /\ outbound + MaxOutputs(pumped) <= OutCapacity
        <5>1. outbound \in 0..OutCapacity /\ Room(pumped)
          BY <1>2 DEF PumpInv
        <5>2. outbound \in Nat
          BY <5>1, FrameAssumption
        <5> QED
          BY <5>1, <5>2 DEF Room
      <4> QED
        BY <4>1, <4>2, <4>3, <4>4
    <3> QED
      BY <2>2, <3>1, FrameAssumption
  <2> QED
    BY <2>1, <2>2 DEF HandlerReturned
<1>4. PumpInv'
  BY <1>2, <1>3 DEF PumpInv
<1> QED
  BY <1>1, <1>4

LEMMA CallersNext ==
  ASSUME CallersInv, BootInv, [Next]_vars
  PROVE  CallersInv'
<1>1. LuaInv /\ PumpInv /\ FrameTypes'
  BY FrameTypesNext DEF CallersInv
<1>2. CASE \/ LoadContent \/ PollEvents \/ View \/ CheckBootstrap \/ MakePlacement \/ StartReturned
           \/ BootstrapsUpdated \/ FrameDone
  BY <1>1, <1>2, AroundCallers DEF CallersInv
<1>3. CASE InvokeStart
  BY <1>1, <1>3, StartCallers DEF CallersInv
<1>4. CASE TimerDue \/ DrainDue
  BY <1>1, <1>4, QueueCallers DEF CallersInv
<1>5. CASE PumpOne
  BY <1>1, <1>5, PumpCallers DEF CallersInv
<1>6. CASE HandlerReturned
  BY <1>1, <1>6, ReturnCallers DEF CallersInv
<1>7. CASE Script
  <2>1. LuaInv'
    BY <1>1, <1>7, ScriptInv DEF Script, frameVars
  <2>2. PumpInv'
    BY <1>1, <1>7, SamePump DEF Script, frameVars
  <2> QED
    BY <1>1, <2>1, <2>2 DEF CallersInv
<1>8. CASE UNCHANGED vars
  BY <1>1, <1>8, SameLua, SamePump DEF CallersInv, vars, frameVars
<1> QED
  BY <1>2, <1>3, <1>4, <1>5, <1>6, <1>7, <1>8 DEF Next, GameThread, UpdateBootstraps, Pump

LEMMA CallersHold == Spec => [](BootInv /\ CallersInv)
<1>1. BootInv /\ CallersInv /\ [Next]_vars => (BootInv /\ CallersInv)'
  BY BootNext, CallersNext
<1> QED
  BY <1>1, BootInit, CallersInit, PTL DEF Spec

LEMMA TypesSuffice == ASSUME BootInv, CallersInv PROVE TypeOK
<1>1. Sent \subseteq Message
  BY DEF Sent
<1>2. \A s \in Seq(Sent) : s \in Seq(Message)
  BY <1>1
<1>3. inbound \in Seq(Message) /\ scheduled \in Seq(Message) /\ handoff \in Seq(Message)
  BY <1>2 DEF CallersInv, LuaInv, HostInv
<1>4. contexts \in Seq([principal : STRING, cause : Causes, budget : 0..Budget,
                        exceeded : BOOLEAN, replies : 0..MaxReplies])
  <2> DEFINE All == [principal : STRING, cause : Causes, budget : 0..Budget, exceeded : BOOLEAN,
                     replies : 0..MaxReplies]
  <2>1. Entry \subseteq All
    BY DEF Entry
  <2> HIDE DEF All
  <2>2. contexts \in Seq(Entry)
    BY DEF CallersInv, LuaInv, StackInv
  <2>3. contexts \in Seq(All)
    BY <2>1, <2>2
  <2> QED
    BY <2>3 DEF All
<1>5. lua \in Seq([principal : STRING, cause : Causes, guards : Seq(Guards)])
  <2> DEFINE All == [principal : STRING, cause : Causes, guards : Seq(Guards)]
  <2>1. \A gs \in Seq(Held) : gs \in Seq(Guards)
    <3>1. Held \subseteq Guards
      BY DEF Held
    <3> HIDE DEF Held
    <3> QED
      BY <3>1
  <2>2. Frame \subseteq All
    BY <2>1 DEF Frame
  <2>3. lua \in Seq(Frame)
    BY DEF CallersInv, LuaInv, StackInv
  <2> HIDE DEF All
  <2>4. lua \in Seq(All)
    BY <2>2, <2>3
  <2> QED
    BY <2>4 DEF All
<1>6. LuaTypeOK
  BY <1>3, <1>4, <1>5 DEF CallersInv, LuaInv, StackInv, HostInv, LuaTypeOK
<1>7. /\ phase \in Phases /\ bootstrapFailed \in BOOLEAN /\ edits \in 0..MaxEdits
      /\ pumped \in {"Command", "Event"} /\ outbound \in 0..OutCapacity
  BY DEF CallersInv, FrameTypes, PumpInv
<1>8. /\ boot \in 1..(Len(Bootstraps) + 1) /\ placing \in Nat \ {0} /\ complete \subseteq BootIds
      /\ block \in [Cells -> Contents] /\ starts \in [BootIds -> Nat] /\ placed \in [BootIds -> Nat]
  BY DEF BootInv, BootTypes
<1> QED
  BY <1>3, <1>6, <1>7, <1>8 DEF TypeOK

LEMMA SendersSuffice == ASSUME CallersInv PROVE ContextIsCaller /\ SenderIsActing
<1>1. ContextIsCaller
  BY DEF CallersInv, LuaInv, StackInv, Matches, Same, ContextIsCaller
<1>2. ASSUME NEW s \in Seq(Sent), NEW m \in ToSet(s)
      PROVE  m \in Sent
  BY <1>2 DEF ToSet
<1>3. \A m \in ToSet(inbound) \cup ToSet(scheduled) : m \in Sent
  BY <1>2 DEF CallersInv, LuaInv, HostInv
<1>4. SenderIsActing
  BY <1>3 DEF SenderIsActing, Sent
<1> QED
  BY <1>1, <1>4

\* Whatever a script does, alone or from a nested query, from an error handler or
\* after an abort: the host's idea of who is calling is right, and no message
\* speaks for another than the one who made it (GameplayLuaRuntime, invoke and
\* buildEnvelope); the queues keep their capacity.
THEOREM CallersAreKnown == Spec => []CallerInv
<1>1. BootInv /\ CallersInv => CallerInv
  BY TypesSuffice, SendersSuffice DEF CallerInv
<1> QED
  BY <1>1, CallersHold, PTL
-----------------------------------------------------------------------------
(* Budget aborts.                                                          *)

\* Whatever finalizer runs in a function lies above one of its __close functions.
Covered(f) == \A j \in 1..Len(f.guards) :
                f.guards[j].kind = "finalizer" =>
                  \E k \in 1..(j - 1) : f.guards[k].kind = "closing"

\* A function without budget that has control, or waits for one that has it, is
\* in a __close function.
Fine(c, f, controls) == c.exceeded => (controls => Closing(f)) /\ Covered(f)

Spent == \A i \in 1..Len(lua) : Fine(contexts[i], lua[i], i < Len(lua) \/ raising = "none")

\* What a step does to the functions without budget.
Final == \A i \in 1..Len(contexts) :
           contexts[i].exceeded => \/ /\ i \in 1..Len(contexts')
                                      /\ contexts'[i].exceeded
                                      /\ raising' = "none" => Closing(lua'[i])
                                   \/ /\ i \notin 1..Len(contexts')
                                      /\ raising' # "none"

Lengths == /\ Len(contexts) = Len(lua) /\ Len(lua) \in Nat
           /\ Len(contexts') = Len(lua') /\ Len(lua') \in Nat

LEMMA LengthsHold ==
  ASSUME StackInv, StackInv'
  PROVE  Lengths
BY DEF StackInv, Matches, Lengths

LEMMA ChangeSpent ==
  ASSUME Lengths, Spent, lua # <<>>, StackInv, Len(lua') = Len(lua),
         \A i \in 1..(Len(lua) - 1) : lua'[i] = lua[i] /\ contexts'[i] = contexts[i],
         Fine(contexts'[Len(lua)], lua'[Len(lua)], raising' = "none"),
         contexts[Len(lua)].exceeded => contexts'[Len(lua)].exceeded
  PROVE  Spent' /\ Final
<1>1. Len(lua) \in Nat \ {0}
  BY DEF StackInv
<1>2. ASSUME NEW i \in 1..Len(lua)
      PROVE  /\ Fine(contexts'[i], lua'[i], i < Len(lua) \/ raising' = "none")
             /\ contexts[i].exceeded => /\ contexts'[i].exceeded
                                        /\ raising' = "none" => Closing(lua'[i])
  <2>1. CASE i = Len(lua)
    BY <1>1, <2>1 DEF Fine
  <2>2. CASE i # Len(lua)
    <3>1. i \in 1..(Len(lua) - 1) /\ i < Len(lua)
      BY <1>1, <2>2
    <3>2. lua'[i] = lua[i] /\ contexts'[i] = contexts[i] /\ Fine(contexts[i], lua[i], TRUE)
      BY <3>1 DEF Spent, Fine
    <3> QED
      BY <3>1, <3>2 DEF Fine
  <2> QED
    BY <2>1, <2>2
<1>3. Spent'
  BY <1>2 DEF Spent
<1>4. Final
  BY <1>2 DEF Final, Lengths
<1> QED
  BY <1>3, <1>4

LEMMA PushSpent ==
  ASSUME Lengths, Spent, raising = "none", Len(lua') = Len(lua) + 1,
         \A i \in 1..Len(lua) : lua'[i] = lua[i] /\ contexts'[i] = contexts[i],
         ~contexts'[Len(lua) + 1].exceeded
  PROVE  Spent' /\ Final
<1>1. ASSUME NEW i \in 1..Len(lua)
      PROVE  /\ lua'[i] = lua[i] /\ contexts'[i] = contexts[i]
             /\ Fine(contexts[i], lua[i], TRUE)
  BY <1>1 DEF Spent, Fine
<1>2. ASSUME NEW i \in 1..(Len(lua) + 1)
      PROVE  Fine(contexts'[i], lua'[i], TRUE)
  <2>1. CASE i = Len(lua) + 1
    BY <2>1 DEF Fine
  <2>2. CASE i # Len(lua) + 1
    <3>1. i \in 1..Len(lua)
      BY <2>2 DEF Lengths
    <3> QED
      BY <1>1, <3>1
  <2> QED
    BY <2>1, <2>2
<1>3. Spent'
  BY <1>2 DEF Spent, Fine
<1>4. Final
  BY <1>1 DEF Final, Lengths, Fine
<1> QED
  BY <1>3, <1>4

LEMMA PopSpent ==
  ASSUME Lengths, Spent, Len(lua) # 0, Len(lua') = Len(lua) - 1,
         \A i \in 1..(Len(lua) - 1) : lua'[i] = lua[i] /\ contexts'[i] = contexts[i],
         contexts[Len(lua)].exceeded => raising' # "none"
  PROVE  Spent' /\ Final
<1>1. ASSUME NEW i \in 1..(Len(lua) - 1)
      PROVE  /\ lua'[i] = lua[i] /\ contexts'[i] = contexts[i]
             /\ Fine(contexts[i], lua[i], TRUE)
  BY <1>1 DEF Spent, Fine, Lengths
<1>2. Spent'
  BY <1>1 DEF Spent, Fine, Lengths
<1>3. ASSUME NEW i \in 1..Len(contexts), contexts[i].exceeded
      PROVE  \/ /\ i \in 1..Len(contexts')
                /\ contexts'[i].exceeded
                /\ raising' = "none" => Closing(lua'[i])
             \/ /\ i \notin 1..Len(contexts')
                /\ raising' # "none"
  <2>1. CASE i = Len(lua)
    BY <1>3, <2>1 DEF Lengths
  <2>2. CASE i # Len(lua)
    <3>1. i \in 1..(Len(lua) - 1)
      BY <2>2 DEF Lengths
    <3> QED
      BY <1>1, <1>3, <3>1 DEF Lengths, Fine
  <2> QED
    BY <2>1, <2>2
<1>4. Final
  BY <1>3 DEF Final
<1> QED
  BY <1>2, <1>4

LEMMA SameSpent ==
  ASSUME Lengths, Spent, lua = <<>> \/ raising' = raising, UNCHANGED <<lua, contexts>>
  PROVE  Spent' /\ Final
<1>1. CASE lua = <<>>
  BY <1>1 DEF Spent, Final, Lengths
<1>2. CASE raising' = raising
  <2>1. Spent'
    BY <1>2 DEF Spent
  <2>2. ASSUME NEW i \in 1..Len(lua), contexts[i].exceeded, raising = "none"
        PROVE  Closing(lua[i])
    BY <2>2 DEF Spent, Fine
  <2>3. Final
    BY <1>2, <2>2 DEF Final, Lengths
  <2> QED
    BY <2>1, <2>3
<1> QED
  BY <1>1, <1>2

\* What is open in a function, and what is left of it without the innermost.
LEMMA ClosingIs ==
  ASSUME NEW f, f.guards \in Seq(Held)
  PROVE  Closing(f) <=> \E k \in 1..Len(f.guards) : f.guards[k].kind = "closing"
BY DEF Closing, ToSet

LEMMA TopSpent ==
  ASSUME StackInv, Spent, lua # <<>>
  PROVE  /\ Len(lua) \in Nat \ {0} /\ Len(contexts) = Len(lua)
         /\ Acting = lua[Len(lua)] /\ Caller = contexts[Len(lua)]
         /\ Fine(Caller, Acting, raising = "none")
<1>1. /\ Len(lua) \in Nat \ {0} /\ Len(contexts) = Len(lua)
      /\ Acting = lua[Len(lua)] /\ Caller = contexts[Len(lua)]
  BY DEF StackInv, Matches, Acting, Caller, Last
<1>2. Len(lua) \in 1..Len(lua)
  BY <1>1
<1> QED
  BY <1>1, <1>2 DEF Spent, Fine

\* A step that changes what is open in the function on top.
LEMMA GuardsSpent ==
  ASSUME Lengths, StackInv, Spent, lua # <<>>, NEW gs \in Seq(Held), lua' = WithGuards(gs),
         contexts' = contexts, Fine(Caller, [Acting EXCEPT !.guards = gs], raising' = "none")
  PROVE  Spent' /\ Final
<1> DEFINE f == [Acting EXCEPT !.guards = gs]
<1>1. f \in Frame
  BY GuardFrame
<1>2. lua' = SetTop(lua, f) /\ Fine(Caller, f, raising' = "none")
  BY DEF WithGuards
<1> HIDE DEF f
<1>3. /\ Len(SetTop(lua, f)) = Len(lua) /\ SetTop(lua, f)[Len(lua)] = f
      /\ \A i \in 1..(Len(lua) - 1) : SetTop(lua, f)[i] = lua[i]
  BY <1>1, TopFacts DEF StackInv
<1>4. Caller = contexts'[Len(lua)]
  BY TopSpent
<1>5. /\ Len(lua') = Len(lua) /\ lua'[Len(lua)] = f
      /\ \A i \in 1..(Len(lua) - 1) : lua'[i] = lua[i] /\ contexts'[i] = contexts[i]
  BY <1>2, <1>3
<1>6. Fine(contexts'[Len(lua)], lua'[Len(lua)], raising' = "none")
  BY <1>2, <1>4, <1>5
<1> QED
  BY <1>5, <1>6, ChangeSpent

\* A step that changes the context on top.
LEMMA ContextSpent ==
  ASSUME Lengths, StackInv, Spent, lua # <<>>, NEW c \in Entry, contexts' = SetTop(contexts, c),
         lua' = lua, Fine(c, Acting, raising' = "none"), Caller.exceeded => c.exceeded
  PROVE  Spent' /\ Final
<1>1. contexts \in Seq(Entry) /\ contexts # <<>>
  BY TopIs DEF StackInv
<1>2. /\ contexts'[Len(contexts)] = c
      /\ \A i \in 1..(Len(contexts) - 1) : contexts'[i] = contexts[i]
  <2>1. ASSUME NEW cs \in Seq(Entry), cs # <<>>
        PROVE  /\ SetTop(cs, c)[Len(cs)] = c
               /\ \A i \in 1..(Len(cs) - 1) : SetTop(cs, c)[i] = cs[i]
    BY ONLY <2>1, c \in Entry, TopFacts
  <2>2. /\ SetTop(contexts, c)[Len(contexts)] = c
        /\ \A i \in 1..(Len(contexts) - 1) : SetTop(contexts, c)[i] = contexts[i]
    BY <1>1, <2>1
  <2> QED
    BY <2>2
<1>3. Len(contexts) = Len(lua) /\ Acting = lua[Len(lua)] /\ Caller = contexts[Len(lua)]
  BY TopSpent
<1>4. Fine(contexts'[Len(lua)], lua'[Len(lua)], raising' = "none")
  BY <1>2, <1>3
<1> QED
  BY <1>2, <1>3, <1>4, ChangeSpent

\* One more is open, with control.
LEMMA OpenFine ==
  ASSUME NEW f \in Frame, NEW g \in Held, NEW c, Fine(c, f, TRUE)
  PROVE  Fine(c, [f EXCEPT !.guards = Append(f.guards, g)], TRUE)
<1> DEFINE gs == Append(f.guards, g)
<1>1. f.guards \in Seq(Held) /\ [f EXCEPT !.guards = gs].guards = gs
  BY DEF Frame
<1>2. /\ gs \in Seq(Held) /\ Len(f.guards) \in Nat /\ Len(gs) = Len(f.guards) + 1
      /\ \A i \in 1..Len(f.guards) : gs[i] = f.guards[i]
  BY <1>1, PushFacts
<1> DEFINE h == [f EXCEPT !.guards = gs]
<1>3. h.guards = gs
  BY <1>1
<1> HIDE DEF gs, h
<1>4. ASSUME c.exceeded
      PROVE  Closing(h) /\ Covered(h)
  <2>1. Closing(f) /\ Covered(f)
    BY <1>4 DEF Fine
  <2>2. PICK k \in 1..Len(f.guards) : f.guards[k].kind = "closing"
    BY <1>1, <2>1, ClosingIs
  <2>3. k \in 1..Len(gs) /\ gs[k].kind = "closing"
    BY <1>2, <2>2
  <2>4. Closing(h)
    BY <1>2, <1>3, <2>3, ClosingIs
  <2>5. ASSUME NEW j \in 1..Len(gs), gs[j].kind = "finalizer"
        PROVE  \E i \in 1..(j - 1) : gs[i].kind = "closing"
    <3>1. CASE j = Len(gs)
      BY <1>2, <2>2, <2>3, <3>1
    <3>2. CASE j # Len(gs)
      <4>1. j \in 1..Len(f.guards)
        BY <1>2, <3>2
      <4>2. PICK i \in 1..(j - 1) : f.guards[i].kind = "closing"
        BY <1>2, <2>1, <2>5, <4>1 DEF Covered
      <4>3. i \in 1..Len(f.guards)
        BY <1>2, <4>1
      <4> QED
        BY <1>2, <4>2, <4>3
    <3> QED
      BY <3>1, <3>2
  <2>6. Covered(h)
    BY <1>3, <2>5 DEF Covered
  <2> QED
    BY <2>4, <2>6
<1> QED
  BY <1>4 DEF Fine, h, gs

\* The innermost is gone: what was covered still is, and a finalizer leaves the
\* __close function that it ran in.
LEMMA LeaveFine ==
  ASSUME NEW f \in Frame, f.guards # <<>>, Covered(f)
  PROVE  /\ Covered([f EXCEPT !.guards = Front(f.guards)])
         /\ \/ Last(f.guards).kind = "finalizer"
            \/ Closing(f) /\ Last(f.guards).kind # "closing"
            => Closing([f EXCEPT !.guards = Front(f.guards)])
<1> DEFINE gs == Front(f.guards)
           h == [f EXCEPT !.guards = gs]
<1>1. f.guards \in Seq(Held) /\ h.guards = gs
  BY DEF Frame
<1>2. /\ gs \in Seq(Held) /\ Len(f.guards) \in Nat \ {0} /\ Len(gs) = Len(f.guards) - 1
      /\ \A i \in 1..(Len(f.guards) - 1) : gs[i] = f.guards[i]
      /\ Last(f.guards) = f.guards[Len(f.guards)]
  BY <1>1, FrontFacts
<1> HIDE DEF gs, h
<1>3. ASSUME NEW j \in 1..Len(gs), gs[j].kind = "finalizer"
      PROVE  \E i \in 1..(j - 1) : gs[i].kind = "closing"
  <2>1. j \in 1..Len(f.guards) /\ f.guards[j].kind = "finalizer"
    BY <1>2, <1>3
  <2>2. PICK i \in 1..(j - 1) : f.guards[i].kind = "closing"
    BY <2>1 DEF Covered
  <2>3. i \in 1..(Len(f.guards) - 1)
    BY <1>2
  <2> QED
    BY <1>2, <2>2, <2>3
<1>4. Covered(h)
  BY <1>1, <1>3 DEF Covered
<1>5. ASSUME NEW k \in 1..(Len(f.guards) - 1), f.guards[k].kind = "closing"
      PROVE  Closing(h)
  <2>1. k \in 1..Len(gs) /\ gs[k].kind = "closing"
    BY <1>2, <1>5
  <2> QED
    BY <1>1, <1>2, <2>1, ClosingIs
<1>6. CASE Last(f.guards).kind = "finalizer"
  <2>1. Len(f.guards) \in 1..Len(f.guards) /\ f.guards[Len(f.guards)].kind = "finalizer"
    BY <1>2, <1>6
  <2>2. PICK k \in 1..(Len(f.guards) - 1) : f.guards[k].kind = "closing"
    BY <2>1 DEF Covered
  <2>3. Closing(h)
    BY <1>5, <2>2
  <2> QED
    BY <1>4, <2>3 DEF h, gs
<1>7. CASE Closing(f) /\ Last(f.guards).kind # "closing"
  <2>1. PICK k \in 1..Len(f.guards) : f.guards[k].kind = "closing"
    BY <1>1, <1>7, ClosingIs
  <2>2. k \in 1..(Len(f.guards) - 1)
    BY <1>2, <1>7, <2>1
  <2>3. Closing(h)
    BY <1>5, <2>1, <2>2
  <2> QED
    BY <1>4, <2>3 DEF h, gs
<1> QED
  BY <1>4, <1>6, <1>7 DEF h, gs

\* A to-be-closed variable on the way up becomes its __close function.
LEMMA CloserFine ==
  ASSUME NEW f \in Frame, f.guards # <<>>, Covered(f), NEW g \in Held, g.kind = "closing"
  PROVE  /\ Covered([f EXCEPT !.guards = SetTop(f.guards, g)])
         /\ Closing([f EXCEPT !.guards = SetTop(f.guards, g)])
<1> DEFINE gs == SetTop(f.guards, g)
           h == [f EXCEPT !.guards = gs]
<1>1. f.guards \in Seq(Held) /\ h.guards = gs
  BY DEF Frame
<1>2. /\ gs \in Seq(Held) /\ Len(f.guards) \in Nat \ {0} /\ Len(gs) = Len(f.guards)
      /\ \A i \in 1..(Len(f.guards) - 1) : gs[i] = f.guards[i]
      /\ gs[Len(f.guards)] = g
  <2> DEFINE s == f.guards
  <2>1. s \in Seq(Held) /\ s # <<>> /\ gs = SetTop(s, g)
    BY <1>1
  <2> HIDE DEF s
  <2>2. /\ SetTop(s, g) \in Seq(Held) /\ Len(s) \in Nat \ {0} /\ Len(SetTop(s, g)) = Len(s)
        /\ \A i \in 1..(Len(s) - 1) : SetTop(s, g)[i] = s[i]
        /\ SetTop(s, g)[Len(s)] = g
    BY <2>1, TopFacts
  <2> QED
    BY <2>1, <2>2 DEF s
<1> HIDE DEF gs, h
<1>3. Closing(h)
  <2>1. Len(f.guards) \in 1..Len(gs) /\ gs[Len(f.guards)].kind = "closing"
    BY <1>2
  <2> QED
    BY <1>1, <1>2, <2>1, ClosingIs
<1>4. ASSUME NEW j \in 1..Len(gs), gs[j].kind = "finalizer"
      PROVE  \E i \in 1..(j - 1) : gs[i].kind = "closing"
  <2>1. j \in 1..(Len(f.guards) - 1)
    BY <1>2, <1>4
  <2>2. j \in 1..Len(f.guards) /\ f.guards[j].kind = "finalizer"
    BY <1>2, <1>4, <2>1
  <2>3. PICK i \in 1..(j - 1) : f.guards[i].kind = "closing"
    BY <2>2 DEF Covered
  <2>4. i \in 1..(Len(f.guards) - 1)
    BY <1>2, <2>1
  <2> QED
    BY <1>2, <2>3, <2>4
<1>5. Covered(h)
  BY <1>1, <1>4 DEF Covered
<1> QED
  BY <1>3, <1>5 DEF h, gs

\* Steps of scripts that leave what is open alone.
LEMMA CallsSpent ==
  ASSUME Lengths, StackInv, Spent, lua # <<>>,
         \/ InstructionBudgetHook \/ Compute \/ RaiseError
         \/ \E spec \in Specs : LuaBusSend(spec) \/ LuaBusScheduleAfter(spec) \/ LuaBusQuery(spec)
         \/ \E fields \in ReplyTables : LuaBusReply(fields)
  PROVE  Spent' /\ Final
<1>1. Fine(Caller, Acting, raising = "none") /\ Caller \in Entry /\ Acting \in Frame
  BY TopIs, TopSpent
<1>2. ScriptRuns /\ raising = "none"
  BY DEF InstructionBudgetHook, Compute, RaiseError, LuaBusSend, LuaBusScheduleAfter, LuaBusQuery,
         LuaBusReply, MayStep, ScriptRuns
<1>3. Fine(Caller, Acting, TRUE) /\ Fine(Caller, Acting, raising' = "none")
  BY <1>1, <1>2 DEF Fine
<1>4. CASE UNCHANGED <<lua, contexts>>
  <2>1. Fine(contexts'[Len(lua)], lua'[Len(lua)], raising' = "none")
    BY <1>3, <1>4, TopSpent
  <2> QED
    BY <1>4, <2>1, ChangeSpent
<1>5. CASE InstructionBudgetHook /\ contexts' # contexts
  <2> DEFINE over == [Caller EXCEPT !.exceeded = TRUE]
             paid == [Caller EXCEPT !.budget = @ - 1]
  <2>1. /\ over \in Entry /\ over.exceeded
        /\ Caller.budget > 0 => paid \in Entry /\ paid.exceeded = Caller.exceeded
    BY <1>1, EntrySteps DEF Entry
  <2>2. \/ contexts' = SetTop(contexts, over) /\ raising' = "abort" /\ ~FinalizerRuns
        \/ Caller.budget > 0 /\ contexts' = SetTop(contexts, paid)
    BY <1>5 DEF InstructionBudgetHook
  <2>3. lua' = lua
    BY <1>5 DEF InstructionBudgetHook
  <2>4. CASE contexts' = SetTop(contexts, over) /\ raising' = "abort" /\ ~FinalizerRuns
    <3>1. FinalizersIn(Acting) = {} /\ Acting.guards \in Seq(Held)
      BY <2>4, TopIs, TopSpent DEF FinalizerRuns, StackInv
    <3>2. Covered(Acting)
      BY <3>1 DEF FinalizersIn, ToSet, Covered
    <3>3. Fine(over, Acting, raising' = "none")
      BY <2>4, <3>2 DEF Fine
    <3> HIDE DEF over
    <3> QED
      BY <2>1, <2>3, <2>4, <3>3, ContextSpent
  <2>5. CASE Caller.budget > 0 /\ contexts' = SetTop(contexts, paid)
    <3>1. Fine(paid, Acting, raising' = "none")
      BY <1>3, <2>1, <2>5 DEF Fine
    <3> HIDE DEF paid
    <3> QED
      BY <2>1, <2>3, <2>5, <3>1, ContextSpent
  <2> QED
    BY <2>2, <2>4, <2>5
<1>6. ASSUME NEW fields \in ReplyTables, LuaBusReply(fields), contexts' # contexts
      PROVE  Spent' /\ Final
  <2> DEFINE n == IF Caller.replies < MaxReplies THEN Caller.replies + 1 ELSE Caller.replies
             c == [Caller EXCEPT !.replies = n]
  <2>1. n \in 0..MaxReplies
    BY TopIs DEF MaxReplies
  <2>2. contexts' = SetTop(contexts, c) /\ lua' = lua
    BY <1>6 DEF LuaBusReply
  <2>3. c \in Entry /\ c.exceeded = Caller.exceeded
    <3> HIDE DEF n
    <3> QED
      BY <1>1, <2>1, EntrySteps DEF Entry
  <2>4. Fine(c, Acting, raising' = "none")
    BY <1>3, <2>3 DEF Fine
  <2> HIDE DEF c
  <2> QED
    BY <2>2, <2>3, <2>4, ContextSpent
<1>7. ASSUME NEW spec \in Specs, NEW b \in SlotsOf(BuildEnvelope(spec)),
             Nested(b, BuildEnvelope(spec).id)
      PROVE  Spent' /\ Final
  <2> DEFINE f == Call(b.principal, BuildEnvelope(spec).id)
             c == Context(b.principal, BuildEnvelope(spec).id)
  <2>1. lua' = Append(lua, f) /\ contexts' = Append(contexts, c) /\ ~c.exceeded
    BY <1>7 DEF Nested, Context
  <2> HIDE DEF f, c
  <2>2. lua \in Seq(Frame) /\ contexts \in Seq(Entry) /\ Len(contexts) = Len(lua)
    BY DEF StackInv, Matches
  <2>3. /\ Len(lua') = Len(lua) + 1 /\ contexts'[Len(lua) + 1] = c
        /\ \A i \in 1..Len(lua) : lua'[i] = lua[i] /\ contexts'[i] = contexts[i]
    BY <2>1, <2>2
  <2> QED
    BY <1>2, <2>1, <2>3, PushSpent
<1> QED
  BY <1>4, <1>5, <1>6, <1>7
     DEF InstructionBudgetHook, Compute, RaiseError, LuaBusSend, LuaBusScheduleAfter, LuaBusQuery,
         LuaBusReply

\* Steps that open or leave something in the function on top.
LEMMA ScopesSpent ==
  ASSUME Lengths, StackInv, Spent, lua # <<>>,
         \/ RunFinalizer \/ \E kind \in {"pcall", "xpcall", "close"} : Open(kind)
         \/ LeaveNormally \/ CatchError \/ RunErrorHandler \/ ReRaiseAbort
         \/ RunCloser \/ CloserFails \/ FinalizerFails
  PROVE  Spent' /\ Final
<1>1. Fine(Caller, Acting, raising = "none") /\ Acting \in Frame /\ Acting.guards \in Seq(Held)
  BY TopIs, TopSpent
<1>2. contexts' = contexts
  BY DEF RunFinalizer, Open, LeaveNormally, CatchError, RunErrorHandler, ReRaiseAbort, RunCloser,
         CloserFails, FinalizerFails, ReachedBy
<1>3. ASSUME NEW g \in Held, raising = "none", lua' = WithGuards(Append(Acting.guards, g))
      PROVE  Spent' /\ Final
  <2>1. Append(Acting.guards, g) \in Seq(Held)
    BY <1>1, PushFacts
  <2>2. Fine(Caller, [Acting EXCEPT !.guards = Append(Acting.guards, g)], TRUE)
    BY <1>1, <1>3, OpenFine DEF Fine
  <2>3. Fine(Caller, [Acting EXCEPT !.guards = Append(Acting.guards, g)], raising' = "none")
    BY <2>2 DEF Fine
  <2> QED
    BY <1>2, <1>3, <2>1, <2>3, GuardsSpent
<1>4. ASSUME Acting.guards # <<>>, lua' = WithGuards(Front(Acting.guards)),
             \/ raising' # "none"
             \/ ~Caller.exceeded
             \/ Innermost.kind = "finalizer"
             \/ Closing(Acting) /\ Innermost.kind # "closing"
      PROVE  Spent' /\ Final
  <2>1. Front(Acting.guards) \in Seq(Held)
    BY <1>1, <1>4, FrontFacts
  <2>2. Fine(Caller, [Acting EXCEPT !.guards = Front(Acting.guards)], raising' = "none")
    BY <1>1, <1>4, LeaveFine DEF Fine, Innermost
  <2> QED
    BY <1>2, <1>4, <2>1, <2>2, GuardsSpent
<1>5. ASSUME Acting.guards # <<>>, NEW g \in Held, lua' = WithGuards(SetTop(Acting.guards, g)),
             ~Caller.exceeded \/ g.kind = "closing"
      PROVE  Spent' /\ Final
  <2>1. SetTop(Acting.guards, g) \in Seq(Held)
    BY <1>1, <1>5, TopFacts
  <2>2. Fine(Caller, [Acting EXCEPT !.guards = SetTop(Acting.guards, g)], raising' = "none")
    BY <1>1, <1>5, CloserFine DEF Fine
  <2> QED
    BY <1>2, <1>5, <2>1, <2>2, GuardsSpent
<1>6. ASSUME NEW kind \in {"pcall", "xpcall", "close", "finalizer"}, NEW name \in STRING
      PROVE  [Guard(kind) EXCEPT !.script = name] \in Held /\ Guard(kind) \in Held
  BY <1>6, LuaAssumption, PrincipalsAssumption DEF Guard, Guards, Held, Errors
<1>7. CASE RunFinalizer
  <2>1. PICK name \in Scripts :
          lua' = WithGuards(Append(Acting.guards, [Guard("finalizer") EXCEPT !.script = name]))
    BY <1>7 DEF RunFinalizer
  <2>2. name \in STRING /\ raising = "none"
    BY <1>7, PrincipalsAssumption DEF Scripts, RunFinalizer, ScriptRuns
  <2> QED
    BY <1>3, <1>6, <2>1, <2>2
<1>8. ASSUME NEW kind \in {"pcall", "xpcall", "close"}, Open(kind)
      PROVE  Spent' /\ Final
  <2>1. lua' = WithGuards(Append(Acting.guards, Guard(kind))) /\ raising = "none"
    BY <1>8 DEF Open, MayStep, ScriptRuns
  <2>2. Guard(kind) \in Held
    BY <1>6, PrincipalsAssumption
  <2> QED
    BY <1>3, <2>1, <2>2
<1>9. CASE LeaveNormally
  <2>1. /\ raising = "none" /\ Acting.guards # <<>> /\ raising' = Innermost.held
        /\ lua' = WithGuards(Front(Acting.guards))
    BY <1>9 DEF LeaveNormally, ScriptRuns, LeaveInnermost
  <2>2. Innermost \in Held
    BY <1>1, <2>1, FrontFacts DEF Innermost
  <2>3. Caller.exceeded => Closing(Acting)
    BY <1>1, <2>1 DEF Fine
  <2>4. Innermost.kind = "closing" => raising' # "none"
    BY <2>1, <2>2 DEF Held
  <2> QED
    BY <1>4, <2>1, <2>3, <2>4
<1>10. CASE CatchError \/ ReRaiseAbort \/ CloserFails \/ FinalizerFails
  <2>1. /\ Acting.guards # <<>> /\ lua' = WithGuards(Front(Acting.guards))
        /\ \/ raising' # "none"
           \/ ~Caller.exceeded
           \/ Innermost.kind = "finalizer"
    BY <1>10 DEF CatchError, ReRaiseAbort, CloserFails, FinalizerFails, ReachedBy, LeaveInnermost
  <2> QED
    BY <1>4, <2>1
<1>11. CASE RunErrorHandler
  <2> DEFINE left == IF Innermost.kind = "xpcall" THEN HandlerRuns ELSE Innermost.left
             again == [Guard("handler") EXCEPT !.left = left - 1]
  <2>1. /\ Acting.guards # <<>> /\ ~Caller.exceeded
        /\ lua' = WithGuards(IF left = 0 THEN Front(Acting.guards) ELSE SetTop(Acting.guards, again))
    BY <1>11 DEF RunErrorHandler, ReachedBy
  <2>2. CASE left = 0
    BY <1>4, <2>1, <2>2
  <2>3. CASE left # 0
    <3>1. Innermost \in Held
      BY <1>1, <2>1, FrontFacts DEF Innermost
    <3>2. left \in 0..HandlerRuns /\ HandlerRuns \in Nat
      BY <3>1, LuaAssumption DEF Held, Guards
    <3>3. left - 1 \in 0..HandlerRuns
      BY <2>3, <3>2
    <3>4. lua' = WithGuards(SetTop(Acting.guards, again))
      BY <2>1, <2>3
    <3> HIDE DEF left
    <3>5. again \in Held
      BY <3>3, PrincipalsAssumption DEF Held, Guards, Guard, Errors
    <3> HIDE DEF again
    <3> QED
      BY <1>5, <2>1, <3>4, <3>5
  <2> QED
    BY <2>2, <2>3
<1>12. CASE RunCloser
  <2> DEFINE g == [Guard("closing") EXCEPT !.held = raising]
  <2>1. g \in Held /\ g.kind = "closing"
    BY <1>12, LuaAssumption, PrincipalsAssumption DEF Held, Guards, Guard, Errors, RunCloser, ReachedBy
  <2>2. Acting.guards # <<>> /\ lua' = WithGuards(SetTop(Acting.guards, g))
    BY <1>12 DEF RunCloser, ReachedBy
  <2> HIDE DEF g
  <2> QED
    BY <1>5, <2>1, <2>2
<1> QED
  BY <1>7, <1>8, <1>9, <1>10, <1>11, <1>12

\* A function without budget does not return: its __close functions are over.
LEMMA EndSpent ==
  ASSUME Lengths, StackInv, Spent, lua # <<>>, FunctionReturns \/ InvokeThrows
  PROVE  Spent' /\ Final
<1>1. /\ lua' = Front(lua) /\ contexts' = Front(contexts) /\ Acting.guards = <<>>
      /\ raising = "none" \/ raising' = raising
  BY DEF FunctionReturns, InvokeThrows, ScriptRuns
<1>2. /\ Fine(Caller, Acting, raising = "none") /\ Len(lua) \in Nat \ {0}
      /\ Caller = contexts[Len(lua)]
  BY TopSpent
<1>3. ~Closing(Acting)
  <2>1. ToSet(Acting.guards) = {}
    BY <1>1 DEF ToSet
  <2> QED
    BY <2>1 DEF Closing
<1>4. contexts[Len(lua)].exceeded => raising' # "none"
  BY <1>1, <1>2, <1>3 DEF Fine
<1>5. /\ lua \in Seq(Frame) /\ contexts \in Seq(Entry) /\ Len(contexts) = Len(lua) /\ contexts # <<>>
  BY TopIs DEF StackInv, Matches
<1>6. /\ Len(Front(lua)) = Len(lua) - 1
      /\ \A i \in 1..(Len(lua) - 1) : Front(lua)[i] = lua[i]
      /\ \A i \in 1..(Len(contexts) - 1) : Front(contexts)[i] = contexts[i]
  BY <1>5, FrontFacts
<1>7. /\ Len(lua') = Len(lua) - 1
      /\ \A i \in 1..(Len(lua) - 1) : lua'[i] = lua[i] /\ contexts'[i] = contexts[i]
  BY <1>1, <1>5, <1>6
<1> QED
  BY <1>2, <1>4, <1>7, PopSpent

\* The host invokes on an empty stack, and takes exceptions there.
LEMMA HostSpent ==
  ASSUME Lengths, StackInv, Spent, GameThread \/ TimerDue \/ UNCHANGED vars, ~Script
  PROVE  Spent' /\ Final
<1>1. \/ lua = <<>> /\ raising = "none" /\ \E p, c : /\ lua' = <<Call(p, c)>>
                                                     /\ contexts' = Append(contexts, Context(p, c))
      \/ UNCHANGED <<lua, contexts>> /\ (lua = <<>> \/ raising' = raising)
  <2>1. CASE InvokeStart \/ PumpOne
    BY <2>1 DEF InvokeStart, PumpOne, Invoke, luaVars
  <2>2. CASE LoadContent \/ StartReturned \/ HandlerReturned
    BY <2>2 DEF LoadContent, StartReturned, HandlerReturned, Returned, Threw, Caught
  <2>3. CASE \/ PollEvents \/ View \/ CheckBootstrap \/ MakePlacement \/ BootstrapsUpdated
             \/ DrainDue \/ FrameDone \/ TimerDue \/ UNCHANGED vars
    BY <2>3 DEF PollEvents, View, ChunkCommitted, ChunkEvicted, NothingStreamed, EndView,
                CheckBootstrap, MakePlacement, BootstrapsUpdated, DrainDue, FrameDone, TimerDue,
                luaVars, vars
  <2> QED
    BY <2>1, <2>2, <2>3 DEF GameThread, UpdateBootstraps, Pump
<1>2. CASE UNCHANGED <<lua, contexts>> /\ (lua = <<>> \/ raising' = raising)
  BY <1>2, SameSpent
<1>3. ASSUME NEW p, NEW c, lua = <<>>, raising = "none", lua' = <<Call(p, c)>>,
             contexts' = Append(contexts, Context(p, c))
      PROVE  Spent' /\ Final
  <2>1. contexts = <<>>
    BY <1>3 DEF Lengths
  <2>2. contexts' = <<Context(p, c)>>
    BY <1>3, <2>1
  <2>3. Len(lua') = Len(lua) + 1 /\ ~contexts'[Len(lua) + 1].exceeded /\ Len(lua) = 0
    BY <1>3, <2>2 DEF Context
  <2> QED
    BY <1>3, <2>3, PushSpent
<1> QED
  BY <1>1, <1>2, <1>3

LEMMA SpentNext ==
  ASSUME CallersInv, CallersInv', Spent, [Next]_vars
  PROVE  Spent' /\ Final
<1>1. StackInv /\ Lengths
  BY LengthsHold DEF CallersInv, LuaInv
<1>2. CASE Script
  <2>1. lua # <<>>
    BY <1>2 DEF Script, ScriptStep, InstructionBudgetHook, ScriptCalls, Compute, RaiseError, LuaBusSend,
                LuaBusScheduleAfter, LuaBusQuery, LuaBusReply, Open, RunFinalizer, MayStep, ScriptRuns,
                LeaveNormally, FunctionReturns, Unwinding, CatchError, RunErrorHandler, ReRaiseAbort,
                RunCloser, CloserFails, FinalizerFails, InvokeThrows, ReachedBy
  <2> QED
    BY <1>1, <1>2, <2>1, CallsSpent, ScopesSpent, EndSpent DEF Script, ScriptStep, ScriptCalls, Unwinding
<1>3. CASE ~Script
  BY <1>1, <1>3, HostSpent DEF Next
<1> QED
  BY <1>2, <1>3

LEMMA SpentInit == ASSUME Init PROVE Spent
<1>1. Len(lua) = 1 /\ contexts[1].exceeded = FALSE
  BY DEF Init, Context
<1> QED
  BY <1>1 DEF Spent, Fine

\* Once an invocation ran out of budget, the script that made it gets control
\* only in its to-be-closed variables, also when one of them replaces the abort
\* by an error of its own, and the invocation ends in an exception
\* (budgetAbortPending, luaSafePcall, luaSafeXpcall, invoke).
THEOREM AbortsHold == Spec => AbortIsFinal
<1>1. ASSUME CallersInv, CallersInv', Spent, [Next]_vars
      PROVE  [Final]_luaVars /\ Spent'
  BY <1>1, SpentNext
<1>2. CallersInv /\ CallersInv' => (Final => \A i \in DOMAIN contexts : contexts[i].exceeded =>
                                        \/ /\ i \in DOMAIN contexts'
                                           /\ contexts'[i].exceeded
                                           /\ raising' = "none" => Closing(lua'[i])
                                        \/ /\ i \notin DOMAIN contexts'
                                           /\ raising' # "none")
  BY DEF Final, CallersInv, LuaInv, StackInv
<1>3. Spec => [](CallersInv /\ Spent)
  BY <1>1, SpentInit, CallersHold, PTL DEF Spec
<1> QED
  BY <1>1, <1>2, <1>3, PTL DEF Spec, AbortIsFinal
=============================================================================
