---------------------------- MODULE GameplayFrame ----------------------------
(***************************************************************************)
(* One frame of the program (src/app/Application.cpp, runFrameUpdate) with *)
(* its gameplay content (src/world/scripting/GameplayContentRuntime.cpp):  *)
(* input, streaming, the bootstraps of the content, delayed messages into  *)
(* the bus, and the pump that runs scripts and block commands.             *)
(*                                                                         *)
(* Composes GameplayLuaRuntime with a short form of the bus and of the     *)
(* scheduler (their own modules have them in full: here A is bounded, the  *)
(* outputs in B are only counted, and times are left to the timer thread,  *)
(* which hands over any scheduled message or none).  "phase" is the  *)
(* place in the frame; while "lua" is not empty the frame waits for it.    *)
(***************************************************************************)
EXTENDS GameplayLuaRuntime, FiniteSets

CONSTANTS Cells,        \* block addresses
          Solid,        \* what world generation put in a solid cell
          Bootstraps,   \* sequence of [placements, principal]
          OutCapacity,  \* capacity of the outbound queue B
          MaxEdits      \* bound of the model on player edits and evictions

ASSUME FrameAssumption == /\ OutCapacity \in Nat
                          /\ MaxEdits \in Nat

VARIABLES phase,            \* where the frame is
          bootstrapFailed,  \* mGameplayBootstrapFailed
          complete,         \* the completed bootstraps
          boot,             \* the bootstrap being updated
          placing,          \* its placement being made
          block,            \* the world around the placements
          handoff,          \* the scheduler's handoff, due messages
          pumped,           \* kind of the message being handled
          outbound,         \* number of outputs in B
          edits,            \* edits and evictions so far
          starts,           \* history: how often each start function was invoked
          placed            \* history: placements made, by bootstrap

frameVars == <<phase, bootstrapFailed, complete, boot, placing, block, handoff, pumped,
               outbound, edits, starts, placed>>
vars == <<luaVars, frameVars>>

Air == "air"
Unloaded == "unloaded"

\* The manifest may not place air.
ASSUME BootstrapsAssumption ==
  Bootstraps \in Seq([principal : STRING \ {Nobody},
                      placements : Seq([cell : Cells, id : STRING \ {Air, Unloaded},
                                        replace : BOOLEAN])])

BootIds == 1..Len(Bootstraps)
Placements(b) == Bootstraps[b].placements
Contents == {Air, Unloaded, Solid} \cup
            UNION {{Placements(b)[i].id : i \in DOMAIN Placements(b)} : b \in BootIds}
Stops == {"quit", "load failed", "message rejected", "backpressure", "handler failed"}
Phases == {"load", "poll", "view", "bootstrap", "placing", "starting", "drain", "pump",
           "handling"} \cup Stops

\* The scripts' top level runs first, without a cause.
Init == /\ LuaInit
        /\ lua = <<Call(Nobody, NoCause)>>
        /\ contexts = <<Context(Nobody, NoCause)>>
        /\ phase = "load"
        /\ bootstrapFailed = FALSE
        /\ complete = {}
        /\ boot = 1
        /\ placing = 1
        /\ block = [c \in Cells |-> Unloaded]
        /\ handoff = <<>>
        /\ pumped = "Event"
        /\ outbound = 0
        /\ edits = 0
        /\ starts = [b \in BootIds |-> 0]
        /\ placed = [b \in BootIds |-> 0]

\* The host has control again: with the result, or with the exception.
Returned == lua = <<>> /\ raising = "none"
Threw == lua = <<>> /\ raising # "none"
Caught == /\ raising' = "none"
          /\ replied' = 0
          /\ UNCHANGED <<lua, contexts, hookCount, inbound, scheduled, nextId>>

\* loadIfPresent after loadScript: an exception ends the start of the program.
LoadContent ==
  /\ phase = "load"
  /\ \/ Returned /\ phase' = "poll"
     \/ Threw /\ phase' = "load failed"
  /\ Caught
  /\ UNCHANGED <<bootstrapFailed, complete, boot, placing, block, handoff, pumped, outbound, edits,
                 starts, placed>>
-----------------------------------------------------------------------------
(* The start of a frame.                                                   *)

\* pollEvents: nothing, the player places or removes a block, or quits.
PollEvents ==
  /\ phase = "poll"
  /\ \/ phase' = "view" /\ UNCHANGED <<block, edits>>
     \/ /\ edits < MaxEdits
        /\ \E c \in Cells : /\ block[c] # Unloaded
                            /\ block' = [block EXCEPT ![c] = IF @ = Air THEN Solid ELSE Air]
        /\ edits' = edits + 1
        /\ phase' = "view"
     \/ phase' = "quit" /\ UNCHANGED <<block, edits>>
  /\ UNCHANGED luaVars
  /\ UNCHANGED <<bootstrapFailed, complete, boot, placing, handoff, pumped, outbound, starts,
                 placed>>

EndView == /\ phase' = IF bootstrapFailed THEN "drain" ELSE "bootstrap"
           /\ boot' = 1
           /\ UNCHANGED luaVars
           /\ UNCHANGED <<bootstrapFailed, complete, placing, handoff, pumped, outbound, starts,
                          placed>>

\* updateCameraView: streaming brings a generated chunk,
ChunkCommitted(c) == /\ phase = "view"
                     /\ block[c] = Unloaded
                     /\ \E g \in {Air, Solid} : block' = [block EXCEPT ![c] = g]
                     /\ UNCHANGED edits
                     /\ EndView

\* takes one away that is too far, or does nothing this time.
ChunkEvicted == /\ phase = "view"
                /\ edits < MaxEdits
                /\ \E c \in Cells : /\ block[c] # Unloaded
                                    /\ block' = [block EXCEPT ![c] = Unloaded]
                /\ edits' = edits + 1
                /\ EndView

NothingStreamed == phase = "view" /\ UNCHANGED <<block, edits>> /\ EndView
-----------------------------------------------------------------------------
(* updateBootstraps.                                                       *)

\* A cell the placement may not have: another block, replacement not declared.
Occupied(p) == block[p.cell] \notin {Unloaded, Air, p.id} /\ ~p.replace

\* Faulty variant: cells are not waited for.
Problems_NotWaiting(ps) == {i \in DOMAIN ps : Occupied(ps[i])}

\* The placements that stop the first loop; the first of them decides.
Problems(ps) == {i \in DOMAIN ps : block[ps[i].cell] = Unloaded \/ Occupied(ps[i])}

\* Faulty variant: what the frame loop catches is forgotten.
BootstrapFails_NoLatch == /\ UNCHANGED bootstrapFailed
                          /\ phase' = "drain"

\* The exception leaves updateBootstraps; the frame loop remembers it for good.
BootstrapFails == /\ bootstrapFailed' = TRUE
                  /\ phase' = "drain"

\* Faulty variant: a bootstrap that must wait ends the loop.
NextBootstrap_Ends == /\ boot' = IF boot \in complete THEN boot + 1 ELSE Len(Bootstraps) + 1
                      /\ UNCHANGED <<phase, placing, bootstrapFailed>>

\* continue.
NextBootstrap == /\ boot' = boot + 1
                 /\ UNCHANGED <<phase, placing, bootstrapFailed>>

\* The first loop over the placements of one bootstrap: done before, not all
\* there yet, refused, or ready.  Nothing has been changed so far.
CheckBootstrap ==
  /\ phase = "bootstrap"
  /\ boot \in BootIds
  /\ LET ps == Placements(boot)
         first == CHOOSE i \in Problems(ps) : \A j \in Problems(ps) : i <= j
     IN \/ /\ boot \in complete \/ (Problems(ps) # {} /\ ~Occupied(ps[first]))
           /\ NextBootstrap
        \/ /\ boot \notin complete
           /\ Problems(ps) # {}
           /\ Occupied(ps[first])
           /\ BootstrapFails
           /\ UNCHANGED <<boot, placing>>
        \/ /\ boot \notin complete
           /\ Problems(ps) = {}
           /\ phase' = "placing"
           /\ placing' = 1
           /\ UNCHANGED <<boot, bootstrapFailed>>
  /\ UNCHANGED luaVars
  /\ UNCHANGED <<complete, block, handoff, pumped, outbound, edits, starts, placed>>

\* The second loop: an occupied cell is emptied by a remove command, then the
\* place command fills it, both dispatched at once.  They are refused for a
\* cell that is not there, and the bootstrap fails where it is.
MakePlacement ==
  /\ phase = "placing"
  /\ placing \in DOMAIN Placements(boot)
  /\ LET p == Placements(boot)[placing]
         accepted == block[p.cell] # Unloaded
     IN /\ block' = IF accepted THEN [block EXCEPT ![p.cell] = p.id] ELSE block
        /\ placed' = IF accepted THEN [placed EXCEPT ![boot] = @ + 1] ELSE placed
        /\ IF accepted THEN UNCHANGED <<phase, bootstrapFailed>> ELSE BootstrapFails
  /\ placing' = placing + 1
  /\ UNCHANGED luaVars
  /\ UNCHANGED <<complete, boot, handoff, pumped, outbound, edits, starts>>

\* The start function is invoked with a cause of its own, past the bus.
InvokeStart ==
  /\ phase = "placing"
  /\ placing \notin DOMAIN Placements(boot)
  /\ Invoke(Bootstraps[boot].principal, nextId)
  /\ phase' = "starting"
  /\ starts' = [starts EXCEPT ![boot] = @ + 1]
  /\ UNCHANGED <<inbound, scheduled, nextId, bootstrapFailed, complete, boot, placing, block, handoff,
                 pumped, outbound, edits, placed>>

\* The function returned (its replies go nowhere), or threw.
StartReturned ==
  /\ phase = "starting"
  /\ \/ /\ Returned
        /\ complete' = complete \cup {boot}
        /\ boot' = boot + 1
        /\ phase' = "bootstrap"
        /\ UNCHANGED bootstrapFailed
     \/ Threw /\ BootstrapFails /\ UNCHANGED <<complete, boot>>
  /\ Caught
  /\ UNCHANGED <<placing, block, handoff, pumped, outbound, edits, starts, placed>>

BootstrapsUpdated == /\ phase = "bootstrap"
                     /\ boot \notin BootIds
                     /\ phase' = "drain"
                     /\ UNCHANGED luaVars
                     /\ UNCHANGED <<bootstrapFailed, complete, boot, placing, block, handoff,
                                    pumped, outbound, edits, starts, placed>>
-----------------------------------------------------------------------------
(* Delayed messages and the pump.                                          *)

\* The timer thread hands over a message whose time has come.  It may do so at
\* any moment; the frame sees it when it drains.
TimerDue ==
  /\ phase = "drain"
  /\ \E i \in DOMAIN scheduled : /\ handoff' = Append(handoff, scheduled[i])
                                 /\ scheduled' = RemoveAt(scheduled, i)
  /\ UNCHANGED <<lua, contexts, hookCount, raising, replied, inbound, nextId>>
  /\ UNCHANGED <<phase, bootstrapFailed, complete, boot, placing, block, pumped, outbound, edits,
                 starts, placed>>

\* drainDueTo, one turn: a message that no slot takes is removed, and the
\* exception leaves the frame; one that finds A full stays and ends the drain.
DrainDue ==
  /\ phase = "drain"
  /\ \/ /\ handoff # <<>>
        /\ SlotsOf(Head(handoff)) # {}
        /\ Len(inbound) < InCapacity
        /\ inbound' = Append(inbound, Head(handoff))
        /\ handoff' = Tail(handoff)
        /\ UNCHANGED phase
     \/ /\ handoff # <<>>
        /\ SlotsOf(Head(handoff)) = {}
        /\ handoff' = Tail(handoff)
        /\ phase' = "message rejected"
        /\ UNCHANGED inbound
     \/ /\ handoff # <<>> => SlotsOf(Head(handoff)) # {} /\ Len(inbound) = InCapacity
        /\ phase' = "pump"
        /\ UNCHANGED <<inbound, handoff>>
  /\ UNCHANGED <<lua, contexts, hookCount, raising, replied, scheduled, nextId>>
  /\ UNCHANGED <<bootstrapFailed, complete, boot, placing, block, pumped, outbound, edits,
                 starts, placed>>

\* The capacity pre-flight: B can take all that the contract allows.
Room(kind) == outbound + MaxOutputs(kind) <= OutCapacity

\* pumpOne: without room for the outputs it throws and the program ends; a
\* command for the world runs at once and has one reply; a script is invoked.
PumpOne ==
  /\ phase = "pump"
  /\ inbound # <<>>
  /\ LET m == Head(inbound)
     IN \/ /\ ~Room(m.kind)
           /\ phase' = "backpressure"
           /\ UNCHANGED <<luaVars, pumped, outbound>>
        \/ \E b \in SlotsOf(m) :
             /\ Room(m.kind)
             /\ inbound' = Tail(inbound)
             /\ \/ /\ b.principal = Native
                   /\ outbound' = outbound + MaxOutputs(m.kind)
                   /\ UNCHANGED <<lua, contexts, hookCount, raising, replied, phase, pumped>>
                \/ /\ b.principal # Native
                   /\ Invoke(b.principal, m.id)
                   /\ phase' = "handling"
                   /\ pumped' = m.kind
                   /\ UNCHANGED outbound
             /\ UNCHANGED <<scheduled, nextId>>
  /\ UNCHANGED <<bootstrapFailed, complete, boot, placing, block, handoff, edits, starts, placed>>

\* The router and the output contract accept the replies.
ContractAccepts == replied <= MaxOutputs(pumped)

\* pumpOne after the handler: its replies are committed to B.  An exception,
\* and more replies than the contract allows, leave the frame.
HandlerReturned ==
  /\ phase = "handling"
  /\ \/ /\ Returned
        /\ ContractAccepts
        /\ outbound' = outbound + replied
        /\ phase' = "pump"
     \/ /\ Threw \/ (Returned /\ ~ContractAccepts)
        /\ phase' = "handler failed"
        /\ UNCHANGED outbound
  /\ Caught
  /\ UNCHANGED <<bootstrapFailed, complete, boot, placing, block, handoff, pumped,
                 edits, starts, placed>>

\* A is empty: the frame is drawn and the next one begins.
FrameDone == /\ phase = "pump"
             /\ inbound = <<>>
             /\ phase' = "poll"
             /\ UNCHANGED luaVars
             /\ UNCHANGED <<bootstrapFailed, complete, boot, placing, block, handoff, pumped, outbound,
                            edits, starts, placed>>
-----------------------------------------------------------------------------
Script == ScriptStep /\ UNCHANGED frameVars

View == (\E c \in Cells : ChunkCommitted(c)) \/ ChunkEvicted \/ NothingStreamed
UpdateBootstraps == \/ CheckBootstrap \/ MakePlacement \/ InvokeStart
                    \/ StartReturned \/ BootstrapsUpdated
Pump == PumpOne \/ HandlerReturned \/ FrameDone
GameThread == \/ LoadContent \/ PollEvents \/ View \/ UpdateBootstraps \/ DrainDue \/ Pump
              \/ Script

Next == GameThread \/ TimerDue

Spec == Init /\ [][Next]_vars

\* The one game thread goes on.  Nothing is assumed of streaming: it loads what
\* is near the camera.
FairSpec == Spec /\ WF_vars(GameThread)
-----------------------------------------------------------------------------
(* Properties.                                                             *)

TypeOK == /\ LuaTypeOK
          /\ phase \in Phases
          /\ bootstrapFailed \in BOOLEAN
          /\ complete \subseteq BootIds
          /\ boot \in 1..(Len(Bootstraps) + 1)
          /\ placing \in Nat \ {0}
          /\ block \in [Cells -> Contents]
          /\ handoff \in Seq(Message)
          /\ pumped \in {"Command", "Event"}
          /\ outbound \in 0..OutCapacity
          /\ edits \in 0..MaxEdits
          /\ starts \in [BootIds -> Nat]
          /\ placed \in [BootIds -> Nat]

\* A start function runs at most once in the life of the program, whatever it
\* does: a failed one is not tried again in the next frame (its timers and
\* commands would multiply).
StartedAtMostOnce == \A b \in BootIds : starts[b] <= 1

\* A bootstrap is refused before it changes anything: outside of the second
\* loop all its placements were made or none, and never twice.
PlacedAllOrNone ==
  \A b \in BootIds : \/ placed[b] \in {0, Len(Placements(b))}
                     \/ phase = "placing" /\ b = boot /\ placed[b] = placing - 1

\* A bootstrap waits for nothing but its own cells: at the end of an update
\* that nothing made fail, each one is complete or has a placement whose chunk
\* is not there.  One that waits does not hold up those after it, and none is
\* taken for done because a cell was empty or held its block already.
OnlyMissingCellsWait ==
  phase = "bootstrap" /\ boot \notin BootIds =>
    \A b \in BootIds : b \in complete \/ \E i \in DOMAIN Placements(b) :
                                            block[Placements(b)[i].cell] = Unloaded

\* The comment in submit says of a full B that it "is handled at pump time and
\* keeps the retry semantics": the message waits, the program goes on.
BackpressureRetries == phase # "backpressure"

\* Who speaks, in one invariant: types, the contexts of the host, the senders of
\* all messages but those of finalizers.
CallerInv == TypeOK /\ ContextIsCaller /\ SenderIsActing
=============================================================================
