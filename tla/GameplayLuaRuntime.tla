------------------------- MODULE GameplayLuaRuntime -------------------------
(***************************************************************************)
(* src/world/scripting/GameplayLuaRuntime.cpp: gameplay scripts in one Lua *)
(* state on the game thread, their bus calls, nested queries, the          *)
(* instruction budget that nothing in a script may catch, and the          *)
(* budget-aware pcall and xpcall.                                          *)
(*                                                                         *)
(* Two stacks grow and shrink together and are kept apart here as they are *)
(* in the program: "lua", what the Lua state is really executing, and      *)
(* "contexts" (invocationStack), the host's idea of who is calling.  Every *)
(* authority a script has comes from the top of the second one.            *)
(*                                                                         *)
(* A script is arbitrary: while it runs it may make any call at any time.  *)
(* Every call takes at least one instruction; the count hook fires each    *)
(* BudgetStep instructions and charges the context that is on top then,    *)
(* whoever executed them.  setmetatable is in the sandbox, so two kinds of *)
(* code run at times no call asks for: finalizers (__gc), in the middle of *)
(* any script and without the hook, and to-be-closed variables (__close),  *)
(* while an error or an abort is on its way up.  Other metamethods run     *)
(* where the script itself does.                                           *)
(***************************************************************************)
EXTENDS Integers, SequencesExt

CONSTANTS Bindings,            \* handlers of the bus: id, kind, schema, principal
          Native,              \* the principal of handlers written in C++
          Nobody,              \* the empty principal of a script's top level
          Specs,               \* message tables that scripts pass to the bus
          ReplyTables,         \* reply tables, as sets of their fields
          Budget,              \* mInstructionBudget, in units of kBudgetStep
          BudgetStep,          \* kBudgetStep: instructions between two hooks
          MaxInvocationDepth,  \* mMaxInvocationDepth
          HandlerRuns,         \* runs of an xpcall handler until Lua gives up
          InCapacity,          \* capacity of the inbound queue A
          MaxId,               \* bound of the model on message ids
          MaxNesting           \* bound of the model on calls under way, by the next id;
                               \* Lua has a bound of its own

ASSUME LuaAssumption == /\ Budget \in Nat
                        /\ BudgetStep \in Nat \ {0}
                        /\ MaxInvocationDepth \in Nat \ {0}
                        /\ HandlerRuns \in Nat \ {0}
                        /\ InCapacity \in Nat
                        /\ MaxId \in Nat
                        /\ MaxNesting \in [1..(MaxId + 1) -> Nat]

\* The manifest is refused where a principal is empty.
ASSUME PrincipalsAssumption ==
  /\ Nobody \in STRING
  /\ \A b \in Bindings : b.principal \in STRING \ {Nobody}
  /\ \A spec \in Specs : {spec.to, spec.kind, spec.schema} \subseteq STRING

VARIABLES lua,        \* running script functions, each with what is open in it
          contexts,   \* invocationStack
          hookCount,  \* instructions left until the hook fires, one count per Lua state
          raising,    \* the error on its way up: none, an error, or a budget abort
          replied,    \* replies of the host's invocation, when it has ended
          inbound,    \* A
          scheduled,  \* the scheduler's queue
          nextId      \* the bus's id source

luaVars == <<lua, contexts, hookCount, raising, replied, inbound, scheduled, nextId>>

NoCause == 0
Errors == {"none", "error", "abort"}
Causes == 0..(MaxId + 1)
Scripts == {b.principal : b \in Bindings} \ {Native}

\* What can be open in a running function: a protected call, an xpcall handler
\* with the runs it has left, a to-be-closed variable, its __close function at
\* work with the error it interrupted, a finalizer of some script.
Guards == [kind : {"pcall", "xpcall", "handler", "close", "closing", "finalizer"},
           left : 0..HandlerRuns, held : Errors, script : STRING]
Guard(kind) == [kind |-> kind, left |-> 0, held |-> "none", script |-> Nobody]

\* author, authorCause, finalizer: history, the code that really made the call.
Message == [id : 1..MaxId, sender : STRING, to : STRING, kind : STRING, schema : STRING,
            correlation : Causes, author : STRING, authorCause : Causes, finalizer : BOOLEAN]

\* A running script function.  The host pushes a context for it.
Call(principal, cause) == [principal |-> principal, cause |-> cause, guards |-> <<>>]
Context(principal, cause) ==
  [principal |-> principal, cause |-> cause, budget |-> Budget, exceeded |-> FALSE,
   replies |-> 0]

Caller == Last(contexts)
Acting == Last(lua)
SetTop(s, x) == Append(Front(s), x)

FinalizersIn(f) == {g \in ToSet(f.guards) : g.kind = "finalizer"}
FinalizerRuns == \E i \in DOMAIN lua : FinalizersIn(lua[i]) # {}

\* Calls under way in the Lua state, host calls and protected ones alike.
Nesting == FoldLeft(LAMBDA n, f : n + Len(f.guards), Len(lua), lua)
MayNest == Nesting < MaxNesting[nextId]

LuaInit == /\ raising = "none"
           /\ hookCount = BudgetStep
           /\ replied = 0
           /\ inbound = <<>>
           /\ scheduled = <<>>
           /\ nextId = 1
-----------------------------------------------------------------------------
(* Strict decoding of what a script passes.                                *)

\* The value fields each payload schema has, all of them and no other.
PayloadFields == [none |-> {}, block_place |-> {"runtime_id"}, block_target |-> {"target"},
                  property_set |-> {"property", "value"}, query |-> {"property"},
                  event_value |-> {"value"}]

DecodePayload(spec) == /\ spec.schema \in DOMAIN PayloadFields
                       /\ spec.values = PayloadFields[spec.schema]

RequiredFields == {"receiver", "context", "action"}
OptionalFields == {"capability", "reply_to", "target", "causal", "kind", "payload"}

\* decodeMessageSpec: an unknown field (a sender, an id) is refused.
DecodeMessageSpec(spec) == /\ RequiredFields \subseteq spec.fields
                           /\ spec.fields \subseteq RequiredFields \cup OptionalFields
                           /\ spec.kind \in {"Command", "Event", "Query"}
                           /\ DecodePayload(spec)

\* decodeReplyPayload.
DecodeReply(fields) == fields \subseteq {"schema", "ok", "error", "value"}

\* buildEnvelope: the host assigns the sender and the id; a causal message is
\* linked with the current cause.
BuildEnvelope(spec) ==
  LET mine == FinalizersIn(Acting)
  IN [id |-> nextId, sender |-> Caller.principal, to |-> spec.to, kind |-> spec.kind,
      schema |-> spec.schema,
      correlation |-> IF spec.causal THEN Caller.cause ELSE NoCause,
      author |-> IF mine = {} THEN Acting.principal ELSE (CHOOSE g \in mine : TRUE).script,
      authorCause |-> IF mine = {} THEN Acting.cause ELSE NoCause,
      finalizer |-> mine # {}]

\* The slot of a message: its address, its kind and its payload schema.
SlotsOf(m) == {b \in Bindings : b.id = m.to /\ b.kind = m.kind /\ b.schema = m.schema}
MaxOutputs(kind) == IF kind = "Event" THEN 0 ELSE 1
MaxReplies == 2
-----------------------------------------------------------------------------
(* Budget.                                                                 *)

ScriptRuns == lua # <<>> /\ raising = "none"
MayStep == ScriptRuns /\ hookCount > 0
Executed == hookCount' = hookCount - 1

\* instructionBudgetHook: the context on top pays for the last BudgetStep
\* instructions, or is aborted.  Lua calls no hook while a finalizer runs.
InstructionBudgetHook ==
  /\ ScriptRuns
  /\ hookCount = 0
  /\ hookCount' = BudgetStep
  /\ \/ /\ FinalizerRuns
        /\ UNCHANGED <<contexts, raising>>
     \/ /\ ~FinalizerRuns
        /\ Caller.budget > 0
        /\ contexts' = SetTop(contexts, [Caller EXCEPT !.budget = @ - 1])
        /\ UNCHANGED raising
     \/ /\ ~FinalizerRuns
        /\ Caller.budget = 0
        /\ contexts' = SetTop(contexts, [Caller EXCEPT !.exceeded = TRUE])
        /\ raising' = "abort"
  /\ UNCHANGED <<lua, replied, inbound, scheduled, nextId>>

\* An instruction; world.get_block and every other reading call.
Compute == /\ MayStep
           /\ Executed
           /\ UNCHANGED <<lua, contexts, raising, replied, inbound, scheduled, nextId>>

\* error(), and a call that C++ refuses: its exception becomes a Lua error.
RaiseError == /\ MayStep
              /\ Executed
              /\ raising' = "error"
              /\ UNCHANGED <<lua, contexts, replied, inbound, scheduled, nextId>>
-----------------------------------------------------------------------------
(* Bus calls.                                                              *)

\* requireHandlerContext: not at a script's top level.
HandlerContext == Caller.cause # NoCause
Sendable(spec) == HandlerContext /\ DecodeMessageSpec(spec) /\ spec.kind # "Query"

\* bus.send.  The bus refuses an unknown slot, or has no room: the call raises
\* an error and nothing is queued.
LuaBusSend(spec) ==
  LET e == BuildEnvelope(spec)
      accepted == Sendable(spec) /\ SlotsOf(e) # {} /\ Len(inbound) < InCapacity
  IN /\ MayStep
     /\ nextId \in 1..MaxId
     /\ Executed
     /\ \/ /\ accepted
           /\ inbound' = Append(inbound, e)
           /\ nextId' = nextId + 1
           /\ UNCHANGED raising
        \/ /\ ~accepted
           /\ raising' = "error"
           /\ UNCHANGED <<inbound, nextId>>
     /\ UNCHANGED <<lua, contexts, replied, scheduled>>

\* bus.schedule_after_ms: the scheduler takes any message that decodes.
LuaBusScheduleAfter(spec) ==
  /\ MayStep
  /\ nextId \in 1..MaxId
  /\ Executed
  /\ \/ /\ Sendable(spec)
        /\ scheduled' = Append(scheduled, BuildEnvelope(spec))
        /\ nextId' = nextId + 1
        /\ UNCHANGED raising
     \/ /\ ~Sendable(spec)
        /\ raising' = "error"
        /\ UNCHANGED <<scheduled, nextId>>
  /\ UNCHANGED <<lua, contexts, replied, inbound>>

\* bus.reply: collected in the caller's context, counted until there are more
\* than any contract allows.
LuaBusReply(fields) ==
  LET accepted == HandlerContext /\ DecodeReply(fields)
  IN /\ MayStep
     /\ Executed
     /\ \/ /\ accepted
           /\ contexts' = SetTop(contexts, [Caller EXCEPT !.replies =
                                              IF @ < MaxReplies THEN @ + 1 ELSE @])
           /\ UNCHANGED raising
        \/ /\ ~accepted
           /\ raising' = "error"
           /\ UNCHANGED contexts
     /\ UNCHANGED <<lua, replied, inbound, scheduled, nextId>>

\* bridgeHandler and invoke: the script that answers runs on top of its caller,
\* with a context and a budget of its own; the hook goes on counting.
Nested(b, cause) ==
  /\ lua' = Append(lua, Call(b.principal, cause))
  /\ contexts' = Append(contexts, Context(b.principal, cause))

\* bus.query: dispatched at once, within the depth limit.  Only the ids of
\* messages that outlive the call are counted, so the bound on ids does not
\* bound queries.
LuaBusQuery(spec) ==
  LET e == BuildEnvelope(spec)
      accepted == /\ HandlerContext
                  /\ DecodeMessageSpec(spec)
                  /\ spec.kind = "Query"
                  /\ SlotsOf(e) # {}
                  /\ Len(contexts) < MaxInvocationDepth
  IN /\ MayStep
     /\ Executed
     /\ \/ /\ accepted
           /\ MayNest
           /\ \E b \in SlotsOf(e) : Nested(b, e.id)
           /\ UNCHANGED raising
        \/ /\ ~accepted
           /\ raising' = "error"
           /\ UNCHANGED <<lua, contexts>>
     /\ UNCHANGED <<replied, inbound, scheduled, nextId>>
-----------------------------------------------------------------------------
(* Protected calls, returns and errors.                                    *)

WithGuards(gs) == SetTop(lua, [Acting EXCEPT !.guards = gs])
Innermost == Last(Acting.guards)
LeaveInnermost == lua' = WithGuards(Front(Acting.guards))

\* luaSafePcall, luaSafeXpcall up to the call of the protected function; a
\* variable declared <close>.
Open(kind) ==
  /\ MayStep
  /\ MayNest
  /\ Executed
  /\ lua' = WithGuards(Append(Acting.guards, Guard(kind)))
  /\ UNCHANGED <<contexts, raising, replied, inbound, scheduled, nextId>>

\* The collector runs the finalizer of an object that some script gave one, in
\* the middle of whatever script runs; never one inside another.  (One that the
\* host's own allocations set off, with no script running, has no context, and
\* each of its calls is refused.)
RunFinalizer ==
  /\ ScriptRuns
  /\ MayNest
  /\ ~FinalizerRuns
  /\ \E s \in Scripts :
       lua' = WithGuards(Append(Acting.guards, [Guard("finalizer") EXCEPT !.script = s]))
  /\ UNCHANGED <<contexts, hookCount, raising, replied, inbound, scheduled, nextId>>

\* The innermost of them ends normally; after a __close function the error that
\* it interrupted goes on.
LeaveNormally ==
  /\ ScriptRuns
  /\ Acting.guards # <<>>
  /\ LeaveInnermost
  /\ raising' = Innermost.held
  /\ UNCHANGED <<contexts, hookCount, replied, inbound, scheduled, nextId>>

\* The script function returns; its replies go to the one who called, which
\* keeps none of them in the model.  More replies than the contract allows are
\* an error for a querying script.
FunctionReturns ==
  /\ ScriptRuns
  /\ Acting.guards = <<>>
  /\ lua' = Front(lua)
  /\ contexts' = Front(contexts)
  /\ replied' = IF Len(lua) > 1 THEN 0 ELSE Caller.replies
  /\ raising' = IF Len(lua) > 1 /\ Caller.replies > MaxOutputs("Query") THEN "error"
                ELSE "none"
  /\ UNCHANGED <<hookCount, inbound, scheduled, nextId>>

\* An error reaches something of the given kinds that is open.
ReachedBy(error, kinds) == /\ raising \in error
                           /\ lua # <<>>
                           /\ Acting.guards # <<>>
                           /\ Innermost.kind \in kinds
                           /\ UNCHANGED <<contexts, hookCount, replied, inbound, scheduled,
                                          nextId>>

\* Faulty variants: a plain pcall, which takes the abort for an error; a pcall
\* that knows an abort by its sentinel alone.
CatchError_Stock == /\ ReachedBy({"error", "abort"}, {"pcall"})
                    /\ raising' = "none"
                    /\ LeaveInnermost

CatchError_SentinelOnly == /\ ReachedBy({"error"}, {"pcall"})
                           /\ raising' = "none"
                           /\ LeaveInnermost

\* luaSafePcall after the call failed: (false, error) for the script, unless
\* its invocation ran out of budget.
CatchError == /\ ReachedBy({"error"}, {"pcall"})
              /\ ~Caller.exceeded
              /\ raising' = "none"
              /\ LeaveInnermost

\* luaSafeXpcall after the call failed: the handler runs, guarded; one that
\* fails runs again, until Lua gives up and xpcall returns that.
RunErrorHandler ==
  /\ ReachedBy({"error"}, {"xpcall", "handler"})
  /\ ~Caller.exceeded
  /\ LET left == IF Innermost.kind = "xpcall" THEN HandlerRuns ELSE Innermost.left
         again == [Guard("handler") EXCEPT !.left = left - 1]
     IN lua' = WithGuards(IF left = 0 THEN Front(Acting.guards)
                          ELSE SetTop(Acting.guards, again))
  /\ raising' = "none"

\* budgetAbortPending: the sentinel, and any error in an invocation that ran out
\* of budget, passes every protected call as an abort, and no handler sees it.
ReRaiseAbort ==
  /\ ReachedBy({"error", "abort"}, {"pcall", "xpcall", "handler"})
  /\ raising = "abort" \/ Caller.exceeded
  /\ raising' = "abort"
  /\ LeaveInnermost

\* A to-be-closed variable goes out of scope on the way up: script code runs
\* although an error, or an abort, is under way,
RunCloser ==
  /\ ReachedBy({"error", "abort"}, {"close"})
  /\ lua' = WithGuards(SetTop(Acting.guards, [Guard("closing") EXCEPT !.held = raising]))
  /\ raising' = "none"

\* and an error that it raises itself takes the place of the one it interrupted.
CloserFails == /\ ReachedBy({"error", "abort"}, {"closing"})
               /\ LeaveInnermost
               /\ UNCHANGED raising

\* A finalizer that fails is a warning.
FinalizerFails == /\ ReachedBy({"error", "abort"}, {"finalizer"})
                  /\ LeaveInnermost
                  /\ raising' = "none"

\* Faulty variant: the context of a failed invocation is not popped.
InvokeThrows_KeepsContext ==
  /\ raising # "none"
  /\ lua # <<>>
  /\ Acting.guards = <<>>
  /\ lua' = Front(lua)
  /\ replied' = 0
  /\ UNCHANGED <<contexts, hookCount, raising, inbound, scheduled, nextId>>

\* invoke and loadScript leave by an exception: the context is popped on that
\* path too, and a querying script gets the error or the abort in its turn.
\* Only the sentinel makes it an abort for the caller.
InvokeThrows ==
  /\ raising # "none"
  /\ lua # <<>>
  /\ Acting.guards = <<>>
  /\ lua' = Front(lua)
  /\ contexts' = Front(contexts)
  /\ replied' = 0
  /\ UNCHANGED <<hookCount, raising, inbound, scheduled, nextId>>

\* invoke by the host, when no script runs.
Invoke(principal, cause) ==
  /\ lua = <<>>
  /\ raising = "none"
  /\ lua' = <<Call(principal, cause)>>
  /\ contexts' = Append(contexts, Context(principal, cause))
  /\ UNCHANGED <<hookCount, raising, replied>>

\* Every call a script may make, and the way of errors.
ScriptCalls == \/ Compute
               \/ RaiseError
               \/ \E spec \in Specs : \/ LuaBusSend(spec)
                                      \/ LuaBusScheduleAfter(spec)
                                      \/ LuaBusQuery(spec)
               \/ \E fields \in ReplyTables : LuaBusReply(fields)
               \/ \E kind \in {"pcall", "xpcall", "close"} : Open(kind)
Unwinding == \/ CatchError \/ RunErrorHandler \/ ReRaiseAbort
             \/ RunCloser \/ CloserFails \/ FinalizerFails \/ InvokeThrows

ScriptStep == \/ InstructionBudgetHook
              \/ ScriptCalls
              \/ RunFinalizer
              \/ LeaveNormally
              \/ FunctionReturns
              \/ Unwinding
-----------------------------------------------------------------------------
(* Properties.                                                             *)

LuaTypeOK == /\ lua \in Seq([principal : STRING, cause : Causes, guards : Seq(Guards)])
             /\ contexts \in Seq([principal : STRING, cause : Causes, budget : 0..Budget,
                                  exceeded : BOOLEAN, replies : 0..MaxReplies])
             /\ hookCount \in 0..BudgetStep
             /\ raising \in Errors
             /\ replied \in 0..MaxReplies
             /\ inbound \in Seq(Message)
             /\ scheduled \in Seq(Message)
             /\ nextId \in 1..(MaxId + 1)
             /\ Len(inbound) <= InCapacity
             /\ Len(contexts) <= MaxInvocationDepth

\* The host's idea of who is calling is the Lua state's: one context for each
\* running script function, of the same principal and cause, whatever errors,
\* aborts and nested queries came before.
ContextIsCaller ==
  /\ Len(contexts) = Len(lua)
  /\ \A i \in 1..Len(lua) : /\ contexts[i].principal = lua[i].principal
                            /\ contexts[i].cause = lua[i].cause

\* Every message that is queued or scheduled names as its sender the function
\* that made the call, and is linked with nothing but the message that function
\* was handling, also when it is made by a to-be-closed variable on the way of
\* an error.  The exception is a finalizer: it speaks for the invocation that it
\* interrupts, never for nobody.
SenderIsActing ==
  \A m \in ToSet(inbound) \cup ToSet(scheduled) :
    /\ m.sender # Nobody
    /\ ~m.finalizer => /\ m.sender = m.author
                       /\ m.correlation \in {NoCause, m.authorCause}

Closing(f) == \E g \in ToSet(f.guards) : g.kind = "closing"

\* An invocation that ran out of budget never gets control back but in its
\* to-be-closed variables: none of its protected calls returns to it and none of
\* its handlers runs, also if such a variable puts an error of its own in the
\* place of the abort; and whoever called it gets an exception.
AbortIsFinal ==
  [][\A i \in DOMAIN contexts : contexts[i].exceeded =>
       \/ /\ i \in DOMAIN contexts'
          /\ contexts'[i].exceeded
          /\ raising' = "none" => Closing(lua'[i])
       \/ /\ i \notin DOMAIN contexts'
          /\ raising' # "none"]_luaVars

\* No invocation goes on for ever by itself, whatever its errors, handlers and
\* to-be-closed variables do: it ends, or it queries again and again, or a
\* finalizer runs.
LoneInvocationsEnd ==
  \A depth \in 1..MaxInvocationDepth : []<>(Len(contexts) # depth \/ FinalizerRuns)
=============================================================================
