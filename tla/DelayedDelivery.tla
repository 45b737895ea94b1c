--------------------------- MODULE DelayedDelivery ---------------------------
(***************************************************************************)
(* What the delayed message scheduler promises, without threads, locks,    *)
(* condition variables or a staging deque.  An accepted message waits with *)
(* a due time and a sequence number.  It leaves exactly once, never before *)
(* its due time, and never ahead of an older message that was due no later *)
(* ("A -> B -> C" of the class comment).  It either reaches the inbound    *)
(* bus or is dropped there by a permanent rejection.                       *)
(***************************************************************************)
EXTENDS Naturals, Sequences

CONSTANTS SequenceStart,  \* first sequence number handed out
          SequenceMax,    \* the number that is never handed out
          TimeMax         \* last representable scheduler time

VARIABLES now,        \* virtual time
          next,       \* sequence number of the next accepted message
          open,       \* calls are accepted (until shutdown)
          waiting,    \* accepted messages that have not left
          delivered,  \* messages handed to the bus, in order
          dropped     \* messages the bus permanently rejected

dvars == <<now, next, open, waiting, delivered, dropped>>

\* f must leave before e: f was accepted earlier and is due no later.
Precedes(f, e) == f.seq < e.seq /\ f.due <= e.due

MayLeave(e) == /\ e \in waiting
               /\ e.due <= now
               /\ \A f \in waiting : ~Precedes(f, e)

Init == /\ now = 0
        /\ next = SequenceStart
        /\ open = TRUE
        /\ waiting = {}
        /\ delivered = <<>>
        /\ dropped = {}

Accept(due) == /\ open
               /\ next < SequenceMax
               /\ waiting' = waiting \cup {[due |-> due, seq |-> next]}
               /\ next' = next + 1
               /\ UNCHANGED <<now, open, delivered, dropped>>

Deliver(e) == /\ MayLeave(e)
              /\ waiting' = waiting \ {e}
              /\ delivered' = Append(delivered, e)
              /\ UNCHANGED <<now, next, open, dropped>>

Drop(e) == /\ MayLeave(e)
           /\ waiting' = waiting \ {e}
           /\ dropped' = dropped \cup {e}
           /\ UNCHANGED <<now, next, open, delivered>>

Close == /\ open
         /\ open' = FALSE
         /\ UNCHANGED <<now, next, waiting, delivered, dropped>>

Tick == /\ now < TimeMax
        /\ now' = now + 1
        /\ UNCHANGED <<next, open, waiting, delivered, dropped>>

Next == \/ \E due \in 0..TimeMax : Accept(due)
        \/ \E e \in waiting : Deliver(e) \/ Drop(e)
        \/ Close
        \/ Tick

Spec == Init /\ [][Next]_dvars
=============================================================================
