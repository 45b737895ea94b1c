---------------------- MODULE MCDelayedMessageScheduler ----------------------
(* Small instances of DelayedMessageScheduler for TLC. *)
EXTENDS DelayedMessageScheduler

=============================================================================
