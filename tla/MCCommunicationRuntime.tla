----------------------- MODULE MCCommunicationRuntime -----------------------
(* Small instances of CommunicationRuntime for TLC. *)
EXTENDS CommunicationRuntime

CONSTANT foo

FooOnly == {foo}
CommandOnly == {"Command"}
\* The explicit id "core:foo.0" is the text that registerHandler generates first.
FirstAutoId == {AutoId(foo, 0)}
\* Its name only: TLC evaluates the body of a definition that stands for a constant at
\* every use, any other constant definition once.
CollidingIds == FirstAutoId
=============================================================================
