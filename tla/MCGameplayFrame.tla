-------------------------- MODULE MCGameplayFrame --------------------------
\* Two scripts and the world: a handles a command and starts the first
\* bootstrap, which declares one of its cells as replaceable; b answers queries
\* and starts the second.
EXTENDS GameplayFrame

Binding(id, kind, schema, principal) ==
  [id |-> id, kind |-> kind, schema |-> schema, principal |-> principal]
MCBindings == {Binding("a", "Command", "none", "a"), Binding("b", "Query", "none", "b"),
               Binding("world", "Command", "property_set", "native")}

Spec0(to, kind, schema) ==
  [to |-> to, kind |-> kind, schema |-> schema, values |-> PayloadFields[schema],
   fields |-> RequiredFields, causal |-> TRUE]
MCSpecs == {Spec0("a", "Command", "none"), Spec0("b", "Query", "none"),
            [Spec0("world", "Command", "property_set") EXCEPT !.causal = FALSE],
            Spec0("b", "Event", "none")}
MCReplyTables == {{"ok"}}

MCBootstraps ==
  <<[principal |-> "a", placements |-> <<[cell |-> "c1", id |-> "A", replace |-> FALSE],
                                         [cell |-> "c2", id |-> "B", replace |-> TRUE]>>],
    [principal |-> "b", placements |-> <<>>]>>

\* Calls nest deepest in the start functions that run before any message.
MCMaxNesting == <<3, 1, 1>>
=============================================================================
