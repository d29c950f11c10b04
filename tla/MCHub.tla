------------------------------- MODULE MCHub -------------------------------
(***************************************************************************)
(* Values for Hub: one bundle that passes the pre-audit and one with a     *)
(* sensitive text; what they say differs in the end of a relation.         *)
(***************************************************************************)
EXTENDS Hub, TLC

CONSTANTS n1, alice, bob

Text(length) == [length |-> length, sensitive |-> FALSE]
Secret == [length |-> 2, sensitive |-> TRUE]
Predicate == [length |-> 1, sensitive |-> FALSE, allowed |-> TRUE]
Bundle(subject) ==
    [origin |-> Text(1),
     entities |-> << >>,
     relations |-> <<[subject |-> subject, predicate |-> Predicate, object |-> Text(1)]>>]
Clean == Bundle(Text(1))
Sensitive == Bundle(Secret)
MCPushed == {Clean, Sensitive}

MCNames == {alice, bob}
MCUpper == [p \in {"is_a"} |-> "IS_A"]
MCAllowed == {"IS_A"}
About(name) ==
    [origin |-> n1, entities |-> <<name>>, relations |-> << >>]
MCStored == {About(alice), About(bob)}
MCKnowledge == [b \in MCPushed |-> IF b = Clean THEN About(alice) ELSE About(bob)]

Symmetry == Permutations(Keys) \cup Permutations(Entries)

=============================================================================
