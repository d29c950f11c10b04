----------------------------- MODULE MCPushGate -----------------------------
(***************************************************************************)
(* Values for PushGate: a bundle that passes the pre-audit, one with an    *)
(* empty field and one with a sensitive text.                              *)
(***************************************************************************)
EXTENDS PushGate

Text(length) == [length |-> length, sensitive |-> FALSE]
Secret == [length |-> 2, sensitive |-> TRUE]
Predicate == [length |-> 1, sensitive |-> FALSE, allowed |-> TRUE]
Bundle(subject) ==
    [origin |-> Text(1),
     entities |-> << >>,
     relations |-> <<[subject |-> subject, predicate |-> Predicate, object |-> Text(1)]>>]

Clean == Bundle(Text(1))
Broken == Bundle(Text(0))
Sensitive == Bundle(Secret)

CleanOrSensitive == {Clean, Sensitive}
CleanOrBroken == {Clean, Broken}

=============================================================================
