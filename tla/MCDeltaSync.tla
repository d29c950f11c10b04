---------------------------- MODULE MCDeltaSync ----------------------------
(***************************************************************************)
(* Values for DeltaSync: one bundle brings two entities and a relation     *)
(* between them, the other a relation back, so that a second commit can    *)
(* hold a triple of old entities only.                                     *)
(***************************************************************************)
EXTENDS DeltaSync, TLC

CONSTANTS n1, alice, bob

MCNames == {alice, bob}
MCUpper == [p \in {"is_a"} |-> "IS_A"]
MCAllowed == {"IS_A"}

Rel(s, o) == [subject |-> s, predicate |-> "is_a", object |-> o]
There == [origin |-> n1, entities |-> <<alice>>, relations |-> <<Rel(alice, bob)>>]
Back == [origin |-> n1, entities |-> <<>>, relations |-> <<Rel(bob, alice)>>]
MCBundles == {There, Back}

\* Shorter ones for the larger runs: either may be the first to bring `alice`,
\* and only one of them brings her with a domain.
Alone == [origin |-> n1, entities |-> <<alice>>, relations |-> <<>>]
Pair == [origin |-> n1, entities |-> <<>>, relations |-> <<Rel(alice, bob)>>]
ShortBundles == {Alone, Pair}

Symmetry == Permutations(Entries) \cup Permutations(Requests)

=============================================================================
