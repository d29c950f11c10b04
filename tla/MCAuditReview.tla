--------------------------- MODULE MCAuditReview ---------------------------
(***************************************************************************)
(* Values for the constants of AuditReview.  Two nodes that push           *)
(* overlapping bundles: `bob` is an entity of one and an end of a relation *)
(* of the other, both state the same relation in two spellings, and one    *)
(* bundle claims the other node's name as its origin.                      *)
(***************************************************************************)
EXTENDS AuditReview, TLC

CONSTANTS n1, n2, alice, bob

MCNames == {alice, bob}
MCRaw == {"is_a", "IS_A", "likes"}
MCUpper == [p \in MCRaw |-> IF p = "likes" THEN "LIKES" ELSE "IS_A"]
MCAllowed == {"IS_A"}

Rel(s, p, o) == [subject |-> s, predicate |-> p, object |-> o]
Bundle(n, ents, rels) == [origin |-> n, entities |-> ents, relations |-> rels]

First == Bundle(n1, <<alice>>, <<Rel(alice, "is_a", bob)>>)
Second == Bundle(n1, <<bob>>, <<Rel(alice, "IS_A", bob)>>)
Unknown == Bundle(n2, <<alice>>, <<Rel(alice, "likes", bob)>>)

MCBundles == {First, Second, Unknown}
FirstOnly == {First}

\* Ids and requests are interchangeable in the safety properties.
Symmetry == Permutations(Entries) \cup Permutations(Requests)

=============================================================================
