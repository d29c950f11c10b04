---------------------------- MODULE MCHandshake ----------------------------
(* Symmetry for the safety runs of Handshake. *)
EXTENDS Handshake, TLC

Symmetry == Permutations(Nodes) \cup Permutations(Requests) \cup Permutations(Keys)

=============================================================================
