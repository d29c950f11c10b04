--------------------------- MODULE MCQueueListing ---------------------------
(* Symmetry for the run of QueueListing. *)
EXTENDS QueueListing, TLC

Symmetry == Permutations(Entries)

=============================================================================
