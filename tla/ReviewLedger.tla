---------------------------- MODULE ReviewLedger ----------------------------
(***************************************************************************)
(* What the review pipeline promises, without requests, statements or      *)
(* statistics: a node submits content, an admin's approval sanctions it,   *)
(* only sanctioned content is published, an entry is marked approved only  *)
(* once all of its content is published, and what is published stays, with *)
(* the node that published it first as its origin.                         *)
(*                                                                         *)
(* It does NOT promise that a decision is final: two reviews of one entry  *)
(* may overtake each other (see AuditReview!DecisionIsFinal).              *)
(***************************************************************************)
CONSTANTS
    Ids,       \* entries
    Offers     \* what may be submitted: [elements : SUBSET _, origin : _]

VARIABLES
    offered,    \* id -> the offer submitted under it
    decision,   \* id -> "pending", "approved" or "rejected"
    sanctioned, \* ids an approval found pending
    published   \* element -> origin

vars == <<offered, decision, sanctioned, published>>

Init ==
    /\ offered = [e \in {} |-> e]
    /\ decision = [e \in {} |-> e]
    /\ sanctioned = {}
    /\ published = [x \in {} |-> x]

Submit(e, offer) ==
    /\ e \notin DOMAIN offered
    /\ offered' = [x \in DOMAIN offered \cup {e} |-> IF x = e THEN offer ELSE offered[x]]
    /\ decision' = [x \in DOMAIN decision \cup {e} |-> IF x = e THEN "pending" ELSE decision[x]]
    /\ UNCHANGED <<sanctioned, published>>

Sanction(e) ==
    /\ decision[e] = "pending"
    /\ sanctioned' = sanctioned \cup {e}
    /\ UNCHANGED <<offered, decision, published>>

Publish(e, S) ==
    /\ e \in sanctioned
    /\ S \subseteq offered[e].elements
    /\ published' = [x \in DOMAIN published \cup S |->
                        IF x \in DOMAIN published THEN published[x] ELSE offered[e].origin]
    /\ UNCHANGED <<offered, decision, sanctioned>>

Approve(e) ==
    /\ e \in sanctioned
    /\ offered[e].elements \subseteq DOMAIN published
    /\ decision' = [decision EXCEPT ![e] = "approved"]
    /\ UNCHANGED <<offered, sanctioned, published>>

Reject(e) ==
    /\ decision' = [decision EXCEPT ![e] = "rejected"]
    /\ UNCHANGED <<offered, sanctioned, published>>

Next ==
    \/ \E e \in Ids, offer \in Offers : Submit(e, offer)
    \/ \E e \in DOMAIN offered :
          \/ Sanction(e)
          \/ \E S \in SUBSET offered[e].elements : Publish(e, S)
          \/ Approve(e)
          \/ Reject(e)

Spec == Init /\ [][Next]_vars

=============================================================================
