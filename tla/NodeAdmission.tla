--------------------------- MODULE NodeAdmission ---------------------------
(***************************************************************************)
(* What the handshake promises about nodes and keys, without requests,     *)
(* sessions or answers.  A node enters pending.  A key is drawn for one    *)
(* node, while that node is pending; it takes effect once; only after that *)
(* it is told to the admin, once and for that node, or it is lost.  No key *)
(* that is lost or has been told takes effect later.                       *)
(*                                                                         *)
(* It does NOT promise that a decision is final: a key that was drawn      *)
(* before a rejection, or before another key took effect, may still take   *)
(* effect (see Handshake!RejectionIsFinal and Handshake!KeyStands).        *)
(***************************************************************************)
CONSTANTS
    Ids,        \* node ids
    Keys,
    NoKey

VARIABLES
    standing,   \* id -> "pending", "accepted" or "rejected"
    inForce,    \* id -> its key, or NoKey
    admitted,   \* <<id, key>>: the key was drawn for the id
    waiting,    \* keys that took effect and are yet to be told
    shared,     \* id -> the keys the admin was told for it
    lost        \* keys nobody will be told

vars == <<standing, inForce, admitted, waiting, shared, lost>>

Fresh(k) == \A n \in Ids : <<n, k>> \notin admitted
Ended(k) == k \in lost \/ \E n \in Ids : k \in shared[n]

Init ==
    /\ standing = [n \in {} |-> n]
    /\ inForce = [n \in {} |-> n]
    /\ admitted = {}
    /\ waiting = {}
    /\ shared = [n \in Ids |-> {}]
    /\ lost = {}

Apply(n) ==
    /\ n \notin DOMAIN standing
    /\ standing' = [x \in DOMAIN standing \cup {n} |-> IF x = n THEN "pending" ELSE standing[x]]
    /\ inForce' = [x \in DOMAIN standing \cup {n} |-> IF x = n THEN NoKey ELSE inForce[x]]
    /\ UNCHANGED <<admitted, waiting, shared, lost>>

Draw(n, k) ==
    /\ n \in DOMAIN standing
    /\ standing[n] = "pending"
    /\ Fresh(k)
    /\ admitted' = admitted \cup {<<n, k>>}
    /\ UNCHANGED <<standing, inForce, waiting, shared, lost>>

Admit(n, k) ==
    /\ <<n, k>> \in admitted
    /\ k \notin waiting /\ ~Ended(k)
    /\ standing' = [standing EXCEPT ![n] = "accepted"]
    /\ inForce' = [inForce EXCEPT ![n] = k]
    /\ waiting' = waiting \cup {k}
    /\ UNCHANGED <<admitted, shared, lost>>

Tell(n, k) ==
    /\ <<n, k>> \in admitted
    /\ k \in waiting
    /\ shared' = [shared EXCEPT ![n] = @ \cup {k}]
    /\ waiting' = waiting \ {k}
    /\ UNCHANGED <<standing, inForce, admitted, lost>>

Lose(k) ==
    /\ ~Fresh(k) /\ ~Ended(k)
    /\ lost' = lost \cup {k}
    /\ waiting' = waiting \ {k}
    /\ UNCHANGED <<standing, inForce, admitted, shared>>

Refuse(n) ==
    /\ n \in DOMAIN standing
    /\ standing' = [standing EXCEPT ![n] = "rejected"]
    /\ UNCHANGED <<inForce, admitted, waiting, shared, lost>>

Next ==
    \/ \E n \in Ids : Apply(n) \/ Refuse(n)
    \/ \E n \in Ids, k \in Keys : Draw(n, k) \/ Admit(n, k) \/ Tell(n, k)
    \/ \E k \in Keys : Lose(k)

Spec == Init /\ [][Next]_vars

=============================================================================
