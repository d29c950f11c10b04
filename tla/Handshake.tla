----------------------------- MODULE Handshake -----------------------------
(***************************************************************************)
(* The life of a federation node: a remote instance asks for a handshake,  *)
(* an admin accepts it, which issues the API key, or rejects it.           *)
(*                                                                         *)
(* As in AuditReview a request is a process, and one action is the code    *)
(* between two awaits.  Each request has one database session: a row it    *)
(* has loaded is not loaded again, so what it tests later is the copy in   *)
(* `seen`.                                                                 *)
(***************************************************************************)
EXTENDS Integers, FiniteSets

CONSTANTS
    Nodes,      \* node ids a remote instance may ask for
    Requests,   \* concurrently running API requests
    Keys,       \* secrets.token_hex draws, each drawn once; bounds the accepts
    NoKey,      \* api_key_hash of a row that was never accepted
    Failures    \* TRUE: a request may die at any await

ASSUME NoKeyAssumption == NoKey \notin Keys
ASSUME FailuresAssumption == Failures \in BOOLEAN

VARIABLES
    rows,       \* table federation_nodes: node_id -> handshake_status, api_key_hash
    answers,    \* node_id -> the last answer to its handshake request
    shared,     \* node_id -> the keys the admin was told to share
    drawn,      \* keys drawn so far
    admitted,   \* history: <<node, key>> drawn for a node that was pending
    lost,       \* history: keys whose accept died before it answered
    requests    \* where each running request stands, and its local variables

vars == <<rows, answers, shared, drawn, admitted, lost, requests>>

-----------------------------------------------------------------------------

Statuses == {"pending", "accepted", "rejected"}
Rows == [status : Statuses, key : Keys \cup {NoKey}]
Answers == {"none", "pending", "already_connected", "error"}

Idle == [pc |-> "idle"]
HandshakeCalls == [pc : {"insert"}, node : Nodes]
AcceptCalls == [pc : {"store", "respond"}, node : Nodes, key : Keys, seen : Statuses]
RejectCalls == [pc : {"reject"}, node : Nodes, seen : Statuses]
Calls == {Idle} \cup HandshakeCalls \cup AcceptCalls \cup RejectCalls

Init ==
    /\ rows = [n \in {} |-> n]
    /\ answers = [n \in Nodes |-> "none"]
    /\ shared = [n \in Nodes |-> {}]
    /\ drawn = {}
    /\ admitted = {}
    /\ lost = {}
    /\ requests = [r \in Requests |-> Idle]

Registered == DOMAIN rows
At(r, pc) == requests[r].pc = pc
Goto(r, call) == requests' = [requests EXCEPT ![r] = call]
Return(r) == Goto(r, Idle)
Node(r) == requests[r].node
Answer(n, a) == answers' = [answers EXCEPT ![n] = a]

\* Mutant: the lookup does not ask for an accepted handshake.
AuthenticatesAnyStatus(n, k) == n \in Registered /\ rows[n].key = k

\* get_node_by_api_key finds the node: the key is the stored one and the
\* handshake is accepted.
Authenticates(n, k) ==
    n \in Registered /\ rows[n].status = "accepted" /\ rows[n].key = k

-----------------------------------------------------------------------------
(* POST /v1/federation/handshake, open to anybody.                         *)

\* The node is known and not rejected: the answer is its status.
AnswerKnown(r, n) ==
    /\ At(r, "idle")
    /\ n \in Registered
    /\ \/ rows[n].status = "accepted" /\ Answer(n, "already_connected")
       \/ rows[n].status = "pending" /\ Answer(n, "pending")
    /\ UNCHANGED <<rows, shared, drawn, admitted, lost, requests>>

\* Mutant: the answer is given before the row is written.
AskHandshakeAnswered(r, n) ==
    /\ At(r, "idle")
    /\ n \in Registered => rows[n].status = "rejected"
    /\ Answer(n, "pending")
    /\ Goto(r, [pc |-> "insert", node |-> n])
    /\ UNCHANGED <<rows, shared, drawn, admitted, lost>>

\* Otherwise the handler goes on to create_node.
AskHandshake(r, n) ==
    /\ At(r, "idle")
    /\ n \in Registered => rows[n].status = "rejected"
    /\ Goto(r, [pc |-> "insert", node |-> n])
    /\ UNCHANGED <<rows, answers, shared, drawn, admitted, lost>>

\* Mutant: an INSERT that replaces the row it collides with.
UniqueIgnored(n) == TRUE

\* The unique constraint on node_id.
Unique(n) == n \notin Registered

\* Mutant: a status the accept handler does not know.
NewRowUnknownStatus == [status |-> "requested", key |-> NoKey]

NewRow == [status |-> "pending", key |-> NoKey]

InsertNode(r) ==
    /\ At(r, "insert")
    /\ LET n == Node(r)
       IN  /\ Unique(n)
           /\ rows' = [x \in Registered \cup {n} |->
                          IF x = n THEN NewRow ELSE rows[x]]
           /\ Answer(n, "pending")
    /\ Return(r)
    /\ UNCHANGED <<shared, drawn, admitted, lost>>

\* The IntegrityError is not caught: the caller gets a 500.
InsertCollides(r) ==
    /\ At(r, "insert")
    /\ ~Unique(Node(r))
    /\ Answer(Node(r), "error")
    /\ Return(r)
    /\ UNCHANGED <<rows, shared, drawn, admitted, lost>>

-----------------------------------------------------------------------------
(* POST /v1/admin/nodes/{id}/accept                                        *)

Acceptable(n) == rows[n].status = "pending"

\* Mutant: a key may be issued again, as if the node were pending.
StartAcceptReissue(r, n, k) ==
    /\ At(r, "idle")
    /\ n \in Registered
    /\ k \notin drawn
    /\ drawn' = drawn \cup {k}
    /\ admitted' = admitted \cup {<<x, k>> : x \in {y \in {n} : rows[y].status = "pending"}}
    /\ Goto(r, [pc |-> "store", node |-> n, key |-> k, seen |-> "pending"])
    /\ UNCHANGED <<rows, answers, shared, lost>>

StartAccept(r, n, k) ==
    /\ At(r, "idle")
    /\ n \in Registered
    /\ Acceptable(n)
    /\ k \notin drawn
    /\ drawn' = drawn \cup {k}
    /\ admitted' = admitted \cup {<<x, k>> : x \in {y \in {n} : rows[y].status = "pending"}}
    /\ Goto(r, [pc |-> "store", node |-> n, key |-> k, seen |-> rows[n].status])
    /\ UNCHANGED <<rows, answers, shared, lost>>

\* crud.accept_handshake: its status test reads `seen`; the UPDATE has no
\* condition on the row's status, and its result is not looked at.
StoreKey(r) ==
    /\ At(r, "store")
    /\ LET c == requests[r]
       IN  /\ rows' = IF c.seen = "pending"
                      THEN [rows EXCEPT ![c.node] = [status |-> "accepted", key |-> c.key]]
                      ELSE rows
           /\ Goto(r, [c EXCEPT !.pc = "respond"])
    /\ UNCHANGED <<answers, shared, drawn, admitted, lost>>

\* Mutant: an error of the version fetch ends the request.
RespondKeyAborts(r) ==
    /\ At(r, "respond")
    /\ Return(r)
    /\ UNCHANGED <<rows, answers, shared, drawn, admitted, lost>>

\* After the best-effort version fetch the key is in the response, once.
RespondKey(r) ==
    /\ At(r, "respond")
    /\ shared' = [shared EXCEPT ![Node(r)] = @ \cup {requests[r].key}]
    /\ Return(r)
    /\ UNCHANGED <<rows, answers, drawn, admitted, lost>>

-----------------------------------------------------------------------------
(* POST /v1/admin/nodes/{id}/reject, whatever the status is.               *)

StartReject(r, n) ==
    /\ At(r, "idle")
    /\ n \in Registered
    /\ Goto(r, [pc |-> "reject", node |-> n, seen |-> rows[n].status])
    /\ UNCHANGED <<rows, answers, shared, drawn, admitted, lost>>

\* The session writes the column only if it differs from what it has loaded.
RejectedStatus(seen, status) == IF seen = "rejected" THEN status ELSE "rejected"

StoreReject(r) ==
    /\ At(r, "reject")
    /\ LET c == requests[r]
       IN  rows' = [rows EXCEPT ![c.node].status = RejectedStatus(c.seen, @)]
    /\ Return(r)
    /\ UNCHANGED <<answers, shared, drawn, admitted, lost>>

-----------------------------------------------------------------------------

\* A database error ends one request; a crash ends all, one such step each.
Fail(r) ==
    /\ Failures
    /\ ~At(r, "idle")
    /\ lost' = IF At(r, "store") \/ At(r, "respond") THEN lost \cup {requests[r].key} ELSE lost
    /\ Return(r)
    /\ UNCHANGED <<rows, answers, shared, drawn, admitted>>

HandshakeStep(r) ==
    \/ \E n \in Nodes : AnswerKnown(r, n) \/ AskHandshake(r, n)
    \/ InsertNode(r)
    \/ InsertCollides(r)

AdminStep(r) ==
    \/ \E n \in Nodes, k \in Keys : StartAccept(r, n, k)
    \/ StoreKey(r)
    \/ RespondKey(r)
    \/ \E n \in Nodes : StartReject(r, n)
    \/ StoreReject(r)

Next == \E r \in Requests : HandshakeStep(r) \/ AdminStep(r) \/ Fail(r)

Spec == Init /\ [][Next]_vars

-----------------------------------------------------------------------------
(* Properties.                                                             *)

\* Every row, answer, key and request has its type.
TypeOK ==
    /\ Registered \subseteq Nodes
    /\ rows \in [Registered -> Rows]
    /\ answers \in [Nodes -> Answers]
    /\ shared \in [Nodes -> SUBSET drawn]
    /\ drawn \subseteq Keys
    /\ admitted \subseteq Nodes \X drawn
    /\ lost \subseteq drawn
    /\ requests \in [Requests -> Calls]

\* A key that authenticates a node was drawn for that node by an accept that
\* found it pending: no handshake, rejection or lost race lets a node in.
AuthenticatesAdmitted ==
    \A n \in Nodes, k \in Keys : Authenticates(n, k) => <<n, k>> \in admitted

\* The open handshake endpoint never changes a registration that exists, even
\* when the node was registered, accepted or rejected after it looked.
RegistrationSurvives ==
    [][\A r \in Requests : HandshakeStep(r) =>
          \A n \in Registered : n \in Registered' /\ rows'[n] = rows[n]]_vars

\* A remote told "pending" or "already_connected" is registered.
AnswerIsRecorded ==
    \A n \in Nodes : answers[n] \in {"pending", "already_connected"} => n \in Registered

\* The key in force is never one that nobody can have: it is in the admin's
\* hands, in a response that is still on its way, or was lost with a request
\* that died, however accepts and rejections of one node overlap.
OnItsWay(n) == {requests[r].key : r \in {q \in Requests : At(q, "respond") /\ Node(q) = n}}
KeyIsSomewhere ==
    \A n \in Registered :
        rows[n].status = "accepted" => rows[n].key \in shared[n] \cup OnItsWay(n) \cup lost

\* A rejection is final once no accept that had looked before it is under way:
\* neither the node's own handshakes nor the admin's accepts undo it.
RejectedForGood(n) ==
    /\ rows[n].status = "rejected"
    /\ \A r \in Requests : At(r, "store") => Node(r) # n
RejectionIsFinal ==
    [][\A n \in Registered : RejectedForGood(n) => RejectedForGood(n)']_vars

\* Once a node is decided and no accept that had looked before is under way, the
\* key in force stays what it is: no later accept, rejection or handshake issues
\* another one, so a key that was handed out last keeps working until a rejection.
Decided(n) ==
    /\ rows[n].status # "pending"
    /\ \A r \in Requests : At(r, "store") => Node(r) # n
KeyStands ==
    [][\A n \in Registered : Decided(n) => Decided(n)' /\ rows'[n].key = rows[n].key]_vars

\* What NodeAdmission speaks of, as the requests and rows show it.
Standing == [n \in Registered |-> rows[n].status]
InForce == [n \in Registered |-> rows[n].key]
Waiting == {requests[r].key : r \in {q \in Requests : At(q, "respond")}}

Admission == INSTANCE NodeAdmission WITH
    Ids <- Nodes, standing <- Standing, inForce <- InForce, waiting <- Waiting

\* The handshake implements the admission: every key has one node, takes effect at
\* most once and before it is told, and is told or lost but not both; a
\* registration that exists is only changed by a key that takes effect or by a
\* rejection, however requests overlap, collide and die.
ImplementsAdmission == Admission!Spec

=============================================================================
