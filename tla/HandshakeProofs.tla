-------------------------- MODULE HandshakeProofs --------------------------
(***************************************************************************)
(* Theorems about Handshake, for all nodes, keys and requests, with and    *)
(* without failures.                                                       *)
(*                                                                         *)
(* The invariant the safety theorems rest on is CallsOK: what a request    *)
(* still has in its local variables was true when it looked, and the parts *)
(* of it that matter (the node is registered, the key was drawn for it     *)
(* while it was pending) cannot become false.                              *)
(***************************************************************************)
EXTENDS Handshake, TLAPS

\* A request that holds a node knows it to be registered, and one that holds a
\* key has drawn it for a pending node.
CallOK(r) ==
    /\ requests[r].pc \in {"store", "respond", "reject"} => Node(r) \in Registered
    /\ requests[r].pc \in {"store", "respond"} => <<Node(r), requests[r].key>> \in admitted
    /\ requests[r].pc = "store" => requests[r].seen = "pending"

CallsOK == \A r \in Requests : CallOK(r)

\* The row of an accepted node holds a key drawn for it.
AcceptedAdmitted ==
    \A n \in Registered : rows[n].status = "accepted" => <<n, rows[n].key>> \in admitted

-----------------------------------------------------------------------------
(* Types.                                                                  *)

\* The initial state is typed.
LEMMA InitTyped == Init => TypeOK
  BY NoKeyAssumption DEF Init, TypeOK, Registered, Rows, Answers, Calls, Idle

\* A typed call is one of the five kinds, told apart by `pc`.
LEMMA CallKinds ==
  ASSUME TypeOK, NEW r \in Requests
  PROVE  /\ requests[r] \in Calls
         /\ At(r, "insert") => requests[r] \in HandshakeCalls
         /\ At(r, "store") => requests[r] \in AcceptCalls
         /\ At(r, "respond") => requests[r] \in AcceptCalls
         /\ At(r, "reject") => requests[r] \in RejectCalls
  BY DEF TypeOK, Calls, Idle, HandshakeCalls, AcceptCalls, RejectCalls, At

\* A key in the hands of a request has been drawn.
LEMMA HeldDrawn ==
  ASSUME TypeOK, CallsOK, NEW r \in Requests, At(r, "store") \/ At(r, "respond")
  PROVE  /\ Node(r) \in Nodes
         /\ requests[r].key \in drawn
  BY DEF TypeOK, CallsOK, CallOK, At, Node

\* Every step keeps the types.
LEMMA NextTyped ==
  ASSUME TypeOK, CallsOK, [Next]_vars
  PROVE  TypeOK'
<1> USE DEF TypeOK, Registered
<1>1. CASE UNCHANGED vars
  BY <1>1 DEF vars
<1>2. ASSUME NEW r \in Requests, NEW n \in Nodes, AnswerKnown(r, n)
      PROVE  TypeOK'
  BY <1>2 DEF AnswerKnown, Answer, Answers
<1>3. ASSUME NEW r \in Requests, NEW n \in Nodes, AskHandshake(r, n)
      PROVE  TypeOK'
  BY <1>3 DEF AskHandshake, Goto, Calls, HandshakeCalls
<1>4. ASSUME NEW r \in Requests, InsertNode(r)
      PROVE  TypeOK'
  <2>1. Node(r) \in Nodes
    BY <1>4, CallKinds DEF InsertNode, Node, HandshakeCalls
  <2>2. NewRow \in Rows
    BY DEF NewRow, Rows, Statuses
  <2> QED
    BY <1>4, <2>1, <2>2 DEF InsertNode, Answer, Answers, Return, Goto, Calls
<1>5. ASSUME NEW r \in Requests, InsertCollides(r)
      PROVE  TypeOK'
  BY <1>5 DEF InsertCollides, Answer, Answers, Return, Goto, Calls
<1>6. ASSUME NEW r \in Requests, NEW n \in Nodes, NEW k \in Keys, StartAccept(r, n, k)
      PROVE  TypeOK'
  <2>1. rows[n].status \in Statuses
    BY <1>6 DEF StartAccept, Rows
  <2>2. [pc |-> "store", node |-> n, key |-> k, seen |-> rows[n].status] \in Calls
    BY <2>1 DEF Calls, AcceptCalls
  <2> QED
    BY <1>6, <2>2 DEF StartAccept, Goto
<1>7. ASSUME NEW r \in Requests, StoreKey(r)
      PROVE  TypeOK'
  <2> DEFINE c == requests[r]
  <2>1. c \in AcceptCalls
    BY <1>7, CallKinds DEF StoreKey
  <2>2. /\ c.node \in Nodes /\ c.key \in Keys
        /\ [c EXCEPT !.pc = "respond"] \in Calls
    BY <2>1 DEF AcceptCalls, Calls
  <2>3. rows' \in [Registered' -> Rows] /\ Registered' = Registered
    BY <1>7, <2>2 DEF StoreKey, Rows, Statuses
  <2> QED
    BY <1>7, <2>2, <2>3 DEF StoreKey, Goto
<1>8. ASSUME NEW r \in Requests, RespondKey(r)
      PROVE  TypeOK'
  <2>1. Node(r) \in Nodes /\ requests[r].key \in drawn
    BY <1>8, HeldDrawn DEF RespondKey
  <2>2. shared' \in [Nodes -> SUBSET drawn']
    BY <1>8, <2>1 DEF RespondKey
  <2> QED
    BY <1>8, <2>2 DEF RespondKey, Return, Goto, Calls
<1>9. ASSUME NEW r \in Requests, NEW n \in Nodes, StartReject(r, n)
      PROVE  TypeOK'
  <2>1. [pc |-> "reject", node |-> n, seen |-> rows[n].status] \in Calls
    BY <1>9 DEF StartReject, Rows, Calls, RejectCalls
  <2> QED
    BY <1>9, <2>1 DEF StartReject, Goto
<1>10. ASSUME NEW r \in Requests, StoreReject(r)
       PROVE  TypeOK'
  BY <1>10 DEF StoreReject, RejectedStatus, Rows, Statuses, Return, Goto, Calls
<1>11. ASSUME NEW r \in Requests, Fail(r)
       PROVE  TypeOK'
  <2>1. lost' \subseteq drawn'
    BY <1>11, HeldDrawn DEF Fail
  <2> QED
    BY <1>11, <2>1 DEF Fail, Return, Goto, Calls
<1> QED
  BY <1>1, <1>2, <1>3, <1>4, <1>5, <1>6, <1>7, <1>8, <1>9, <1>10, <1>11
  DEF Next, HandshakeStep, AdminStep

-----------------------------------------------------------------------------
(* The invariant.                                                          *)

\* Rows stay, and what was drawn for a pending node stays recorded.
LEMMA Grows ==
  ASSUME TypeOK, [Next]_vars
  PROVE  /\ Registered \subseteq Registered'
         /\ admitted \subseteq admitted'
  BY DEF Next, vars, HandshakeStep, AdminStep, AnswerKnown, AskHandshake,
         InsertNode, InsertCollides, StartAccept, StoreKey, RespondKey,
         StartReject, StoreReject, Fail, Registered, TypeOK

\* A call stays right while its own request does not move.
LEMMA OthersKeep ==
  ASSUME TypeOK, CallsOK, [Next]_vars,
         NEW q \in Requests, requests'[q] = requests[q]
  PROVE  CallOK(q)'
  BY Grows DEF CallsOK, CallOK, Node

\* A call is right initially and after every step.
LEMMA InitCalls == Init => CallsOK
  BY DEF Init, CallsOK, CallOK, Idle

LEMMA NextCalls ==
  ASSUME TypeOK, CallsOK, [Next]_vars
  PROVE  CallsOK'
<1> SUFFICES ASSUME NEW q \in Requests
             PROVE  CallOK(q)'
  BY DEF CallsOK
<1>0. requests \in [Requests -> Calls] /\ CallOK(q)
  BY DEF TypeOK, CallsOK
<1>1. CASE UNCHANGED vars
  BY <1>1, OthersKeep DEF vars
<1>2. ASSUME NEW r \in Requests, HandshakeStep(r)
      PROVE  CallOK(q)'
  <2>1. CASE r # q
    BY <1>0, <1>2, <2>1, OthersKeep
    DEF HandshakeStep, AnswerKnown, AskHandshake, InsertNode, InsertCollides, Return, Goto
  <2>2. CASE r = q
    <3>1. requests'[q] = requests[q] \/ requests'[q].pc \in {"insert", "idle"}
      BY <1>0, <1>2, <2>2
      DEF HandshakeStep, AnswerKnown, AskHandshake, InsertNode, InsertCollides, Return, Goto, Idle
    <3> QED
      BY <3>1, OthersKeep DEF CallOK
  <2> QED
    BY <2>1, <2>2
<1>3. ASSUME NEW r \in Requests, NEW n \in Nodes, NEW k \in Keys, StartAccept(r, n, k)
      PROVE  CallOK(q)'
  <2>1. CASE r # q
    BY <1>0, <1>3, <2>1, OthersKeep DEF StartAccept, Goto
  <2>2. CASE r = q
    BY <1>0, <1>3, <2>2 DEF StartAccept, Acceptable, Goto, CallOK, Node, Registered
  <2> QED
    BY <2>1, <2>2
<1>4. ASSUME NEW r \in Requests, StoreKey(r)
      PROVE  CallOK(q)'
  <2>1. CASE r # q
    BY <1>0, <1>4, <2>1, OthersKeep DEF StoreKey, Goto
  <2>2. CASE r = q
    <3>1. requests[r] \in AcceptCalls
      BY <1>4, CallKinds DEF StoreKey
    <3>2. /\ requests'[r].pc = "respond"
          /\ requests'[r].node = requests[r].node
          /\ requests'[r].key = requests[r].key
      BY <1>0, <1>4, <3>1 DEF StoreKey, Goto, AcceptCalls
    <3> QED
      BY <1>0, <1>4, <2>2, <3>2, Grows DEF StoreKey, CallOK, Node, At
  <2> QED
    BY <2>1, <2>2
<1>5. ASSUME NEW r \in Requests, NEW n \in Nodes, StartReject(r, n)
      PROVE  CallOK(q)'
  <2>1. CASE r # q
    BY <1>0, <1>5, <2>1, OthersKeep DEF StartReject, Goto
  <2>2. CASE r = q
    BY <1>0, <1>5, <2>2 DEF StartReject, Goto, CallOK, Node, Registered
  <2> QED
    BY <2>1, <2>2
<1>6. ASSUME NEW r \in Requests, RespondKey(r) \/ StoreReject(r) \/ Fail(r)
      PROVE  CallOK(q)'
  <2>1. CASE r # q
    BY <1>0, <1>6, <2>1, OthersKeep DEF RespondKey, StoreReject, Fail, Return, Goto
  <2>2. CASE r = q
    BY <1>0, <1>6, <2>2 DEF RespondKey, StoreReject, Fail, Return, Goto, Idle, CallOK
  <2> QED
    BY <2>1, <2>2
<1> QED
  BY <1>1, <1>2, <1>3, <1>4, <1>5, <1>6 DEF Next, AdminStep

LEMMA CallsRight == Spec => [](TypeOK /\ CallsOK)
  BY InitTyped, NextTyped, InitCalls, NextCalls, PTL DEF Spec

\* The type invariant holds for all constants: every row, answer, key and
\* request of the handshake has its type (federation_nodes, accept, reject).
THEOREM HandshakeTyped == Spec => []TypeOK
  BY CallsRight, PTL

-----------------------------------------------------------------------------
(* What a step does to the rows.                                           *)

\* A row changes by a new registration, by the UPDATE of an accept, or by
\* that of a reject.
LEMMA RowChanges ==
  ASSUME TypeOK, CallsOK, [Next]_vars, NEW n \in Registered',
         n \in Registered => rows'[n] # rows[n]
  PROVE  \/ n \notin Registered /\ rows'[n] = NewRow
         \/ \E r \in Requests :
                /\ StoreKey(r) /\ Node(r) = n
                /\ rows'[n] = [status |-> "accepted", key |-> requests[r].key]
         \/ n \in Registered /\ rows'[n] = [rows[n] EXCEPT !.status = "rejected"]
<1>0. Registered = DOMAIN rows /\ rows \in [Registered -> Rows]
  BY DEF TypeOK, Registered
<1>1. CASE UNCHANGED <<rows>>
  BY <1>1 DEF Registered
<1>2. ASSUME NEW r \in Requests, InsertNode(r)
      PROVE  n \notin Registered /\ rows'[n] = NewRow
  BY <1>0, <1>2 DEF InsertNode, Unique, Registered
<1>3. ASSUME NEW r \in Requests, StoreKey(r)
      PROVE  /\ Node(r) = n
             /\ rows'[n] = [status |-> "accepted", key |-> requests[r].key]
  <2>1. requests[r].seen = "pending" /\ Node(r) \in Registered
    BY <1>3 DEF StoreKey, CallsOK, CallOK, At
  <2>2. rows' = [rows EXCEPT ![Node(r)] = [status |-> "accepted", key |-> requests[r].key]]
    BY <1>3, <2>1 DEF StoreKey, Node
  <2> QED
    BY <1>0, <2>1, <2>2 DEF Registered
<1>4. ASSUME NEW r \in Requests, StoreReject(r)
      PROVE  n \in Registered /\ rows'[n] = [rows[n] EXCEPT !.status = "rejected"]
  <2>1. n \in Registered /\ rows'[n] # rows[n]
    BY <1>0, <1>4 DEF StoreReject, Registered
  <2>2. rows'[n] = [rows[n] EXCEPT !.status = RejectedStatus(requests[r].seen, @)]
    BY <1>0, <1>4, <2>1 DEF StoreReject
  <2>3. rows[n] = [rows[n] EXCEPT !.status = rows[n].status]
    BY <1>0, <2>1 DEF Rows
  <2> QED
    BY <2>1, <2>2, <2>3 DEF RejectedStatus
<1> QED
  BY <1>1, <1>2, <1>3, <1>4
  DEF Next, vars, HandshakeStep, AdminStep, AnswerKnown, AskHandshake, InsertCollides,
      StartAccept, RespondKey, StartReject, Fail

-----------------------------------------------------------------------------
(* Who is let in.                                                          *)

LEMMA NextAdmitted ==
  ASSUME TypeOK, CallsOK, AcceptedAdmitted, [Next]_vars
  PROVE  AcceptedAdmitted'
<1> SUFFICES ASSUME NEW n \in Registered', rows'[n].status = "accepted"
             PROVE  <<n, rows'[n].key>> \in admitted'
  BY DEF AcceptedAdmitted
<1>1. CASE n \in Registered /\ rows'[n] = rows[n]
  BY <1>1, Grows DEF AcceptedAdmitted
<1>2. CASE n \notin Registered /\ rows'[n] = NewRow
  BY <1>2 DEF NewRow
<1>3. ASSUME NEW r \in Requests, StoreKey(r), Node(r) = n,
             rows'[n] = [status |-> "accepted", key |-> requests[r].key]
      PROVE  <<n, rows'[n].key>> \in admitted'
  <2>1. <<Node(r), requests[r].key>> \in admitted
    BY <1>3 DEF CallsOK, CallOK, StoreKey, At
  <2> QED
    BY <1>3, <2>1, Grows
<1>4. CASE n \in Registered /\ rows'[n] = [rows[n] EXCEPT !.status = "rejected"]
  <2>1. rows[n] \in Rows
    BY <1>4 DEF TypeOK
  <2> QED
    BY <1>4, <2>1 DEF Rows
<1> QED
  BY <1>1, <1>2, <1>3, <1>4, RowChanges

\* A key that authenticates a node was drawn for it by an accept that found it
\* pending, whatever requests overlap or die (get_node_by_api_key,
\* accept_node_handshake).
THEOREM OnlyAdmittedEnter == Spec => []AuthenticatesAdmitted
<1>1. Init => AcceptedAdmitted
  BY DEF Init, AcceptedAdmitted, Registered
<1>2. AcceptedAdmitted => AuthenticatesAdmitted
  BY DEF AcceptedAdmitted, AuthenticatesAdmitted, Authenticates
<1> QED
  BY <1>1, <1>2, NextAdmitted, CallsRight, PTL DEF Spec

-----------------------------------------------------------------------------
(* Where the key in force is.                                              *)

Held(n) == shared[n] \cup OnItsWay(n) \cup lost

\* A key that is somewhere stays somewhere: out of a response it goes to the
\* admin or is lost.
LEMMA HeldStays ==
  ASSUME TypeOK, CallsOK, [Next]_vars, NEW n \in Nodes, NEW k \in Held(n)
  PROVE  k \in Held(n)'
<1>0. /\ requests \in [Requests -> Calls]
      /\ shared \in [Nodes -> SUBSET drawn]
  BY DEF TypeOK
<1>1. \A m \in Nodes : shared[m] \subseteq shared'[m]
  BY <1>0 DEF Next, vars, HandshakeStep, AdminStep, AnswerKnown, AskHandshake,
         InsertNode, InsertCollides, StartAccept, StoreKey, RespondKey,
         StartReject, StoreReject, Fail
<1>2. lost \subseteq lost'
  BY DEF Next, vars, HandshakeStep, AdminStep, AnswerKnown, AskHandshake,
         InsertNode, InsertCollides, StartAccept, StoreKey, RespondKey,
         StartReject, StoreReject, Fail
<1>3. CASE k \in shared[n] \cup lost
  BY <1>1, <1>2, <1>3 DEF Held
<1>4. CASE k \in OnItsWay(n)
  <2>1. PICK q \in Requests : At(q, "respond") /\ Node(q) = n /\ requests[q].key = k
    BY <1>4 DEF OnItsWay
  <2>2. CASE requests'[q] = requests[q]
    BY <2>1, <2>2 DEF Held, OnItsWay, At, Node
  <2>3. CASE RespondKey(q)
    BY <1>0, <2>1, <2>3 DEF RespondKey, Held
  <2>4. CASE Fail(q)
    BY <2>1, <2>4 DEF Fail, Held
  <2> QED
    BY <1>0, <2>1, <2>2, <2>3, <2>4
    DEF Next, vars, HandshakeStep, AdminStep, AnswerKnown, AskHandshake,
        InsertNode, InsertCollides, StartAccept, StoreKey, RespondKey,
        StartReject, StoreReject, Fail, Return, Goto, At
<1> QED
  BY <1>3, <1>4 DEF Held

LEMMA NextSomewhere ==
  ASSUME TypeOK, CallsOK, KeyIsSomewhere, [Next]_vars
  PROVE  KeyIsSomewhere'
<1> SUFFICES ASSUME NEW n \in Registered', rows'[n].status = "accepted"
             PROVE  rows'[n].key \in Held(n)'
  BY DEF KeyIsSomewhere, Held
<1>0. n \in Nodes
  BY NextTyped DEF TypeOK
<1>1. CASE n \in Registered /\ rows'[n] = rows[n]
  <2>1. rows[n].key \in Held(n)
    BY <1>1 DEF KeyIsSomewhere, Held
  <2> QED
    BY <1>0, <1>1, <2>1, HeldStays
<1>2. CASE n \notin Registered /\ rows'[n] = NewRow
  BY <1>2 DEF NewRow
<1>3. ASSUME NEW r \in Requests, StoreKey(r), Node(r) = n,
             rows'[n] = [status |-> "accepted", key |-> requests[r].key]
      PROVE  rows'[n].key \in Held(n)'
  <2>1. requests \in [Requests -> Calls] /\ requests[r] \in AcceptCalls
    BY <1>3, CallKinds DEF StoreKey, TypeOK
  <2>2. /\ requests'[r].pc = "respond"
        /\ requests'[r].node = n
        /\ requests'[r].key = requests[r].key
    BY <1>3, <2>1 DEF StoreKey, Goto, AcceptCalls, Node
  <2> QED
    BY <1>3, <2>2 DEF Held, OnItsWay, At, Node
<1>4. CASE n \in Registered /\ rows'[n] = [rows[n] EXCEPT !.status = "rejected"]
  <2>1. rows[n] \in Rows
    BY <1>4 DEF TypeOK
  <2> QED
    BY <1>4, <2>1 DEF Rows
<1> QED
  BY <1>1, <1>2, <1>3, <1>4, RowChanges

\* The key in force of an accepted node is with the admin, in a response on
\* its way, or lost with a request that died (accept_node_handshake).
THEOREM KeyKept == Spec => []KeyIsSomewhere
<1>1. Init => KeyIsSomewhere
  BY DEF Init, KeyIsSomewhere, Registered
<1> QED
  BY <1>1, NextSomewhere, CallsRight, PTL DEF Spec

-----------------------------------------------------------------------------
(* What the two endpoints may not do.                                      *)

\* A remote told "pending" or "already_connected" is registered
\* (request_handshake, create_node).
THEOREM AnswersRecorded == Spec => []AnswerIsRecorded
<1>1. Init => AnswerIsRecorded
  BY DEF Init, AnswerIsRecorded
<1>2. ASSUME TypeOK, CallsOK, AnswerIsRecorded, [Next]_vars, NEW n \in Nodes,
             answers'[n] \in {"pending", "already_connected"}
      PROVE  n \in Registered'
  <2>1. CASE answers'[n] = answers[n]
    BY <1>2, <2>1, Grows DEF AnswerIsRecorded
  <2>2. ASSUME NEW r \in Requests, HandshakeStep(r), answers'[n] # answers[n]
        PROVE  n \in Registered'
    BY <1>2, <2>2
    DEF TypeOK, HandshakeStep, AnswerKnown, AskHandshake, InsertNode, InsertCollides,
        Answer, Registered
  <2> QED
    BY <1>2, <2>1, <2>2
    DEF Next, vars, AdminStep, StartAccept, StoreKey, RespondKey, StartReject,
        StoreReject, Fail
<1>3. TypeOK /\ CallsOK /\ AnswerIsRecorded /\ [Next]_vars => AnswerIsRecorded'
  BY <1>2 DEF AnswerIsRecorded
<1> QED
  BY <1>1, <1>3, CallsRight, PTL DEF Spec

\* The open endpoint never changes a registration that exists (create_node,
\* the unique node_id).
THEOREM RegistrationKept == Spec => RegistrationSurvives
<1>1. ASSUME NEW r \in Requests, HandshakeStep(r), NEW n \in Registered
      PROVE  n \in Registered' /\ rows'[n] = rows[n]
  BY <1>1 DEF HandshakeStep, AnswerKnown, AskHandshake, InsertNode, InsertCollides,
              Unique, Registered
<1>2. [Next]_vars
        => [\A r \in Requests : HandshakeStep(r) =>
              \A n \in Registered : n \in Registered' /\ rows'[n] = rows[n]]_vars
  BY <1>1
<1> QED
  BY <1>2, PTL DEF Spec, RegistrationSurvives

-----------------------------------------------------------------------------
(* Decisions.                                                              *)

\* A decided node stays decided, keeps its key, and can only become rejected.
LEMMA DecidedStays ==
  ASSUME TypeOK, CallsOK, [Next]_vars, NEW n \in Registered, Decided(n)
  PROVE  /\ Decided(n)'
         /\ rows'[n].key = rows[n].key
         /\ rows[n].status = "rejected" => rows'[n].status = "rejected"
<1>0. /\ n \in Registered' /\ rows[n] \in Rows
      /\ requests \in [Requests -> Calls]
  BY Grows DEF TypeOK
<1>1. /\ rows'[n].status # "pending"
      /\ rows'[n].key = rows[n].key
      /\ rows[n].status = "rejected" => rows'[n].status = "rejected"
  <2>1. CASE rows'[n] = rows[n]
    BY <2>1 DEF Decided
  <2>2. ASSUME NEW r \in Requests, StoreKey(r), Node(r) = n
        PROVE  FALSE
    BY <2>2 DEF StoreKey, Decided
  <2>3. CASE rows'[n] = [rows[n] EXCEPT !.status = "rejected"]
    BY <1>0, <2>3 DEF Rows
  <2> QED
    BY <1>0, <2>1, <2>2, <2>3, RowChanges
<1>2. ASSUME NEW q \in Requests, At(q, "store")'
      PROVE  Node(q)' # n
  <2>1. CASE requests'[q] = requests[q]
    BY <1>2, <2>1 DEF Decided, At, Node
  <2>2. ASSUME NEW m \in Nodes, NEW k \in Keys, StartAccept(q, m, k)
        PROVE  Node(q)' # n
    BY <1>0, <2>2 DEF StartAccept, Acceptable, Goto, Node, Decided
  <2>3. CASE StoreKey(q)
    <3>1. requests[q] \in AcceptCalls
      BY <2>3, CallKinds DEF StoreKey
    <3>2. requests'[q].pc = "respond"
      BY <1>0, <2>3, <3>1 DEF StoreKey, Goto, AcceptCalls
    <3> QED
      BY <1>2, <3>2 DEF At
  <2>4. ASSUME NEW r \in Requests \ {q}, HandshakeStep(r) \/ AdminStep(r) \/ Fail(r)
        PROVE  requests'[q] = requests[q]
    BY <1>0, <2>4
    DEF HandshakeStep, AdminStep, AnswerKnown, AskHandshake, InsertNode, InsertCollides,
        StartAccept, StoreKey, RespondKey, StartReject, StoreReject, Fail, Return, Goto
  <2>5. ASSUME \/ HandshakeStep(q) \/ RespondKey(q) \/ StoreReject(q) \/ Fail(q)
               \/ \E m \in Nodes : StartReject(q, m)
        PROVE  requests'[q] = requests[q]
    BY <1>0, <1>2, <2>5
    DEF HandshakeStep, AnswerKnown, AskHandshake, InsertNode, InsertCollides,
        RespondKey, StartReject, StoreReject, Fail, Return, Goto, At, Idle
  <2> QED
    BY <2>1, <2>2, <2>3, <2>4, <2>5 DEF Next, vars, AdminStep
<1> QED
  BY <1>1, <1>2 DEF Decided

\* A rejection is final once no accept that looked before it is under way
\* (reject_node_handshake, accept_node_handshake).
THEOREM RejectionKept == Spec => RejectionIsFinal
<1>1. TypeOK /\ CallsOK /\ [Next]_vars
        => [\A n \in Registered : RejectedForGood(n) => RejectedForGood(n)']_vars
  BY DecidedStays DEF RejectedForGood, Decided
<1> QED
  BY <1>1, CallsRight, PTL DEF Spec, RejectionIsFinal

\* The key of a decided node is not replaced once no accept that looked before
\* is under way (accept_node_handshake, crud.accept_handshake).
THEOREM KeyStandsFirm == Spec => KeyStands
<1>1. TypeOK /\ CallsOK /\ [Next]_vars
        => [\A n \in Registered : Decided(n) => Decided(n)' /\ rows'[n].key = rows[n].key]_vars
  BY DecidedStays
<1> QED
  BY <1>1, CallsRight, PTL DEF Spec, KeyStands

-----------------------------------------------------------------------------
(* The handshake implements the admission.                                 *)

Holds(r) == At(r, "store") \/ At(r, "respond")

\* The invariant of the keys: each was drawn for some node; one that a request holds
\* is held by this request only and is neither told nor lost.
KeyOK(r) ==
    Holds(r) =>
        /\ requests[r].key \notin lost
        /\ \A n \in Nodes : requests[r].key \notin shared[n]
        /\ \A q \in Requests \ {r} : Holds(q) => requests[q].key # requests[r].key

KeysOK ==
    /\ \A k \in drawn : \E n \in Nodes : <<n, k>> \in admitted
    /\ \A r \in Requests : KeyOK(r)

LEMMA InitKeys == Init => KeysOK
  BY DEF Init, KeysOK, KeyOK, Holds, At, Idle

\* A step in which no request comes to hold another key, and no key that is held is
\* told or lost, keeps the invariant.
LEMMA KeysStay ==
  ASSUME KeysOK, drawn' = drawn, admitted' = admitted,
         \A q \in Requests : Holds(q)' => /\ Holds(q)
                                          /\ requests'[q].key = requests[q].key
                                          /\ requests[q].key \notin lost'
                                          /\ \A n \in Nodes : requests[q].key \notin shared'[n]
  PROVE  KeysOK'
  BY DEF KeysOK, KeyOK

\* Who holds a key after a step of one request.
LEMMA HoldersOf ==
  ASSUME TypeOK, NEW r \in Requests, NEW call, Goto(r, call)
  PROVE  /\ requests'[r] = call
         /\ \A q \in Requests \ {r} : requests'[q] = requests[q]
  BY DEF TypeOK, Goto

LEMMA NextKeys ==
  ASSUME TypeOK, CallsOK, KeysOK, [Next]_vars
  PROVE  KeysOK'
<1>1. CASE UNCHANGED vars
  BY <1>1 DEF vars, KeysOK, KeyOK, Holds, At
<1>2. ASSUME NEW r \in Requests, HandshakeStep(r)
      PROVE  KeysOK'
  <2>1. requests \in [Requests -> Calls]
    BY DEF TypeOK
  <2>2. /\ \A q \in Requests \ {r} : requests'[q] = requests[q]
        /\ requests'[r] = requests[r] \/ requests'[r].pc \in {"insert", "idle"}
    BY <1>2, <2>1
    DEF HandshakeStep, AnswerKnown, AskHandshake, InsertNode, InsertCollides, Return, Goto, Idle
  <2>3. \A q \in Requests : Holds(q)' => Holds(q) /\ requests'[q].key = requests[q].key
    BY <2>2 DEF Holds, At
  <2> QED
    BY <1>2, <2>3, KeysStay
    DEF HandshakeStep, AnswerKnown, AskHandshake, InsertNode, InsertCollides, KeysOK, KeyOK
<1>3. ASSUME NEW r \in Requests, NEW n \in Nodes, NEW k \in Keys, StartAccept(r, n, k)
      PROVE  KeysOK'
  <2>1. /\ requests'[r].pc = "store" /\ requests'[r].key = k
        /\ \A q \in Requests \ {r} : requests'[q] = requests[q]
    BY <1>3, HoldersOf DEF StartAccept
  <2>2. k \notin drawn /\ k \notin lost /\ \A m \in Nodes : k \notin shared[m]
    BY <1>3 DEF StartAccept, TypeOK
  <2>3. \A q \in Requests : Holds(q) => requests[q].key # k
    BY <2>2, HeldDrawn DEF Holds
  <2>4. /\ drawn' = drawn \cup {k} /\ <<n, k>> \in admitted' /\ admitted \subseteq admitted'
        /\ UNCHANGED <<shared, lost>>
    BY <1>3 DEF StartAccept, Acceptable
  <2>5. \A j \in drawn' : \E m \in Nodes : <<m, j>> \in admitted'
    BY <2>4 DEF KeysOK
  <2>6. ASSUME NEW q \in Requests PROVE KeyOK(q)'
    <3>1. CASE q = r
      BY <2>1, <2>2, <2>3, <2>4, <3>1 DEF KeyOK, Holds, At
    <3>2. CASE q # r
      BY <2>1, <2>2, <2>3, <2>4, <3>2 DEF KeysOK, KeyOK, Holds, At
    <3> QED
      BY <3>1, <3>2
  <2> QED
    BY <2>5, <2>6 DEF KeysOK
<1>4. ASSUME NEW r \in Requests, StoreKey(r)
      PROVE  KeysOK'
  <2>1. requests[r] \in AcceptCalls
    BY <1>4, CallKinds DEF StoreKey
  <2>2. /\ requests'[r].key = requests[r].key
        /\ \A q \in Requests \ {r} : requests'[q] = requests[q]
    BY <1>4, <2>1, HoldersOf DEF StoreKey, AcceptCalls
  <2>3. \A q \in Requests : Holds(q)' => Holds(q) /\ requests'[q].key = requests[q].key
    BY <1>4, <2>2 DEF StoreKey, Holds, At
  <2> QED
    BY <1>4, <2>3, KeysStay DEF StoreKey, KeysOK, KeyOK
<1>5. ASSUME NEW r \in Requests, RespondKey(r)
      PROVE  KeysOK'
  <2>1. requests'[r] = Idle /\ \A q \in Requests \ {r} : requests'[q] = requests[q]
    BY <1>5, HoldersOf DEF RespondKey, Return
  <2>2. \A q \in Requests : Holds(q)' => /\ Holds(q)
                                         /\ requests'[q].key = requests[q].key
                                         /\ q # r
    BY <2>1 DEF Holds, At, Idle
  <2>3. \A n \in Nodes : shared'[n] \subseteq shared[n] \cup {requests[r].key}
    BY <1>5 DEF RespondKey, TypeOK
  <2>4. \A q \in Requests : Holds(q)' => requests[q].key # requests[r].key
    BY <1>5, <2>2 DEF KeysOK, KeyOK, Holds, RespondKey
  <2> QED
    BY <1>5, <2>2, <2>3, <2>4, KeysStay DEF RespondKey, KeysOK, KeyOK
<1>6. ASSUME NEW r \in Requests, Fail(r)
      PROVE  KeysOK'
  <2>1. requests'[r] = Idle /\ \A q \in Requests \ {r} : requests'[q] = requests[q]
    BY <1>6, HoldersOf DEF Fail, Return
  <2>2. \A q \in Requests : Holds(q)' => /\ Holds(q)
                                         /\ requests'[q].key = requests[q].key
                                         /\ q # r
    BY <2>1 DEF Holds, At, Idle
  <2>3. lost' \subseteq lost \cup (IF Holds(r) THEN {requests[r].key} ELSE {})
    BY <1>6 DEF Fail, Holds
  <2>4. \A q \in Requests : Holds(q)' => requests[q].key \notin lost'
    BY <2>2, <2>3 DEF KeysOK, KeyOK
  <2> QED
    BY <1>6, <2>2, <2>4, KeysStay DEF Fail, KeysOK, KeyOK
<1>7. ASSUME NEW r \in Requests, StoreReject(r) \/ \E n \in Nodes : StartReject(r, n)
      PROVE  KeysOK'
  <2>1. requests \in [Requests -> Calls]
    BY DEF TypeOK
  <2>2. /\ \A q \in Requests \ {r} : requests'[q] = requests[q]
        /\ requests'[r].pc \in {"reject", "idle"}
    BY <1>7, <2>1 DEF StoreReject, StartReject, Return, Goto, Idle
  <2>3. \A q \in Requests : Holds(q)' => Holds(q) /\ requests'[q].key = requests[q].key
    BY <2>2 DEF Holds, At
  <2> QED
    BY <1>7, <2>3, KeysStay DEF StoreReject, StartReject, KeysOK, KeyOK
<1> QED
  BY <1>1, <1>2, <1>3, <1>4, <1>5, <1>6, <1>7 DEF Next, AdminStep

LEMMA KeysRight == Spec => []KeysOK
  BY InitKeys, NextKeys, CallsRight, PTL DEF Spec

\* The mapping of a step of one request: what waits.
LEMMA WaitingSame ==
  ASSUME \A q \in Requests : /\ At(q, "respond")' <=> At(q, "respond")
                             /\ At(q, "respond") => requests'[q].key = requests[q].key
  PROVE  Waiting' = Waiting
  BY DEF Waiting

LEMMA WaitingJoins ==
  ASSUME NEW r \in Requests, ~At(r, "respond"), At(r, "respond")',
         requests'[r].key = requests[r].key,
         \A q \in Requests \ {r} : requests'[q] = requests[q]
  PROVE  Waiting' = Waiting \cup {requests[r].key}
<1>1. \A q \in Requests \ {r} : At(q, "respond")' <=> At(q, "respond")
  BY DEF At
<1> QED
  BY <1>1 DEF Waiting

LEMMA WaitingLeaves ==
  ASSUME KeysOK, NEW r \in Requests, Holds(r), requests'[r] = Idle,
         \A q \in Requests \ {r} : requests'[q] = requests[q]
  PROVE  Waiting' = Waiting \ {requests[r].key}
<1>1. \A q \in Requests \ {r} : At(q, "respond")' <=> At(q, "respond")
  BY DEF At
<1>2. ~At(r, "respond")'
  BY DEF At, Idle
<1>3. \A q \in Requests \ {r} : At(q, "respond") => requests[q].key # requests[r].key
  BY DEF KeysOK, KeyOK, Holds
<1> QED
  BY <1>1, <1>2, <1>3 DEF Waiting

\* A key that has not been told is not ended, one that waits is held.
LEMMA HeldNotEnded ==
  ASSUME TypeOK, CallsOK, KeysOK, NEW r \in Requests, Holds(r)
  PROVE  /\ ~Admission!Ended(requests[r].key)
         /\ <<Node(r), requests[r].key>> \in admitted
         /\ Node(r) \in Nodes /\ requests[r].key \in Keys
         /\ At(r, "store") => requests[r].key \notin Waiting
<1>1. Node(r) \in Nodes /\ requests[r].key \in drawn /\ drawn \subseteq Keys
  BY HeldDrawn DEF Holds, TypeOK
<1>2. <<Node(r), requests[r].key>> \in admitted
  BY DEF CallsOK, CallOK, Holds, At
<1>3. requests[r].key \notin lost /\ \A n \in Nodes : requests[r].key \notin shared[n]
  BY DEF KeysOK, KeyOK
<1>4. ASSUME At(r, "store"), NEW q \in Requests, At(q, "respond")
      PROVE  requests[q].key # requests[r].key
  <2>1. q # r
    BY <1>4 DEF At
  <2> QED
    BY <1>4, <2>1 DEF KeysOK, KeyOK, Holds
<1> QED
  BY <1>1, <1>2, <1>3, <1>4 DEF Admission!Ended, Waiting

\* Nothing the admission speaks of moves.
LEMMA AdmissionStutters ==
  ASSUME UNCHANGED <<rows, shared, admitted, lost>>, Waiting' = Waiting
  PROVE  UNCHANGED Admission!vars
  BY DEF Admission!vars, Standing, InForce, Registered

LEMMA AdmissionStep ==
  ASSUME TypeOK, CallsOK, KeysOK, [Next]_vars
  PROVE  [Admission!Next]_(Admission!vars)
<1>0. /\ requests \in [Requests -> Calls] /\ rows \in [Registered -> Rows]
      /\ Registered = DOMAIN rows
  BY DEF TypeOK, Registered
<1>1. CASE UNCHANGED vars
  BY <1>1, AdmissionStutters DEF vars, Waiting, At
<1>2. ASSUME NEW r \in Requests, \/ \E n \in Nodes : AnswerKnown(r, n) \/ AskHandshake(r, n)
                                \/ InsertCollides(r)
                                \/ \E n \in Nodes : StartReject(r, n)
      PROVE  UNCHANGED Admission!vars
  <2>1. /\ \A q \in Requests \ {r} : requests'[q] = requests[q]
        /\ ~At(r, "respond") /\ requests'[r].pc # "respond"
    BY <1>0, <1>2
    DEF AnswerKnown, AskHandshake, InsertCollides, StartReject, Return, Goto, Idle, At
  <2>2. Waiting' = Waiting
    BY <2>1, WaitingSame DEF At
  <2> QED
    BY <1>2, <2>2, AdmissionStutters DEF AnswerKnown, AskHandshake, InsertCollides, StartReject
<1>3. ASSUME NEW r \in Requests, InsertNode(r)
      PROVE  \E n \in Nodes : Admission!Apply(n)
  <2> DEFINE n == Node(r)
  <2>1. n \in Nodes /\ n \notin Registered
    BY <1>3, CallKinds DEF InsertNode, Unique, Node, HandshakeCalls
  <2>2. Waiting' = Waiting
    <3>1. requests'[r] = Idle /\ \A q \in Requests \ {r} : requests'[q] = requests[q]
      BY <1>3, HoldersOf DEF InsertNode, Return
    <3> QED
      BY <1>3, <3>1, WaitingSame DEF InsertNode, At, Idle
  <2>3. /\ Registered' = Registered \cup {n}
        /\ rows' = [x \in Registered \cup {n} |-> IF x = n THEN NewRow ELSE rows[x]]
    BY <1>3 DEF InsertNode, Registered
  <2> HIDE DEF n
  <2>4. Standing' = [x \in DOMAIN Standing \cup {n} |->
                        IF x = n THEN "pending" ELSE Standing[x]]
    BY <2>3 DEF Standing, NewRow
  <2>5. InForce' = [x \in DOMAIN Standing \cup {n} |-> IF x = n THEN NoKey ELSE InForce[x]]
    BY <2>3 DEF Standing, InForce, NewRow
  <2>6. Admission!Apply(n)
    BY <1>3, <2>1, <2>2, <2>4, <2>5 DEF Admission!Apply, InsertNode, Standing
  <2> QED
    BY <2>1, <2>6
<1>4. ASSUME NEW r \in Requests, NEW n \in Nodes, NEW k \in Keys, StartAccept(r, n, k)
      PROVE  Admission!Draw(n, k)
  <2>1. Waiting' = Waiting
    <3>1. /\ requests'[r].pc = "store"
          /\ \A q \in Requests \ {r} : requests'[q] = requests[q]
      BY <1>4, HoldersOf DEF StartAccept
    <3> QED
      BY <1>4, <3>1, WaitingSame DEF StartAccept, At
  <2>2. n \in DOMAIN Standing /\ Standing[n] = "pending"
    BY <1>4 DEF StartAccept, Acceptable, Standing
  <2>3. Admission!Fresh(k)
    BY <1>4 DEF StartAccept, TypeOK, Admission!Fresh
  <2>4. admitted' = admitted \cup {<<n, k>>}
    BY <1>4 DEF StartAccept, Acceptable
  <2>5. UNCHANGED <<Standing, InForce, shared, lost>>
    BY <1>4 DEF StartAccept, Standing, InForce, Registered
  <2> QED
    BY <2>1, <2>2, <2>3, <2>4, <2>5 DEF Admission!Draw
<1>5. ASSUME NEW r \in Requests, StoreKey(r)
      PROVE  \E n \in Nodes, k \in Keys : Admission!Admit(n, k)
  <2> DEFINE c == requests[r]
  <2>1. c \in AcceptCalls /\ Holds(r) /\ At(r, "store")
    BY <1>5, CallKinds DEF StoreKey, Holds
  <2>2. c.seen = "pending" /\ c.node \in Registered
    BY <1>5 DEF StoreKey, CallsOK, CallOK, At, Node
  <2>3. /\ requests'[r].pc = "respond" /\ requests'[r].key = c.key
        /\ \A q \in Requests \ {r} : requests'[q] = requests[q]
    BY <1>5, <2>1, HoldersOf DEF StoreKey, AcceptCalls
  <2>4. Waiting' = Waiting \cup {c.key}
    BY <2>1, <2>3, WaitingJoins DEF At
  <2>5. rows' = [rows EXCEPT ![c.node] = [status |-> "accepted", key |-> c.key]]
    BY <1>5, <2>2 DEF StoreKey
  <2>6. Registered' = Registered
    BY <2>5 DEF Registered
  <2>7. /\ Standing' = [Standing EXCEPT ![c.node] = "accepted"]
        /\ InForce' = [InForce EXCEPT ![c.node] = c.key]
    BY <1>0, <2>2, <2>5, <2>6 DEF Standing, InForce
  <2>8. /\ <<c.node, c.key>> \in admitted /\ c.node \in Nodes /\ c.key \in Keys
        /\ ~Admission!Ended(c.key) /\ c.key \notin Waiting
    BY <2>1, HeldNotEnded DEF Node
  <2>9. Admission!Admit(c.node, c.key)
    BY <1>5, <2>4, <2>7, <2>8 DEF Admission!Admit, StoreKey
  <2> QED
    BY <2>8, <2>9
<1>6. ASSUME NEW r \in Requests, RespondKey(r)
      PROVE  \E n \in Nodes, k \in Keys : Admission!Tell(n, k)
  <2> DEFINE k == requests[r].key
  <2>1. Holds(r) /\ At(r, "respond")
    BY <1>6 DEF RespondKey, Holds
  <2>2. requests'[r] = Idle /\ \A q \in Requests \ {r} : requests'[q] = requests[q]
    BY <1>6, HoldersOf DEF RespondKey, Return
  <2>3. Waiting' = Waiting \ {k}
    BY <2>1, <2>2, WaitingLeaves
  <2>4. <<Node(r), k>> \in admitted /\ Node(r) \in Nodes /\ k \in Keys /\ k \in Waiting
    BY <2>1, HeldNotEnded DEF Waiting
  <2>5. UNCHANGED <<Standing, InForce>>
    BY <1>6 DEF RespondKey, Standing, InForce, Registered
  <2>6. Admission!Tell(Node(r), k)
    BY <1>6, <2>3, <2>4, <2>5 DEF Admission!Tell, RespondKey
  <2> QED
    BY <2>4, <2>6
<1>7. ASSUME NEW r \in Requests, StoreReject(r)
      PROVE  (\E n \in Nodes : Admission!Refuse(n)) \/ UNCHANGED Admission!vars
  <2> DEFINE n == requests[r].node
  <2>1. n \in Registered /\ n \in Nodes
    BY <1>7 DEF StoreReject, CallsOK, CallOK, At, Node, TypeOK
  <2>2. Waiting' = Waiting
    <3>1. requests'[r] = Idle /\ \A q \in Requests \ {r} : requests'[q] = requests[q]
      BY <1>7, HoldersOf DEF StoreReject, Return
    <3> QED
      BY <1>7, <3>1, WaitingSame DEF StoreReject, At, Idle
  <2>3. rows' = [rows EXCEPT ![n].status = RejectedStatus(requests[r].seen, @)]
    BY <1>7 DEF StoreReject
  <2>4. Registered' = Registered
    BY <2>3 DEF Registered
  <2>5. InForce' = InForce
    BY <1>0, <2>1, <2>3, <2>4 DEF InForce, Rows
  <2>6. \/ Standing' = [Standing EXCEPT ![n] = "rejected"]
        \/ Standing' = Standing
    BY <1>0, <2>1, <2>3, <2>4 DEF Standing, Rows, RejectedStatus
  <2>7. UNCHANGED <<shared, admitted, lost>>
    BY <1>7 DEF StoreReject
  <2>8. n \in DOMAIN Standing
    BY <2>1 DEF Standing
  <2> HIDE DEF n
  <2> QED
    BY <2>1, <2>2, <2>5, <2>6, <2>7, <2>8 DEF Admission!Refuse, Admission!vars
<1>8. ASSUME NEW r \in Requests, Fail(r)
      PROVE  (\E k \in Keys : Admission!Lose(k)) \/ UNCHANGED Admission!vars
  <2>1. requests'[r] = Idle /\ \A q \in Requests \ {r} : requests'[q] = requests[q]
    BY <1>8, HoldersOf DEF Fail, Return
  <2>2. UNCHANGED <<rows, Standing, InForce, shared, admitted>>
    BY <1>8 DEF Fail, Standing, InForce, Registered
  <2>3. CASE Holds(r)
    <3> DEFINE k == requests[r].key
    <3>1. Waiting' = Waiting \ {k} /\ lost' = lost \cup {k}
      BY <1>8, <2>1, <2>3, WaitingLeaves DEF Fail, Holds
    <3>2. k \in Keys /\ ~Admission!Ended(k) /\ ~Admission!Fresh(k)
      BY <2>3, HeldNotEnded DEF Admission!Fresh
    <3> QED
      BY <2>2, <3>1, <3>2 DEF Admission!Lose
  <2>4. CASE ~Holds(r)
    <3>1. Waiting' = Waiting /\ lost' = lost
      BY <1>8, <2>1, <2>4, WaitingSame DEF Fail, Holds, At, Idle
    <3> QED
      BY <2>2, <3>1, AdmissionStutters
  <2> QED
    BY <2>3, <2>4
<1> QED
  BY <1>1, <1>2, <1>3, <1>4, <1>5, <1>6, <1>7, <1>8
  DEF Next, HandshakeStep, AdminStep, Admission!Next

LEMMA AdmissionInit == Init => Admission!Init
  BY DEF Init, Admission!Init, Standing, InForce, Waiting, Registered, At, Idle

\* Every behaviour of the handshake is one of the admission: a key belongs to one
\* node, takes effect once and before it is told, and is told or lost but not both
\* (accept_node_handshake); nothing but such a key or a rejection changes a
\* registration that exists (create_node, reject_node_handshake).
THEOREM HandshakeImplementsAdmission == Spec => ImplementsAdmission
  BY AdmissionInit, AdmissionStep, CallsRight, KeysRight, PTL
  DEF Spec, ImplementsAdmission, Admission!Spec

=============================================================================
