------------------------------ MODULE HubProofs ------------------------------
(***************************************************************************)
(* Theorems about Hub: the hub, projected on any one of its parts, behaves *)
(* like that part, so the theorems of HandshakeProofs, PushGateProofs and  *)
(* AuditReviewProofs are theorems of the hub; and what only holds of the   *)
(* parts together.                                                         *)
(***************************************************************************)
EXTENDS Hub, PushGateProofs

\* The modules of the proofs, with the same substitutions as H and Q in Hub.
HP == INSTANCE HandshakeProofs WITH
    Requests <- Registrars, requests <- calls, admitted <- issued

QP == INSTANCE AuditReviewProofs WITH
    Requests <- Requests \cup Reviewers, requests <- tasks, Bundles <- Stored

-----------------------------------------------------------------------------
(* The theorems of the parts, under the names that Hub gives the parts.    *)

LEMMA SameRegistry ==
  /\ HP!Spec <=> H!Spec
  /\ HP!TypeOK <=> H!TypeOK
  /\ HP!AuthenticatesAdmitted <=> H!AuthenticatesAdmitted
  BY DEF
    H!vars, HP!vars, H!Statuses, HP!Statuses, H!Rows, HP!Rows, H!Answers, HP!Answers,
    H!Idle, HP!Idle, H!HandshakeCalls, HP!HandshakeCalls, H!AcceptCalls, HP!AcceptCalls,
    H!RejectCalls, HP!RejectCalls, H!Calls, HP!Calls, H!Init, HP!Init, H!Registered,
    HP!Registered, H!At, HP!At, H!Goto, HP!Goto, H!Return, HP!Return, H!Node, HP!Node,
    H!Answer, HP!Answer, H!Authenticates, HP!Authenticates, H!AnswerKnown, HP!AnswerKnown,
    H!AskHandshake, HP!AskHandshake, H!Unique, HP!Unique, H!NewRow, HP!NewRow, H!InsertNode,
    HP!InsertNode, H!InsertCollides, HP!InsertCollides, H!Acceptable, HP!Acceptable,
    H!StartAccept, HP!StartAccept, H!StoreKey, HP!StoreKey, H!RespondKey, HP!RespondKey,
    H!StartReject, HP!StartReject, H!RejectedStatus, HP!RejectedStatus, H!StoreReject,
    HP!StoreReject, H!Fail, HP!Fail, H!HandshakeStep, HP!HandshakeStep, H!AdminStep,
    HP!AdminStep, H!Next, HP!Next, H!Spec, HP!Spec, H!TypeOK, HP!TypeOK,
    H!AuthenticatesAdmitted, HP!AuthenticatesAdmitted

LEMMA SameReview ==
  /\ QP!Spec <=> Q!Spec
  /\ QP!TypeOK <=> Q!TypeOK
  /\ QP!PublishedIsSanctioned <=> Q!PublishedIsSanctioned
  BY DEF
    Q!Relations, QP!Relations, Q!vars, QP!vars, Q!Elements, QP!Elements, Q!Statements,
    QP!Statements, Q!IsEntity, QP!IsEntity, Q!Relation, QP!Relation, Q!Type, QP!Type, Q!Key,
    QP!Key, Q!Touches, QP!Touches, Q!Content, QP!Content, Q!PredicatesAllowed,
    QP!PredicatesAllowed, Q!Skipped, QP!Skipped, Q!Merged, QP!Merged, Q!Merge, QP!Merge,
    Q!CountsAsCreated, QP!CountsAsCreated, Q!Statuses, QP!Statuses, Q!Rows, QP!Rows,
    Q!Stamps, QP!Stamps, Q!Counters, QP!Counters, Q!Idle, QP!Idle, Q!PushCalls,
    QP!PushCalls, Q!ApproveCalls, QP!ApproveCalls, Q!RejectCalls, QP!RejectCalls, Q!Calls,
    QP!Calls, Q!Init, QP!Init, Q!At, QP!At, Q!Goto, QP!Goto, Q!Return, QP!Return,
    Q!Existing, QP!Existing, Q!BundleOf, QP!BundleOf, Q!Increment, QP!Increment, Q!NewRow,
    QP!NewRow, Q!QueueEntry, QP!QueueEntry, Q!CountPush, QP!CountPush, Q!LogPush,
    QP!LogPush, Q!Approvable, QP!Approvable, Q!StartApprove, QP!StartApprove,
    Q!MergeStatement, QP!MergeStatement, Q!CommitDone, QP!CommitDone, Q!MarkApproved,
    QP!MarkApproved, Q!CreditNode, QP!CreditNode, Q!Rejectable, QP!Rejectable,
    Q!StartReject, QP!StartReject, Q!MarkRejected, QP!MarkRejected, Q!Fail, QP!Fail,
    Q!Continue, QP!Continue, Q!Arrive, QP!Arrive, Q!Next, QP!Next, Q!Spec, QP!Spec,
    Q!TypeOK, QP!TypeOK, Q!PublishedIsSanctioned, QP!PublishedIsSanctioned

LEMMA RegistryTheorems == H!Spec => [](H!TypeOK /\ H!AuthenticatesAdmitted)
<1>1. HP!NoKeyAssumption /\ HP!FailuresAssumption
  BY PartsAssumption, FailuresAssumption DEF HP!NoKeyAssumption, HP!FailuresAssumption
<1>2. HP!Spec => []HP!TypeOK
  BY <1>1, HP!HandshakeTyped
<1>3. HP!Spec => []HP!AuthenticatesAdmitted
  BY <1>1, HP!OnlyAdmittedEnter
<1> QED
  BY <1>2, <1>3, SameRegistry, PTL

LEMMA ReviewTheorems == Q!Spec => [](Q!TypeOK /\ Q!PublishedIsSanctioned)
<1>1. /\ QP!UpperAssumption /\ QP!BundlesAssumption /\ QP!MaxCommitsAssumption
      /\ QP!FailuresAssumption
  BY PartsAssumption, FailuresAssumption
     DEF QP!UpperAssumption, QP!BundlesAssumption, QP!MaxCommitsAssumption,
         QP!FailuresAssumption, QP!Relations, Q!Relations
<1>2. QP!Spec => []QP!TypeOK
  BY <1>1, QP!TypeCorrect
<1>3. QP!Spec => []QP!PublishedIsSanctioned
  BY <1>1, QP!PublishedSanctioned
<1> QED
  BY <1>2, <1>3, SameReview, PTL

-----------------------------------------------------------------------------
(* The hub is each of its parts.                                           *)

\* The registry: only its own requests touch its tables.
LEMMA RegistryStep1 == [HubNext]_hubVars => [H!Next]_(H!vars)
<1> SUFFICES ASSUME [HubNext]_hubVars PROVE [H!Next]_(H!vars)
  OBVIOUS
<1>1. CASE UNCHANGED registryVars
  BY <1>1 DEF registryVars, H!vars
<1>2. CASE ~UNCHANGED registryVars
  <2>1. HubNext
    BY <1>2 DEF hubVars
  <2> QED
    BY <1>2, <2>1 DEF HubNext, Authenticate, PassAndQueue, Block, Unblock, GateStep, Tick,
       ReviewStep, RegistryStep
<1> QED
  BY <1>1, <1>2

LEMMA HubRegistry == HubSpec => H!Spec
<1>1. HubInit => H!Init
  BY DEF HubInit
<1> QED
  BY <1>1, RegistryStep1, PTL DEF HubSpec, H!Spec

\* The gate: who is unblocked is a node.
LEMMA GateStep1 == H!TypeOK /\ [HubNext]_hubVars => [Next]_vars
<1> SUFFICES ASSUME H!TypeOK, [HubNext]_hubVars PROVE [Next]_vars
  OBVIOUS
<1>1. ASSUME NEW r \in Requests, Authenticate(r) PROVE Next
  BY <1>1 DEF Authenticate, Next, Arrive
<1>2. ASSUME NEW r \in Requests, PassAndQueue(r) PROVE Next
  BY <1>2 DEF PassAndQueue, Next, Continue
<1>3. ASSUME NEW r \in Requests, Unblock(r) PROVE Next
  BY <1>3 DEF Unblock, Next, Arrive, H!TypeOK
<1>4. ASSUME NEW r \in Requests, GateStep(r) PROVE Next
  BY <1>4 DEF GateStep, Next, Continue
<1>5. ASSUME NEW n \in Nodes, Block(n) \/ Tick(n) PROVE Next
  BY <1>5 DEF Block, Tick, Next
<1>6. CASE UNCHANGED vars
  BY <1>6
<1> QED
  BY <1>1, <1>2, <1>3, <1>4, <1>5, <1>6 DEF HubNext, hubVars, ReviewStep, RegistryStep

LEMMA HubRegistryInv == HubSpec => [](H!TypeOK /\ H!AuthenticatesAdmitted)
  BY HubRegistry, RegistryTheorems, PTL

\* The hub is the gate: all that is proved of PushGate holds while nodes register
\* and reviews run.
THEOREM HubIsGate == HubSpec => Spec
<1>1. HubInit => Init
  BY DEF HubInit
<1> QED
  BY <1>1, GateStep1, HubRegistryInv, PTL DEF HubSpec, Spec

\* The review: what PassAndQueue queues is a stored bundle of a node.
LEMMA ReviewStep1 == TypeOK /\ [HubNext]_hubVars => [Q!Next]_(Q!vars)
<1> SUFFICES ASSUME TypeOK, [HubNext]_hubVars PROVE [Q!Next]_(Q!vars)
  OBVIOUS
<1>1. ASSUME NEW r \in Requests, PassAndQueue(r) PROVE Q!Next
  <2>1. Node(r) \in Nodes /\ requests[r].bundle \in Pushed
    BY <1>1, AtPush DEF PassAndQueue, PassAudit, At, PushPcs
  <2>2. Knowledge[requests[r].bundle] \in Stored
    BY <2>1, KnowledgeAssumption
  <2>3. \E n \in Nodes, b \in Stored, e \in Entries : Q!QueueEntry(r, n, b, e)
    BY <1>1, <2>1, <2>2 DEF PassAndQueue
  <2> QED
    BY <2>3 DEF Q!Next, Q!Arrive
<1>2. ASSUME NEW t \in Requests \cup Reviewers, ReviewStep(t) PROVE Q!Next
  BY <1>2 DEF ReviewStep, Q!Next, Q!Arrive
<1>3. CASE UNCHANGED reviewVars
  BY <1>3 DEF reviewVars, Q!vars
<1> QED
  BY <1>1, <1>2, <1>3 DEF HubNext, hubVars, Authenticate, Block, Unblock, GateStep, Tick,
     RegistryStep

LEMMA HubGateTyped == HubSpec => []TypeOK
  BY HubIsGate, GateTyped, PTL

LEMMA HubReview == HubSpec => Q!Spec
<1>1. HubInit => Q!Init
  BY DEF HubInit
<1> QED
  BY <1>1, ReviewStep1, HubGateTyped, PTL DEF HubSpec, Q!Spec

LEMMA HubReviewInv == HubSpec => [](Q!TypeOK /\ Q!PublishedIsSanctioned)
  BY HubReview, ReviewTheorems, PTL

-----------------------------------------------------------------------------
(* One coroutine, two parts.                                               *)

\* A step of the review moves one request that was not idle, or a reviewer.
LEMMA TaskSteps ==
  ASSUME Q!TypeOK, NEW t \in Requests \cup Reviewers, ReviewStep(t)
  PROVE  /\ \A q \in Requests : q # t => tasks'[q] = tasks[q]
         /\ t \in Requests => ~Q!At(t, "idle")
<1>1. \E c : Q!Goto(t, c)
  BY DEF ReviewStep, Q!StartApprove, Q!StartReject, Q!Continue, Q!CountPush, Q!LogPush,
         Q!MergeStatement, Q!MarkApproved, Q!CreditNode, Q!MarkRejected, Q!Fail, Q!Return
<1>2. \A q \in Requests : q # t => tasks'[q] = tasks[q]
  BY <1>1 DEF Q!Goto, Q!TypeOK
<1>3. t \in Requests => ~Q!At(t, "idle")
  <2>1. t \in Requests => t \notin Reviewers
    BY ReviewersAssumption
  <2>2. Q!Continue(t) \/ Q!Fail(t) => ~Q!At(t, "idle")
    BY DEF Q!Continue, Q!CountPush, Q!LogPush, Q!MergeStatement, Q!MarkApproved,
           Q!CreditNode, Q!MarkRejected, Q!Fail, Q!At
  <2> QED
    BY <2>1, <2>2 DEF ReviewStep
<1> QED
  BY <1>2, <1>3

\* The steps of the gate move one request.
LEMMA GateMoves ==
  ASSUME TypeOK, NEW r \in Requests, Arrive(r) \/ Continue(r) \/ Fail(r)
  PROVE  \A q \in Requests : q # r => requests'[q] = requests[q]
<1>1. \E c : Goto(r, c)
  BY DEF Arrive, StartPush, StartUnblock, Continue, Command, ReadNext, DecideLimit, CheckExists,
         SetLimiter, IncrLimiter, ArmLimiter, PassAudit, RecordStrike, ArmStrikes, DecideBlock,
         BlockNode, ClearNext, Fail, Move, Return
<1> QED
  BY <1>1 DEF Goto, TypeOK

Exclusive == \A r \in Requests : At(r, "idle") \/ Q!At(r, "idle")

LEMMA ExclusiveStep == TypeOK /\ Q!TypeOK /\ Exclusive /\ [HubNext]_hubVars => Exclusive'
<1> SUFFICES ASSUME TypeOK, Q!TypeOK, Exclusive, [HubNext]_hubVars, NEW q \in Requests
             PROVE  (At(q, "idle") \/ Q!At(q, "idle"))'
  BY DEF Exclusive
<1>0. At(q, "idle") \/ Q!At(q, "idle")
  BY DEF Exclusive
<1>1. ASSUME NEW r \in Requests, Authenticate(r) \/ Unblock(r)
      PROVE  (At(q, "idle") \/ Q!At(q, "idle"))'
  <2>1. UNCHANGED tasks /\ Q!At(r, "idle")
    BY <1>1 DEF Authenticate, Unblock, reviewVars, Free
  <2>2. q # r => requests'[q] = requests[q]
    BY <1>1 DEF Authenticate, Unblock, StartPush, StartUnblock, Goto, TypeOK
  <2> QED
    BY <1>0, <2>1, <2>2 DEF At, Q!At
<1>2. ASSUME NEW r \in Requests, PassAndQueue(r)
      PROVE  (At(q, "idle") \/ Q!At(q, "idle"))'
  <2>1. requests'[r] = Idle /\ \A i \in Requests : i # r => requests'[i] = requests[i]
    BY <1>2, ReturnTyped DEF PassAndQueue, PassAudit
  <2>2. q # r => tasks'[q] = tasks[q]
    BY <1>2 DEF PassAndQueue, Q!QueueEntry, Q!Goto, Q!TypeOK
  <2> QED
    BY <1>0, <2>1, <2>2 DEF At, Q!At, Idle
<1>3. ASSUME NEW r \in Requests, GateStep(r)
      PROVE  (At(q, "idle") \/ Q!At(q, "idle"))'
  <2>1. UNCHANGED tasks /\ ~At(r, "idle")
    BY <1>3 DEF GateStep, reviewVars, Command, Fail, ReadNext, DecideLimit, CheckExists,
       SetLimiter, IncrLimiter, ArmLimiter, RecordStrike, ArmStrikes, DecideBlock, BlockNode,
       ClearNext, At
  <2>2. q # r => requests'[q] = requests[q]
    BY <1>3, GateMoves DEF GateStep, Continue
  <2> QED
    BY <1>0, <2>1, <2>2 DEF At, Q!At
<1>4. ASSUME NEW t \in Requests \cup Reviewers, ReviewStep(t)
      PROVE  (At(q, "idle") \/ Q!At(q, "idle"))'
  <2>1. UNCHANGED requests
    BY <1>4 DEF ReviewStep, vars
  <2> QED
    BY <1>0, <1>4, <2>1, TaskSteps DEF At, Q!At
<1>5. CASE UNCHANGED <<requests, tasks>>
  BY <1>0, <1>5 DEF At, Q!At
<1>6. ASSUME NEW n \in Nodes, Block(n) \/ Tick(n)
      PROVE  UNCHANGED <<requests, tasks>>
  BY <1>6, OutsideTyped DEF Block, Tick, reviewVars
<1> QED
  BY <1>1, <1>2, <1>3, <1>4, <1>5, <1>6 DEF HubNext, hubVars, vars, reviewVars, RegistryStep

\* The types of the parts, and no request is in two of them (dependencies.py,
\* push_knowledge).
THEOREM HubTyped == HubSpec => []HubTypeOK
<1>1. HubInit => Exclusive
  BY DEF HubInit, Init, Exclusive, At, Idle
<1>2. TypeOK /\ H!TypeOK /\ Q!TypeOK /\ Exclusive => HubTypeOK
  BY DEF HubTypeOK, Exclusive
<1> QED
  BY <1>1, <1>2, ExclusiveStep, HubGateTyped, HubRegistryInv, HubReviewInv, PTL DEF HubSpec

-----------------------------------------------------------------------------
(* What is in the graph went the whole way.                                *)

KeyIn(S, n) == \E k \in Keys : <<n, k>> \in S

\* The inductive invariant: who pushes was admitted, and what is queued was
\* pushed by such a node and has passed the pre-audit.
PushersAdmitted == \A r \in Requests : requests[r].pc \in PushPcs => KeyIn(issued, Node(r))
QueueVetted ==
    \A e \in DOMAIN queue : Vetted(queue[e].bundle) /\ KeyIn(issued, queue[e].origin)

LEMMA IssuedGrows == [HubNext]_hubVars => issued \subseteq issued'
<1>1. H!Next => issued \subseteq issued'
  BY DEF H!Next, H!HandshakeStep, H!AnswerKnown, H!AskHandshake, H!InsertNode, H!InsertCollides,
         H!AdminStep, H!StartAccept, H!StoreKey, H!RespondKey, H!StartReject, H!StoreReject, H!Fail
<1> QED
  BY <1>1, RegistryStep1 DEF H!vars

\* A push that goes on pushes for the same node.
LEMMA PushGoesOnFor ==
  ASSUME TypeOK, NEW r \in Requests, Command(r) \/ Fail(r), requests'[r].pc \in PushPcs
  PROVE  requests[r].pc \in PushPcs /\ requests'[r].node = Node(r)
<1>0. /\ "idle" \notin PushPcs /\ "clear" \notin PushPcs
      /\ Idle.pc = "idle"
  BY DEF PushPcs, Idle
<1>1. CASE ReadNext(r)
  BY <1>1, ReadsTyped DEF Node
<1>2. CASE DecideLimit(r) \/ CheckExists(r) \/ DecideBlock(r)
  <2>1. requests[r].pc \in PushPcs
    BY <1>2 DEF DecideLimit, CheckExists, DecideBlock, At, PushPcs
  <2> QED
    BY <1>0, <1>2, <2>1, DecidesTyped DEF Node
<1>3. CASE SetLimiter(r) \/ ArmLimiter(r)
  <2>1. requests[r].pc \in PushPcs
    BY <1>3 DEF SetLimiter, ArmLimiter, At, PushPcs
  <2> QED
    BY <1>3, <2>1, SetLimiterTyped, ArmLimiterTyped DEF Node
<1>4. CASE IncrLimiter(r)
  <2>1. requests[r].pc \in PushPcs
    BY <1>4 DEF IncrLimiter, At, PushPcs
  <2> QED
    BY <1>0, <1>4, <2>1, IncrLimiterTyped DEF Node
<1>5. CASE RecordStrike(r) \/ ArmStrikes(r)
  <2>1. requests[r].pc \in PushPcs
    BY <1>5 DEF RecordStrike, ArmStrikes, At, PushPcs
  <2> QED
    BY <1>5, <2>1, RecordStrikeTyped, ArmStrikesTyped DEF Node
<1>6. CASE BlockNode(r) \/ Fail(r)
  BY <1>0, <1>6, BlockTyped, FailTyped
<1>7. CASE ClearNext(r)
  BY <1>0, <1>7, ClearTyped
<1> QED
  BY <1>1, <1>2, <1>3, <1>4, <1>5, <1>6, <1>7 DEF Command

LEMMA PushersStep ==
  TypeOK /\ H!TypeOK /\ H!AuthenticatesAdmitted /\ PushersAdmitted /\ [HubNext]_hubVars
      => PushersAdmitted'
<1> SUFFICES ASSUME TypeOK, H!TypeOK, H!AuthenticatesAdmitted, PushersAdmitted,
                    [HubNext]_hubVars, NEW q \in Requests, requests'[q].pc \in PushPcs
             PROVE  KeyIn(issued', requests'[q].node)
  BY DEF PushersAdmitted, Node
<1>0. issued \subseteq issued'
  BY IssuedGrows
<1>1. CASE requests[q].pc \in PushPcs /\ requests'[q].node = Node(q)
  <2>1. KeyIn(issued, Node(q))
    BY <1>1 DEF PushersAdmitted
  <2> QED
    BY <1>0, <1>1, <2>1 DEF KeyIn, Node
<1>2. CASE requests'[q] = requests[q]
  BY <1>1, <1>2 DEF Node
<1>3. ASSUME NEW n \in Nodes, NEW k \in Keys, NEW b \in Pushed,
             H!Authenticates(n, k), StartPush(q, n, b)
      PROVE  KeyIn(issued', requests'[q].node)
  <2>1. <<n, k>> \in issued'
    BY <1>0, <1>3 DEF H!AuthenticatesAdmitted
  <2>2. requests'[q].node = n
    BY <1>3 DEF StartPush, Goto, TypeOK
  <2> QED
    BY <2>1, <2>2 DEF KeyIn, Node
<1>4. ASSUME NEW r \in Requests, Authenticate(r) PROVE KeyIn(issued', requests'[q].node)
  BY <1>2, <1>3, <1>4, GateMoves DEF Authenticate, Arrive
<1>5. ASSUME NEW r \in Requests, PassAndQueue(r) PROVE KeyIn(issued', requests'[q].node)
  <2>1. requests'[r] = Idle
    BY <1>5, ReturnTyped DEF PassAndQueue, PassAudit
  <2>2. q # r
    BY <2>1 DEF Idle, PushPcs
  <2> QED
    BY <1>2, <1>5, <2>2, GateMoves DEF PassAndQueue, Continue
<1>6. ASSUME NEW r \in Requests, Unblock(r) PROVE KeyIn(issued', requests'[q].node)
  <2>1. PICK n \in Nodes : StartUnblock(r, n)
    BY <1>6 DEF Unblock, H!TypeOK
  <2>2. requests'[r].pc = "clear"
    BY <2>1 DEF StartUnblock, Goto, TypeOK
  <2>3. q # r
    BY <2>2 DEF PushPcs
  <2> QED
    BY <1>2, <2>1, <2>3, GateMoves DEF Arrive
<1>7. ASSUME NEW r \in Requests, GateStep(r) PROVE KeyIn(issued', requests'[q].node)
  <2>1. CASE q = r
    BY <1>1, <1>7, <2>1, PushGoesOnFor DEF GateStep
  <2>2. CASE q # r
    BY <1>2, <1>7, <2>2, GateMoves DEF GateStep, Continue
  <2> QED
    BY <2>1, <2>2
<1>8. ASSUME NEW n \in Nodes, Block(n) \/ Tick(n) PROVE KeyIn(issued', requests'[q].node)
  BY <1>2, <1>8, OutsideTyped DEF Block, Tick
<1>9. CASE UNCHANGED requests
  BY <1>2, <1>9
<1> QED
  BY <1>4, <1>5, <1>6, <1>7, <1>8, <1>9 DEF HubNext, hubVars, vars, ReviewStep, RegistryStep

\* The review writes what it has decided into a row, never what the row is about.
LEMMA RowsAbout ==
  ASSUME Q!TypeOK, NEW t \in Requests \cup Reviewers, ReviewStep(t)
  PROVE  /\ DOMAIN queue' = DOMAIN queue
         /\ \A e \in DOMAIN queue : /\ queue'[e].bundle = queue[e].bundle
                                    /\ queue'[e].origin = queue[e].origin
<1>1. queue \in [DOMAIN queue -> Q!Rows]
  BY DEF Q!TypeOK, Q!Existing
<1>2. CASE Q!MarkApproved(t)
  BY <1>1, <1>2 DEF Q!MarkApproved, Q!Rows
<1>3. CASE Q!MarkRejected(t)
  BY <1>1, <1>3 DEF Q!MarkRejected, Q!Rows
<1>4. CASE UNCHANGED queue
  BY <1>4
<1> QED
  BY <1>2, <1>3, <1>4 DEF ReviewStep, Q!StartApprove, Q!StartReject, Q!Continue, Q!CountPush,
     Q!LogPush, Q!MergeStatement, Q!CreditNode, Q!Fail

LEMMA QueueStep ==
  TypeOK /\ Q!TypeOK /\ PushersAdmitted /\ QueueVetted /\ [HubNext]_hubVars => QueueVetted'
<1> SUFFICES ASSUME TypeOK, Q!TypeOK, PushersAdmitted, QueueVetted, [HubNext]_hubVars,
                    NEW e \in DOMAIN queue'
             PROVE  Vetted(queue'[e].bundle) /\ KeyIn(issued', queue'[e].origin)
  BY DEF QueueVetted, Vetted
<1>0. \A n : KeyIn(issued, n) => KeyIn(issued', n)
  BY IssuedGrows DEF KeyIn
<1>1. CASE e \in DOMAIN queue /\ queue'[e].bundle = queue[e].bundle
                              /\ queue'[e].origin = queue[e].origin
  BY <1>0, <1>1 DEF QueueVetted
<1>2. ASSUME NEW r \in Requests, PassAndQueue(r)
      PROVE  Vetted(queue'[e].bundle) /\ KeyIn(issued', queue'[e].origin)
  <2> DEFINE b == requests[r].bundle
  <2>1. requests[r].pc \in PushPcs /\ b \in Pushed /\ run_pre_audit(b).passed
    BY <1>2, AtPush DEF PassAndQueue, PassAudit, At, PushPcs
  <2>2. KeyIn(issued, Node(r)) /\ Vetted(Knowledge[b])
    BY <2>1 DEF PushersAdmitted, Vetted
  <2>3. PICK f \in Entries : Q!QueueEntry(r, Node(r), Knowledge[b], f)
    BY <1>2 DEF PassAndQueue
  <2>4. CASE e = f
    BY <1>0, <2>2, <2>3, <2>4 DEF Q!QueueEntry, Q!NewRow
  <2>5. CASE e # f
    BY <1>1, <2>3, <2>5 DEF Q!QueueEntry, Q!Existing
  <2> QED
    BY <2>4, <2>5
<1>3. ASSUME NEW t \in Requests \cup Reviewers, ReviewStep(t)
      PROVE  Vetted(queue'[e].bundle) /\ KeyIn(issued', queue'[e].origin)
  BY <1>1, <1>3, RowsAbout
<1>4. CASE UNCHANGED queue
  BY <1>1, <1>4
<1> QED
  BY <1>2, <1>3, <1>4 DEF HubNext, hubVars, reviewVars, Authenticate, Block, Unblock, GateStep,
     Tick, RegistryStep

\* The graph holds nothing but what an admitted node pushed, the pre-audit passed
\* and an approval found pending, whatever interleaves (get_current_node,
\* push_knowledge, approve_entry, commit_bundle).
THEOREM GraphVetted == HubSpec => []VettedOnly
<1>1. HubInit => PushersAdmitted /\ QueueVetted
  BY DEF HubInit, Init, Q!Init, PushersAdmitted, QueueVetted, Idle, PushPcs
<1>2. Q!TypeOK /\ Q!PublishedIsSanctioned /\ QueueVetted => VettedOnly
  <2> SUFFICES ASSUME Q!TypeOK, Q!PublishedIsSanctioned, QueueVetted, NEW x \in DOMAIN graph
               PROVE  \E e \in sanctioned :
                         /\ x \in Q!Content(queue[e].bundle)
                         /\ graph[x].origin = queue[e].origin
                         /\ Vetted(queue[e].bundle)
                         /\ \E k \in Keys : <<queue[e].origin, k>> \in issued
    BY DEF VettedOnly
  <2>1. PICK e \in sanctioned :
           x \in Q!Content(queue[e].bundle) /\ graph[x].origin = queue[e].origin
    BY DEF Q!PublishedIsSanctioned, Q!BundleOf
  <2>2. e \in DOMAIN queue
    BY DEF Q!TypeOK, Q!Existing
  <2> QED
    BY <2>1, <2>2 DEF QueueVetted, KeyIn
<1> QED
  BY <1>1, <1>2, PushersStep, QueueStep, HubGateTyped, HubRegistryInv, HubReviewInv, PTL
     DEF HubSpec

-----------------------------------------------------------------------------
(* A node that is shut out only finishes what it had begun.                *)

LEMMA FlightIs ==
  ASSUME TypeOK, NEW n
  PROVE  InFlight(n) = {r \in Requests : requests[r].pc \in PushPcs /\ Node(r) = n}
<1>1. \A r \in Requests : requests[r].pc \in PushPcs \cup {"idle", "clear"}
  BY DEF TypeOK, Calls, PushCalls, UnblockCalls, Idle, PushPcs
<1>2. "idle" \notin PushPcs /\ "clear" \notin PushPcs
  BY DEF PushPcs
<1> QED
  BY <1>1, <1>2 DEF InFlight, At

\* No push starts for it: get_current_node asks at every push.
LEMMA NoneEnters ==
  ASSUME TypeOK, TypeOK', H!TypeOK, HubNext, NEW n \in Nodes, Closed(n),
         NEW q \in Requests, requests'[q].pc \in PushPcs, requests'[q].node = n
  PROVE  requests[q].pc \in PushPcs /\ Node(q) = n
<1>1. CASE requests'[q] = requests[q]
  BY <1>1 DEF Node
<1>2. ASSUME NEW r \in Requests, Authenticate(r), q = r PROVE FALSE
  <2>1. PICK m \in Nodes, k \in Keys, b \in Pushed : H!Authenticates(m, k) /\ StartPush(r, m, b)
    BY <1>2 DEF Authenticate
  <2>2. requests'[r].node = m
    BY <2>1 DEF StartPush, Goto, TypeOK
  <2> QED
    BY <1>2, <2>1, <2>2 DEF Closed, H!Authenticates, StartPush
<1>3. ASSUME NEW r \in Requests, PassAndQueue(r), q = r PROVE FALSE
  BY <1>3, ReturnTyped DEF PassAndQueue, PassAudit, Idle, PushPcs
<1>4. ASSUME NEW r \in Requests, Unblock(r), q = r PROVE FALSE
  <2>1. PICK m \in Nodes : StartUnblock(r, m)
    BY <1>4 DEF Unblock, H!TypeOK
  <2>2. requests'[r].pc = "clear"
    BY <2>1 DEF StartUnblock, Goto, TypeOK
  <2> QED
    BY <1>4, <2>2 DEF PushPcs
<1>5. ASSUME NEW r \in Requests, GateStep(r), q = r
      PROVE  requests[q].pc \in PushPcs /\ Node(q) = n
  BY <1>5, PushGoesOnFor DEF GateStep
<1>6. ASSUME NEW r \in Requests, q # r,
             Authenticate(r) \/ PassAndQueue(r) \/ Unblock(r) \/ GateStep(r)
      PROVE  requests'[q] = requests[q]
  <2>1. Arrive(r) \/ Continue(r) \/ Fail(r)
    BY <1>6 DEF Authenticate, PassAndQueue, Unblock, GateStep, Arrive, Continue, H!TypeOK
  <2> QED
    BY <1>6, <2>1, GateMoves
<1>7. ASSUME NEW m \in Nodes, Block(m) \/ Tick(m) PROVE requests'[q] = requests[q]
  BY <1>7, OutsideTyped DEF Block, Tick
<1>8. CASE UNCHANGED requests
  BY <1>1, <1>8
<1> QED
  BY <1>1, <1>2, <1>3, <1>4, <1>5, <1>6, <1>7, <1>8 DEF HubNext, vars, ReviewStep, RegistryStep

\* Only a push in flight queues, and it ends with that.
LEMMA OwnGrows ==
  ASSUME TypeOK, TypeOK', Q!TypeOK, HubNext, NEW n \in Nodes, Own(n)' # Own(n)
  PROVE  InFlight(n)' # InFlight(n)
<1>1. ASSUME NEW t \in Requests \cup Reviewers, ReviewStep(t) PROVE Own(n)' = Own(n)
  BY <1>1, RowsAbout DEF Own
<1>2. CASE UNCHANGED queue
  BY <1>2 DEF Own
<1>3. ASSUME NEW r \in Requests, PassAndQueue(r) PROVE InFlight(n)' # InFlight(n)
  <2>1. PICK e \in Entries : Q!QueueEntry(r, Node(r), Knowledge[requests[r].bundle], e)
    BY <1>3 DEF PassAndQueue
  <2>2. n = Node(r)
    BY <2>1 DEF Own, Q!QueueEntry, Q!NewRow, Q!Existing
  <2>3. r \in InFlight(n)
    BY <1>3, <2>2 DEF InFlight, PassAndQueue, PassAudit, At
  <2>4. requests'[r].pc = "idle"
    BY <1>3, ReturnTyped DEF PassAndQueue, PassAudit, Idle
  <2>5. r \notin InFlight(n)'
    BY <2>4 DEF InFlight, At
  <2> QED
    BY <2>3, <2>5
<1> QED
  BY <1>1, <1>2, <1>3 DEF HubNext, reviewVars, Authenticate, Block, Unblock, GateStep, Tick,
     RegistryStep

\* Only a push in flight strikes.
LEMMA NoneStrikes ==
  ASSUME TypeOK, TypeOK', HubNext, NEW n \in Nodes, InFlight(n) = {}
  PROVE  Weighted(n)' <= Weighted(n)
<1>1. strikes[n] \in StrikeRows /\ Weighted(n) = Weigh(strikes[n])
  BY RowsTyped
<1>2. strikes'[n] \in StrikeRows /\ Weighted(n)' = Weigh(strikes'[n])
  BY DEF TypeOK, StrikeRows, Weighted, Weigh
<1>3. Eases(strikes[n], strikes'[n])
  <2>1. CASE strikes'[n] = strikes[n]
    BY <1>1, <2>1, EasesSame
  <2>2. ASSUME NEW r \in Requests, GateStep(r) PROVE Eases(strikes[n], strikes'[n])
    <3>1. CASE ClearNext(r)
      BY <3>1, ClearEases
    <3>2. CASE RecordStrike(r) \/ ArmStrikes(r)
      <4>1. r \in InFlight(Node(r))
        BY <3>2 DEF RecordStrike, ArmStrikes, InFlight, At
      <4>2. Node(r) # n
        BY <4>1
      <4>3. strikes'[n] = strikes[n]
        BY <3>2, <4>2 DEF RecordStrike, ArmStrikes, TypeOK
      <4> QED
        BY <2>1, <4>3
    <3>3. CASE UNCHANGED strikes
      BY <2>1, <3>3
    <3> QED
      BY <2>2, <3>1, <3>2, <3>3 DEF GateStep, Command, Fail, ReadNext, DecideLimit, CheckExists,
         SetLimiter, IncrLimiter, ArmLimiter, DecideBlock, BlockNode
  <2>3. ASSUME NEW m \in Nodes, Block(m) \/ Tick(m) PROVE Eases(strikes[n], strikes'[n])
    BY <2>3, OutsideEases DEF Block, Tick
  <2>4. ASSUME NEW r \in Requests, Authenticate(r) \/ PassAndQueue(r) \/ Unblock(r)
        PROVE  UNCHANGED strikes
    BY <2>4 DEF Authenticate, PassAndQueue, Unblock, StartPush, PassAudit, StartUnblock
  <2>5. CASE UNCHANGED vars
    BY <2>1, <2>5 DEF vars
  <2> QED
    BY <2>1, <2>2, <2>3, <2>4, <2>5 DEF HubNext, ReviewStep, RegistryStep
<1> QED
  BY <1>1, <1>2, <1>3, WeightsEase

\* A node that is blocked or rejected, and stays so, starts no push; what it had
\* in flight ends, with one entry each at most (get_current_node is asked once).
THEOREM ShutOutDrains == HubSpec => ClosedDrains
<1>1. TypeOK /\ TypeOK' /\ H!TypeOK /\ Q!TypeOK /\ [HubNext]_hubVars
      => [\A n \in Nodes : Closed(n) /\ Closed(n)' =>
             /\ InFlight(n)' \subseteq InFlight(n)
             /\ Own(n)' # Own(n) => InFlight(n)' # InFlight(n)
             /\ InFlight(n) = {} => Weighted(n)' <= Weighted(n)]_hubVars
  <2> SUFFICES ASSUME TypeOK, TypeOK', H!TypeOK, Q!TypeOK, HubNext, NEW n \in Nodes, Closed(n)
               PROVE  /\ InFlight(n)' \subseteq InFlight(n)
                      /\ Own(n)' # Own(n) => InFlight(n)' # InFlight(n)
                      /\ InFlight(n) = {} => Weighted(n)' <= Weighted(n)
    OBVIOUS
  <2>1. ASSUME NEW q \in InFlight(n)' PROVE q \in InFlight(n)
    <3>1. q \in Requests /\ requests'[q].pc \in PushPcs /\ requests'[q].node = n
      <4>1. q \in Requests /\ requests'[q].pc \notin {"idle", "clear"} /\ requests'[q].node = n
        BY <2>1 DEF InFlight, At, Node
      <4> QED
        BY <4>1 DEF TypeOK, Calls, PushCalls, UnblockCalls, Idle, PushPcs
    <3> QED
      BY <3>1, NoneEnters, FlightIs
  <2> QED
    BY <2>1, OwnGrows, NoneStrikes
<1> QED
  BY <1>1, HubGateTyped, HubRegistryInv, HubReviewInv, PTL DEF HubSpec, ClosedDrains

-----------------------------------------------------------------------------
(* What the parts promise, promised by the hub.                            *)

\* Strikes and push counts end in the hub, too (abuse.py).
THEOREM HubCountersEnd == HubSpec => []CountersEnd
  BY HubIsGate, CountersAllEnd, PTL

\* Nobody escapes the hard limit in the hub (record_strike, should_block).
THEOREM HubNobodyEscapes == HubSpec => []NoEscape
  BY HubIsGate, NobodyEscapes, PTL

\* The caps of the push window (check_rate_limit).
THEOREM HubWindowCap == HubSpec => []WindowCap
  BY HubIsGate, WindowIsCapped, PTL

\* Nothing older outlives an unblock, also when the node is rejected or its bundles
\* are reviewed meanwhile (unblock_node, clear_strikes).
THEOREM HubUnblocksSettle == HubSpec => UnblockSettles
  BY HubIsGate, UnblocksSettle, PTL

\* With its gate and its registry around it, the review is still a ledger.
THEOREM HubImplementsLedger == HubSpec => Q!ImplementsLedger
<1>1. /\ QP!UpperAssumption /\ QP!BundlesAssumption /\ QP!MaxCommitsAssumption
      /\ QP!FailuresAssumption
  BY PartsAssumption, FailuresAssumption
     DEF QP!UpperAssumption, QP!BundlesAssumption, QP!MaxCommitsAssumption,
         QP!FailuresAssumption, QP!Relations, Q!Relations
<1>2. QP!Spec => QP!ImplementsLedger
  BY <1>1, QP!PipelineImplementsLedger
<1>3. QP!ImplementsLedger <=> Q!ImplementsLedger
  BY DEF
    Q!ImplementsLedger, QP!ImplementsLedger, Q!Ledger!Spec, QP!Ledger!Spec, Q!Ledger!Init,
    QP!Ledger!Init, Q!Ledger!Next, QP!Ledger!Next, Q!Ledger!vars, QP!Ledger!vars,
    Q!Ledger!Submit, QP!Ledger!Submit, Q!Ledger!Sanction, QP!Ledger!Sanction,
    Q!Ledger!Publish, QP!Ledger!Publish, Q!Ledger!Approve, QP!Ledger!Approve,
    Q!Ledger!Reject, QP!Ledger!Reject, Q!Offer, QP!Offer, Q!Existing, QP!Existing,
    Q!BundleOf, QP!BundleOf, Q!Content, QP!Content, Q!Statements, QP!Statements, Q!Touches,
    QP!Touches, Q!IsEntity, QP!IsEntity, Q!Key, QP!Key, Q!Relation, QP!Relation, Q!Type,
    QP!Type
<1> QED
  BY <1>2, <1>3, SameReview, HubReview, PTL

\* With a gate and a review around it, the registry still keeps the admission.
THEOREM HubImplementsAdmission == HubSpec => H!ImplementsAdmission
<1>1. HP!NoKeyAssumption /\ HP!FailuresAssumption
  BY PartsAssumption, FailuresAssumption DEF HP!NoKeyAssumption, HP!FailuresAssumption
<1>2. HP!Spec => HP!ImplementsAdmission
  BY <1>1, HP!HandshakeImplementsAdmission
<1>3. HP!ImplementsAdmission <=> H!ImplementsAdmission
  BY DEF
    H!ImplementsAdmission, HP!ImplementsAdmission, H!Admission!Spec, HP!Admission!Spec,
    H!Admission!Init, HP!Admission!Init, H!Admission!Next, HP!Admission!Next,
    H!Admission!vars, HP!Admission!vars, H!Admission!Apply, HP!Admission!Apply,
    H!Admission!Draw, HP!Admission!Draw, H!Admission!Admit, HP!Admission!Admit,
    H!Admission!Tell, HP!Admission!Tell, H!Admission!Lose, HP!Admission!Lose,
    H!Admission!Refuse, HP!Admission!Refuse, H!Admission!Fresh, HP!Admission!Fresh,
    H!Admission!Ended, HP!Admission!Ended, H!Standing, HP!Standing, H!InForce, HP!InForce,
    H!Waiting, HP!Waiting, H!Registered, HP!Registered, H!At, HP!At
<1> QED
  BY <1>2, <1>3, SameRegistry, HubRegistry, PTL

=============================================================================
