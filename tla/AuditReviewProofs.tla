------------------------- MODULE AuditReviewProofs -------------------------
(***************************************************************************)
(* Proofs about AuditReview, for every set of nodes, entries, requests,    *)
(* names and bundles, with and without failures.                           *)
(***************************************************************************)
EXTENDS AuditReview, FiniteSetTheorems, TLAPS

-----------------------------------------------------------------------------
(* Facts about bundles and MERGE.                                          *)

\* The statements after the m entity statements are the k relation statements.
LEMMA Shift ==
    ASSUME NEW m \in Nat, NEW k \in Nat, NEW i \in 1..(m + k), ~(i <= m)
    PROVE  i - m \in 1..k
OBVIOUS

LEMMA SumNat ==
    ASSUME NEW m \in Nat, NEW k \in Nat
    PROVE  m + k \in Nat
OBVIOUS

LEMMA StatementsNat ==
    ASSUME NEW b \in Bundles
    PROVE  Statements(b) \in Nat
<1>1. b.entities \in Seq(Names) /\ b.relations \in Seq(Relations)
  BY BundlesAssumption
<1>2. Len(b.entities) \in Nat /\ Len(b.relations) \in Nat
  BY <1>1
<1> QED
  BY <1>2, SumNat DEF Statements

\* A statement names elements of the graph only.
LEMMA TouchesElements ==
    ASSUME NEW b \in Bundles, NEW i \in 1..Statements(b)
    PROVE  Touches(b, i) \subseteq Elements
<1>1. b \in [origin : Nodes, entities : Seq(Names), relations : Seq(Relations)]
  BY BundlesAssumption
<1>2. b.entities \in Seq(Names) /\ b.relations \in Seq(Relations)
  BY <1>1
<1>3. Len(b.entities) \in Nat /\ Len(b.relations) \in Nat
  BY <1>2
<1>4. CASE IsEntity(b, i)
  <2>1. b.entities[i] \in Names
    BY <1>2, <1>3, <1>4 DEF IsEntity, Statements
  <2> QED
    BY <1>4, <2>1 DEF Touches, Key, Elements
<1>5. CASE ~IsEntity(b, i)
  <2>1. i - Len(b.entities) \in 1..Len(b.relations)
    BY <1>3, <1>5, Shift DEF IsEntity, Statements
  <2>2. Relation(b, i) \in Relations
    BY <1>2, <2>1 DEF Relation
  <2>3. /\ Relation(b, i).subject \in Names
        /\ Relation(b, i).object \in Names
        /\ Type(b, i) \in {Upper[p] : p \in RawPredicates}
    BY <2>2 DEF Relations, Type
  <2> QED
    BY <1>5, <2>3 DEF Touches, Key, Elements
<1> QED
  BY <1>4, <1>5

\* Of a bundle that passed the pre-audit, commit_bundle skips nothing: both
\* layers look the same spelling up in the same allowlist.
LEMMA AuditedIsMerged ==
    ASSUME NEW b \in Bundles, PredicatesAllowed(b), NEW i \in 1..Statements(b)
    PROVE  Merged(b, i) = Touches(b, i)
<1>1. b \in [origin : Nodes, entities : Seq(Names), relations : Seq(Relations)]
  BY BundlesAssumption
<1>2. b.entities \in Seq(Names) /\ b.relations \in Seq(Relations)
  BY <1>1
<1>3. Len(b.entities) \in Nat /\ Len(b.relations) \in Nat
  BY <1>2
<1>4. ASSUME ~IsEntity(b, i) PROVE Type(b, i) \in Allowed
  <2>1. i - Len(b.entities) \in 1..Len(b.relations)
    BY <1>3, <1>4, Shift DEF IsEntity, Statements
  <2>2. DOMAIN b.relations = 1..Len(b.relations)
    BY <1>2
  <2> QED
    BY <2>1, <2>2 DEF PredicatesAllowed, Type, Relation
<1> QED
  BY <1>4 DEF Merged, Skipped

\* A skipped statement touches nothing, any other what it names.
LEMMA MergedIsTouched ==
    ASSUME NEW b, NEW i
    PROVE  Merged(b, i) \subseteq Touches(b, i)
BY DEF Merged

-----------------------------------------------------------------------------
(* Type correctness.                                                       *)

\* A request in flight works on a row that exists: rows are never deleted.
RequestsExist ==
    \A r \in Requests : ~At(r, "idle") => requests[r].entry \in Existing

Typing == TypeOK /\ RequestsExist

\* The local variables a request has at each of its awaits.
LEMMA CallKinds ==
    ASSUME NEW r \in Requests, requests \in [Requests -> Calls]
    PROVE  /\ At(r, "count") \/ At(r, "log") => requests[r] \in PushCalls
           /\ At(r, "merge") \/ At(r, "credit") => requests[r] \in ApproveCalls
           /\ At(r, "reject") => requests[r] \in RejectCalls
<1>1. requests[r] \in Calls
  OBVIOUS
<1> QED
  BY <1>1 DEF Calls, Idle, PushCalls, ApproveCalls, RejectCalls, At

\* Moving one request on keeps the others where they were.
LEMMA GotoTyped ==
    ASSUME NEW r \in Requests, NEW call \in Calls, requests \in [Requests -> Calls],
           Goto(r, call)
    PROVE  /\ requests' \in [Requests -> Calls]
           /\ requests'[r] = call
           /\ \A q \in Requests \ {r} : requests'[q] = requests[q]
BY DEF Goto

\* One statement moves `next` on by one; what it adds to `created` is a number.
LEMMA StatementAdvances ==
    ASSUME NEW r \in Requests, MergeStatement(r), requests \in [Requests -> Calls]
    PROVE  \E k \in Nat : Goto(r, [requests[r] EXCEPT !.next = @ + 1, !.created = k])
<1> DEFINE c == requests[r]
           b == BundleOf(c.entry)
           hit == ~Skipped(b, c.next) /\ CountsAsCreated(graph', Key(b, c.next), c.now)
           k == IF hit THEN c.created + 1 ELSE c.created
<1>1. c \in ApproveCalls
  BY CallKinds DEF MergeStatement
<1>2. k \in Nat
  BY <1>1 DEF ApproveCalls
<1>3. Goto(r, [c EXCEPT !.next = @ + 1, !.created = k])
  BY DEF MergeStatement
<1> QED
  BY <1>2, <1>3

LEMMA AdvanceTyped ==
    ASSUME NEW c \in ApproveCalls, NEW k \in Nat
    PROVE  LET d == [c EXCEPT !.next = @ + 1, !.created = k]
           IN  d \in ApproveCalls /\ d.pc = c.pc /\ d.entry = c.entry /\ d.next = c.next + 1
<1>1. c.next + 1 \in Nat \ {0}
  BY DEF ApproveCalls
<1>2. ASSUME NEW m \in Nat \ {0}
      PROVE  LET d == [c EXCEPT !.next = m, !.created = k]
             IN  d \in ApproveCalls /\ d.pc = c.pc /\ d.entry = c.entry /\ d.next = m
  BY DEF ApproveCalls
<1> QED
  BY <1>1, <1>2

LEMMA TypingInit == Init => Typing
<1> SUFFICES ASSUME Init PROVE Typing
  OBVIOUS
<1>1. Existing = {} /\ queue \in [Existing -> Rows]
  BY DEF Init, Existing
<1>2. DOMAIN graph = {} /\ graph \in [DOMAIN graph -> Stamps]
  BY DEF Init
<1>3. stats \in [Nodes -> Counters]
  BY DEF Init, Counters
<1>4. requests \in [Requests -> Calls] /\ RequestsExist
  BY DEF Init, Calls, RequestsExist, At, Idle
<1>5. clock \in 0..MaxCommits
  BY MaxCommitsAssumption DEF Init
<1> QED
  BY <1>1, <1>2, <1>3, <1>4, <1>5 DEF Init, Typing, TypeOK

LEMMA TypingStep == Typing /\ [Next]_vars => Typing'
<1> SUFFICES ASSUME Typing, [Next]_vars
             PROVE  Typing'
  OBVIOUS
<1> USE DEF Typing
<1>1. ASSUME NEW r \in Requests, NEW n \in Nodes, NEW b \in Bundles, NEW e \in Entries,
             QueueEntry(r, n, b, e)
      PROVE  Typing'
  <2>1. NewRow(n, b) \in Rows
    BY DEF NewRow, Rows, Statuses
  <2>2. Existing' = Existing \cup {e} /\ queue' \in [Existing' -> Rows]
    BY <1>1, <2>1 DEF QueueEntry, Existing, TypeOK
  <2>3. [pc |-> "count", node |-> n, entry |-> e] \in Calls
    BY DEF Calls, PushCalls
  <2>4. Goto(r, [pc |-> "count", node |-> n, entry |-> e])
    BY <1>1 DEF QueueEntry
  <2>5. TypeOK'
    BY <1>1, <2>2, <2>3, <2>4, GotoTyped DEF QueueEntry, TypeOK
  <2>6. RequestsExist'
    BY <2>2, <2>3, <2>4, GotoTyped DEF RequestsExist, TypeOK, At
  <2> QED
    BY <2>5, <2>6
<1>2. ASSUME NEW r \in Requests, CountPush(r)
      PROVE  Typing'
  <2>1. requests[r] \in PushCalls
    BY <1>2, CallKinds DEF CountPush, TypeOK
  <2>2. [requests[r] EXCEPT !.pc = "log"] \in Calls
    BY <2>1 DEF Calls, PushCalls
  <2>3. requests' \in [Requests -> Calls] /\ RequestsExist'
    BY <1>2, <2>1, <2>2, GotoTyped DEF CountPush, TypeOK, RequestsExist, At, Existing, PushCalls
  <2>4. stats' \in [Nodes -> Counters]
    BY <1>2, <2>1 DEF CountPush, Increment, TypeOK, PushCalls, Counters
  <2> QED
    BY <1>2, <2>3, <2>4 DEF CountPush, TypeOK, Existing
<1>3. ASSUME NEW r \in Requests, LogPush(r)
      PROVE  Typing'
  <2>1. requests[r] \in PushCalls /\ requests[r].entry \in Existing
    BY <1>3, CallKinds DEF LogPush, TypeOK, RequestsExist, At
  <2>2. requests' \in [Requests -> Calls] /\ RequestsExist'
    BY <1>3, GotoTyped DEF LogPush, Return, TypeOK, RequestsExist, At, Existing, Idle, Calls
  <2>3. synclog' \subseteq [node : Nodes, entry : Existing]
    BY <1>3, <2>1 DEF LogPush, TypeOK, PushCalls
  <2> QED
    BY <1>3, <2>2, <2>3 DEF LogPush, TypeOK, Existing
<1>4. ASSUME NEW r \in Requests, NEW e \in Entries, StartApprove(r, e)
      PROVE  Typing'
  <2> DEFINE call == [pc |-> "merge", entry |-> e, seen |-> queue[e].status,
                      now |-> clock', next |-> 1, created |-> 0]
  <2>1. clock' \in 1..MaxCommits
    BY <1>4, MaxCommitsAssumption DEF StartApprove, TypeOK
  <2>2. queue[e].status \in Statuses
    BY <1>4 DEF StartApprove, TypeOK, Rows
  <2>3. call \in Calls /\ Goto(r, call) /\ call.entry \in Existing
    BY <1>4, <2>1, <2>2 DEF StartApprove, Calls, ApproveCalls
  <2>4. requests' \in [Requests -> Calls] /\ RequestsExist'
    BY <1>4, <2>3, GotoTyped DEF StartApprove, TypeOK, RequestsExist, At, Existing
  <2>5. clock' \in 0..MaxCommits /\ sanctioned' \subseteq Existing
    BY <1>4, <2>1 DEF StartApprove, TypeOK
  <2> QED
    BY <1>4, <2>4, <2>5 DEF StartApprove, TypeOK, Existing
<1>5. ASSUME NEW r \in Requests, MergeStatement(r)
      PROVE  Typing'
  <2> DEFINE c == requests[r]
             b == BundleOf(c.entry)
             S == Merged(b, c.next)
  <2>1. c \in ApproveCalls /\ c.entry \in Existing
    BY <1>5, CallKinds DEF MergeStatement, TypeOK, RequestsExist, At
  <2>2. /\ queue[c.entry] \in Rows
        /\ b \in Bundles
        /\ queue[c.entry].origin \in Nodes
        /\ c.now \in 1..MaxCommits
        /\ c.next \in Nat \ {0}
        /\ c.created \in Nat
        /\ c.next <= Statements(b)
    BY <1>5, <2>1 DEF MergeStatement, TypeOK, Rows, ApproveCalls, BundleOf, Existing
  <2>3. Statements(b) \in Nat
    BY <2>2, StatementsNat
  <2>4. c.next \in 1..Statements(b)
    BY <2>2, <2>3
  <2>5. S \subseteq Elements
    BY <2>2, <2>4, TouchesElements, MergedIsTouched
  <2>6. /\ DOMAIN graph' \subseteq Elements
        /\ graph' \in [DOMAIN graph' -> Stamps]
    BY <1>5, <2>2, <2>5 DEF MergeStatement, TypeOK, Merge, Stamps
  <2>7. PICK k \in Nat : Goto(r, [c EXCEPT !.next = @ + 1, !.created = k])
    BY <1>5, StatementAdvances DEF TypeOK
  <2>8. /\ [c EXCEPT !.next = @ + 1, !.created = k] \in Calls
        /\ [c EXCEPT !.next = @ + 1, !.created = k].entry = c.entry
    BY <2>1, AdvanceTyped DEF Calls
  <2>9. requests' \in [Requests -> Calls] /\ RequestsExist'
    BY <1>5, <2>1, <2>7, <2>8, GotoTyped
       DEF MergeStatement, TypeOK, RequestsExist, At, Existing
  <2> QED
    BY <1>5, <2>6, <2>9 DEF MergeStatement, TypeOK, Existing
<1>6. ASSUME NEW r \in Requests, MarkApproved(r)
      PROVE  Typing'
  <2>1. requests[r] \in ApproveCalls /\ requests[r].entry \in Existing
    BY <1>6, CallKinds DEF MarkApproved, TypeOK, RequestsExist, At
  <2>2. [requests[r] EXCEPT !.pc = "credit"] \in Calls
    BY <2>1 DEF Calls, ApproveCalls
  <2>3. Existing' = Existing /\ queue' \in [Existing -> Rows]
    BY <1>6, <2>1 DEF MarkApproved, TypeOK, Rows, Statuses, Existing
  <2>4. requests' \in [Requests -> Calls] /\ RequestsExist'
    BY <1>6, <2>1, <2>2, <2>3, GotoTyped
       DEF MarkApproved, TypeOK, RequestsExist, At, ApproveCalls
  <2> QED
    BY <1>6, <2>3, <2>4 DEF MarkApproved, TypeOK
<1>7. ASSUME NEW r \in Requests, CreditNode(r)
      PROVE  Typing'
  <2>1. requests[r] \in ApproveCalls /\ requests[r].entry \in Existing
    BY <1>7, CallKinds DEF CreditNode, TypeOK, RequestsExist, At
  <2>2. queue[requests[r].entry].origin \in Nodes /\ requests[r].created \in Nat
    BY <2>1 DEF TypeOK, Rows, ApproveCalls
  <2>3. stats' \in [Nodes -> Counters]
    BY <1>7, <2>2 DEF CreditNode, Increment, TypeOK, Counters
  <2>4. requests' \in [Requests -> Calls] /\ RequestsExist'
    BY <1>7, GotoTyped DEF CreditNode, Return, TypeOK, RequestsExist, At, Existing, Idle, Calls
  <2> QED
    BY <1>7, <2>3, <2>4 DEF CreditNode, TypeOK, Existing
<1>8. ASSUME NEW r \in Requests, NEW e \in Entries, StartReject(r, e)
      PROVE  Typing'
  <2> DEFINE call == [pc |-> "reject", entry |-> e]
  <2>1. call \in Calls /\ Goto(r, call) /\ call.entry \in Existing
    BY <1>8 DEF StartReject, Calls, RejectCalls
  <2>2. requests' \in [Requests -> Calls] /\ RequestsExist'
    BY <1>8, <2>1, GotoTyped DEF StartReject, TypeOK, RequestsExist, At, Existing
  <2> QED
    BY <1>8, <2>2 DEF StartReject, TypeOK, Existing
<1>9. ASSUME NEW r \in Requests, MarkRejected(r)
      PROVE  Typing'
  <2>1. Existing' = Existing /\ queue' \in [Existing -> Rows]
    BY <1>9 DEF MarkRejected, TypeOK, Rows, Statuses, Existing
  <2>2. requests' \in [Requests -> Calls] /\ RequestsExist'
    BY <1>9, <2>1, GotoTyped DEF MarkRejected, Return, TypeOK, RequestsExist, At, Idle, Calls
  <2> QED
    BY <1>9, <2>1, <2>2 DEF MarkRejected, TypeOK
<1>10. ASSUME NEW r \in Requests, Fail(r)
       PROVE  Typing'
  <2>1. requests' \in [Requests -> Calls] /\ RequestsExist'
    BY <1>10, GotoTyped DEF Fail, Return, TypeOK, RequestsExist, At, Existing, Idle, Calls
  <2> QED
    BY <1>10, <2>1 DEF Fail, TypeOK, Existing
<1>11. CASE UNCHANGED vars
  BY <1>11 DEF vars, TypeOK, RequestsExist, At, Existing
<1> QED
  BY <1>1, <1>2, <1>3, <1>4, <1>5, <1>6, <1>7, <1>8, <1>9, <1>10, <1>11
     DEF Next, Arrive, Continue

\* Every behaviour of the pipeline is typed.
THEOREM TypeCorrect == Spec => []TypeOK
<1>1. Typing => TypeOK
  BY DEF Typing
<1> QED
  BY <1>1, TypingInit, TypingStep, PTL DEF Spec

-----------------------------------------------------------------------------
(* What every step keeps.                                                  *)

Grows ==
    /\ Existing \subseteq Existing'
    /\ \A e \in Existing : /\ queue'[e].bundle = queue[e].bundle
                           /\ queue'[e].origin = queue[e].origin
    /\ DOMAIN graph \subseteq DOMAIN graph'
    /\ \A x \in DOMAIN graph : graph'[x] = graph[x]
    /\ sanctioned \subseteq sanctioned'

\* Rows keep their bundle and origin, graph elements their stamp.
LEMMA StepGrows == Typing /\ [Next]_vars => Grows
<1> SUFFICES ASSUME Typing, [Next]_vars
             PROVE  Grows
  OBVIOUS
<1> USE DEF Grows, Existing
<1>1. ASSUME NEW r \in Requests, NEW n \in Nodes, NEW b \in Bundles, NEW e \in Entries,
             QueueEntry(r, n, b, e)
      PROVE  Grows
  BY <1>1 DEF QueueEntry
<1>2. ASSUME NEW r \in Requests, MergeStatement(r)
      PROVE  Grows
  <2>1. UNCHANGED <<queue, sanctioned>>
    BY <1>2 DEF MergeStatement
  <2>2. \E S, now, n : graph' = Merge(graph, S, now, n)
    BY <1>2 DEF MergeStatement
  <2>3. DOMAIN graph \subseteq DOMAIN graph' /\ \A x \in DOMAIN graph : graph'[x] = graph[x]
    BY <2>2 DEF Merge
  <2> QED
    BY <2>1, <2>3
<1>3. ASSUME NEW r \in Requests, MarkApproved(r)
      PROVE  Grows
  BY <1>3 DEF MarkApproved, Typing, TypeOK, Rows
<1>4. ASSUME NEW r \in Requests, MarkRejected(r)
      PROVE  Grows
  BY <1>4 DEF MarkRejected, Typing, TypeOK, Rows
<1>5. ASSUME UNCHANGED <<queue, graph>>, sanctioned \subseteq sanctioned'
      PROVE  Grows
  BY <1>5
<1>6. ASSUME NEW r \in Requests,
             CountPush(r) \/ LogPush(r) \/ CreditNode(r) \/ Fail(r)
      PROVE  Grows
  BY <1>5, <1>6 DEF CountPush, LogPush, CreditNode, Fail
<1>7. ASSUME NEW r \in Requests, NEW e \in Entries,
             StartApprove(r, e) \/ StartReject(r, e)
      PROVE  Grows
  BY <1>5, <1>7 DEF StartApprove, StartReject
<1>8. CASE UNCHANGED vars
  BY <1>5, <1>8 DEF vars
<1> QED
  BY <1>1, <1>2, <1>3, <1>4, <1>6, <1>7, <1>8 DEF Next, Arrive, Continue

\* A step writes finitely many elements.
LEMMA GraphFinite ==
  ASSUME Typing, [Next]_vars, IsFiniteSet(DOMAIN graph)
  PROVE  IsFiniteSet(DOMAIN graph')
<1>1. ASSUME NEW r \in Requests, MergeStatement(r)
      PROVE  IsFiniteSet(DOMAIN graph')
  <2> DEFINE b == BundleOf(requests[r].entry)
             i == requests[r].next
  <2>1. PICK now, n : graph' = Merge(graph, Merged(b, i), now, n)
    BY <1>1 DEF MergeStatement
  <2>2. DOMAIN graph' = DOMAIN graph \cup Merged(b, i)
    BY <2>1 DEF Merge
  <2>4. \/ Merged(b, i) = {}
        \/ \E x : Merged(b, i) = {x}
        \/ \E x, y, z : Merged(b, i) = {x, y, z}
    BY DEF Merged, Touches
  <2>5. CASE Merged(b, i) = {}
    BY <2>2, <2>5
  <2>6. ASSUME NEW x, Merged(b, i) = {x}
        PROVE  IsFiniteSet(DOMAIN graph')
    BY <2>2, <2>6, FS_AddElement
  <2>7. ASSUME NEW x, NEW y, NEW z, Merged(b, i) = {x, y, z}
        PROVE  IsFiniteSet(DOMAIN graph')
    <3> DEFINE X == DOMAIN graph \cup {x}
               Y == X \cup {y}
    <3>1. IsFiniteSet(X)
      BY FS_AddElement
    <3> HIDE DEF X
    <3>2. IsFiniteSet(Y)
      BY <3>1, FS_AddElement
    <3> HIDE DEF Y
    <3>3. IsFiniteSet(Y \cup {z})
      BY <3>2, FS_AddElement
    <3>4. DOMAIN graph' = Y \cup {z}
      BY <2>2, <2>7 DEF X, Y
    <3> QED
      BY <3>3, <3>4
  <2> QED
    BY <2>4, <2>5, <2>6, <2>7
<1>2. CASE UNCHANGED graph
  BY <1>2
<1> QED
  BY <1>1, <1>2
  DEF Next, Arrive, Continue, vars, QueueEntry, CountPush, LogPush, StartApprove,
      MarkApproved, CreditNode, StartReject, MarkRejected, Fail

-----------------------------------------------------------------------------
(* The inductive invariant of the review.                                  *)

\* Nothing is queued with a predicate that commit_bundle would skip.
QueueAudited ==
    \A e \in Existing : PredicatesAllowed(BundleOf(e))

\* What a running request has done so far: an approval works on a sanctioned
\* entry and has all statements before `next` in the graph; a push writes its
\* statistics and its log line for the origin of the entry it has queued.
Published(b, next) ==
    \A i \in 1..Statements(b) : i < next => Touches(b, i) \subseteq DOMAIN graph

CallOK(r) ==
    /\ At(r, "merge") => /\ requests[r].entry \in sanctioned
                         /\ Published(BundleOf(requests[r].entry), requests[r].next)
    /\ At(r, "count") \/ At(r, "log") =>
          queue[requests[r].entry].origin = requests[r].node

ReviewInv ==
    /\ Typing
    /\ QueueAudited
    /\ \A r \in Requests : CallOK(r)
    /\ ApprovedIsPublished
    /\ PublishedIsSanctioned
    /\ LogAgreesWithQueue

LEMMA ReviewInit == Init => ReviewInv
<1> SUFFICES ASSUME Init PROVE ReviewInv
  OBVIOUS
<1>1. Existing = {} /\ DOMAIN graph = {} /\ synclog = {}
  BY DEF Init, Existing
<1>2. \A r \in Requests : CallOK(r)
  BY DEF Init, CallOK, At, Idle
<1> QED
  BY <1>1, <1>2, TypingInit
     DEF ReviewInv, QueueAudited, ApprovedIsPublished, PublishedIsSanctioned, LogAgreesWithQueue

\* A request that does not move keeps its facts: what it relies on only grows.
LEMMA OthersKeep ==
    ASSUME Typing, Grows, NEW q \in Requests, CallOK(q), requests'[q] = requests[q]
    PROVE  CallOK(q)'
<1>1. CASE At(q, "merge")
  <2>1. requests[q].entry \in Existing
    BY <1>1 DEF Typing, RequestsExist, At
  <2>2. BundleOf(requests[q].entry)' = BundleOf(requests[q].entry)
    BY <2>1 DEF Grows, BundleOf
  <2>3. Published(BundleOf(requests[q].entry), requests[q].next)'
    BY <1>1, <2>2 DEF CallOK, Published, Grows
  <2> QED
    BY <1>1, <2>3 DEF CallOK, At, Grows
<1>2. CASE ~At(q, "merge")
  <2>1. At(q, "count") \/ At(q, "log") => requests[q].entry \in Existing
    BY DEF Typing, RequestsExist, At
  <2> QED
    BY <1>2, <2>1 DEF CallOK, At, Grows
<1> QED
  BY <1>1, <1>2

\* The rows whose status a step does not touch keep ApprovedIsPublished.
LEMMA RowsKeep ==
    ASSUME Typing, Grows, ApprovedIsPublished,
           NEW e \in Existing,
           queue'[e].status # queue[e].status => queue'[e].status # "approved",
           queue'[e].committed = queue[e].committed
    PROVE  queue'[e].committed \/ queue'[e].status = "approved"
              => Content(BundleOf(e))' \subseteq DOMAIN graph'
<1>1. Content(BundleOf(e))' = Content(BundleOf(e))
  BY DEF Grows, BundleOf, Content
<1> QED
  BY <1>1 DEF ApprovedIsPublished, Grows

LEMMA ReviewKeeps == ReviewInv /\ [Next]_vars => ReviewInv'
<1> SUFFICES ASSUME ReviewInv, [Next]_vars
             PROVE  ReviewInv'
  OBVIOUS
<1> USE DEF ReviewInv
<1>1. Typing' /\ Grows
  BY TypingStep, StepGrows
<1>2. /\ requests \in [Requests -> Calls]
      /\ \A r \in Requests, call \in Calls :
            Goto(r, call) => /\ requests'[r] = call
                             /\ \A q \in Requests \ {r} : CallOK(q)'
  <2>1. requests \in [Requests -> Calls]
    BY DEF Typing, TypeOK
  <2> QED
    BY <1>1, <2>1, GotoTyped, OthersKeep
<1>3. ASSUME UNCHANGED queue
      PROVE  QueueAudited' /\ ApprovedIsPublished'
  <2>1. Existing' = Existing /\ \A e \in Existing : BundleOf(e)' = BundleOf(e)
    BY <1>3 DEF Existing, BundleOf
  <2> QED
    BY <1>1, <1>3, <2>1 DEF QueueAudited, ApprovedIsPublished, Grows, Content
<1>4. ASSUME UNCHANGED graph
      PROVE  PublishedIsSanctioned'
  <2>1. sanctioned \subseteq Existing
    BY DEF Typing, TypeOK
  <2>2. \A e \in sanctioned : Content(BundleOf(e))' = Content(BundleOf(e))
    BY <1>1, <2>1 DEF Grows, BundleOf, Content
  <2> QED
    BY <1>1, <1>4, <2>1, <2>2 DEF PublishedIsSanctioned, Grows
<1>5. ASSUME UNCHANGED synclog
      PROVE  LogAgreesWithQueue'
  BY <1>1, <1>5 DEF LogAgreesWithQueue, Grows, Typing, TypeOK
<1>6. ASSUME NEW r \in Requests, NEW n \in Nodes, NEW b \in Bundles, NEW e \in Entries,
             QueueEntry(r, n, b, e)
      PROVE  ReviewInv'
  <2> DEFINE call == [pc |-> "count", node |-> n, entry |-> e]
  <2>1. call \in Calls /\ Goto(r, call)
    BY <1>6 DEF QueueEntry, Calls, PushCalls
  <2>2. Existing' = Existing \cup {e} /\ e \notin Existing /\ queue'[e] = NewRow(n, b)
    BY <1>6 DEF QueueEntry, Existing
  <2>3. \A x \in Existing : queue'[x] = queue[x]
    BY <1>6 DEF QueueEntry, Existing
  <2>4. CallOK(r)'
    BY <1>2, <2>1, <2>2 DEF CallOK, At, NewRow
  <2>5. \A q \in Requests : CallOK(q)'
    BY <1>2, <2>1, <2>4
  <2>6. QueueAudited'
    BY <1>6, <2>2, <2>3 DEF QueueAudited, QueueEntry, NewRow, BundleOf
  <2>7. ApprovedIsPublished'
    BY <1>1, <2>2, <2>3, RowsKeep DEF ApprovedIsPublished, NewRow
  <2> QED
    BY <1>1, <1>4, <1>5, <1>6, <2>5, <2>6, <2>7 DEF QueueEntry
<1>7. ASSUME NEW r \in Requests, CountPush(r)
      PROVE  ReviewInv'
  <2>1. requests[r] \in PushCalls
    BY <1>2, <1>7, CallKinds DEF CountPush
  <2> DEFINE call == [requests[r] EXCEPT !.pc = "log"]
  <2>2. /\ call \in Calls /\ call.pc = "log"
        /\ call.entry = requests[r].entry /\ call.node = requests[r].node
    BY <2>1 DEF Calls, PushCalls
  <2>3. requests'[r] = call /\ \A q \in Requests \ {r} : CallOK(q)'
    BY <1>2, <1>7, <2>2 DEF CountPush
  <2>4. CallOK(r)'
    BY <1>7, <2>2, <2>3 DEF CallOK, At, CountPush
  <2> QED
    BY <1>1, <1>3, <1>4, <1>5, <1>7, <2>3, <2>4 DEF CountPush
<1>8. ASSUME NEW r \in Requests, LogPush(r)
      PROVE  ReviewInv'
  <2>1. Idle \in Calls /\ Goto(r, Idle)
    BY <1>8 DEF LogPush, Return, Calls
  <2>2. \A q \in Requests : CallOK(q)'
    BY <1>2, <2>1 DEF CallOK, At, Idle
  <2>3. LogAgreesWithQueue'
    BY <1>8 DEF LogPush, LogAgreesWithQueue, CallOK
  <2> QED
    BY <1>1, <1>3, <1>4, <1>8, <2>2, <2>3 DEF LogPush
<1>9. ASSUME NEW r \in Requests, NEW e \in Entries, StartApprove(r, e)
      PROVE  ReviewInv'
  <2> DEFINE call == [pc |-> "merge", entry |-> e, seen |-> queue[e].status,
                      now |-> clock', next |-> 1, created |-> 0]
  <2>1. Goto(r, call) /\ call \in Calls
    <3>1. clock' \in 1..MaxCommits
      BY <1>9, MaxCommitsAssumption DEF StartApprove, Typing, TypeOK
    <3>2. queue[e].status \in Statuses
      BY <1>9 DEF StartApprove, Typing, TypeOK, Rows
    <3> QED
      BY <1>9, <3>1, <3>2 DEF StartApprove, Calls, ApproveCalls
  <2>2. requests'[r] = call /\ \A q \in Requests \ {r} : CallOK(q)'
    BY <1>2, <2>1
  <2>3. Published(BundleOf(e), 1)'
    BY DEF Published
  <2>4. e \in sanctioned'
    BY <1>9 DEF StartApprove, Approvable
  <2>5. CallOK(r)'
    BY <2>2, <2>3, <2>4 DEF CallOK, At
  <2> QED
    BY <1>1, <1>3, <1>4, <1>5, <1>9, <2>2, <2>5 DEF StartApprove
<1>10. ASSUME NEW r \in Requests, MergeStatement(r)
       PROVE  ReviewInv'
  <2> DEFINE c == requests[r]
             b == BundleOf(c.entry)
  <2>1. c \in ApproveCalls /\ c.entry \in Existing /\ c.entry \in sanctioned
    BY <1>2, <1>10, CallKinds
       DEF MergeStatement, CallOK, Typing, RequestsExist, At
  <2>2. b \in Bundles /\ PredicatesAllowed(b)
    BY <2>1 DEF Typing, TypeOK, Rows, QueueAudited, BundleOf
  <2>3. c.next \in 1..Statements(b)
    BY <1>10, <2>1, <2>2, StatementsNat DEF MergeStatement, ApproveCalls
  <2>4. Merged(b, c.next) = Touches(b, c.next)
    BY <2>2, <2>3, AuditedIsMerged
  <2>5. graph' = Merge(graph, Touches(b, c.next), c.now, queue[c.entry].origin)
    BY <1>10, <2>4 DEF MergeStatement
  <2>6. PICK k \in Nat : Goto(r, [c EXCEPT !.next = @ + 1, !.created = k])
    BY <1>2, <1>10, StatementAdvances
  <2> DEFINE d == [c EXCEPT !.next = @ + 1, !.created = k]
  <2>7. /\ d \in Calls
        /\ d.pc = "merge" /\ d.entry = c.entry /\ d.next = c.next + 1
    BY <1>10, <2>1, AdvanceTyped DEF Calls, MergeStatement, At
  <2>8. requests'[r] = d /\ \A q \in Requests \ {r} : CallOK(q)'
    BY <1>2, <2>6, <2>7
  <2>9. /\ DOMAIN graph' = DOMAIN graph \cup Touches(b, c.next)
        /\ \A x \in DOMAIN graph' \ DOMAIN graph :
              graph'[x].origin = queue[c.entry].origin
    BY <2>5 DEF Merge
  <2>10. \A i \in 1..Statements(b) : i < c.next + 1 => Touches(b, i) \subseteq DOMAIN graph'
    <3> SUFFICES ASSUME NEW i \in 1..Statements(b), i < c.next + 1
                 PROVE  Touches(b, i) \subseteq DOMAIN graph'
      OBVIOUS
    <3>1. i < c.next \/ i = c.next
      BY <2>1 DEF ApproveCalls
    <3>2. CASE i < c.next
      <4>1. Published(b, c.next)
        BY <1>10 DEF CallOK, MergeStatement
      <4> QED
        BY <2>9, <3>2, <4>1 DEF Published
    <3>3. CASE i = c.next
      BY <2>9, <3>3
    <3> QED
      BY <3>1, <3>2, <3>3
  <2>11. CallOK(r)'
    <3>1. requests'[r].pc = "merge" /\ requests'[r].entry = c.entry
          /\ requests'[r].next = c.next + 1
      BY <2>7, <2>8
    <3>2. queue'[c.entry].bundle = b
      BY <1>10 DEF MergeStatement, BundleOf
    <3>3. requests'[r].entry \in sanctioned'
      BY <1>1, <2>1, <3>1 DEF Grows
    <3>4. \A i \in 1..Statements(b) :
             i < requests'[r].next => Touches(b, i) \subseteq DOMAIN graph'
      BY <2>10, <3>1
    <3> HIDE DEF b, c
    <3> QED
      BY <3>1, <3>2, <3>3, <3>4 DEF CallOK, At, Published, BundleOf
  <2>12. PublishedIsSanctioned'
    <3> SUFFICES ASSUME NEW x \in DOMAIN graph'
                 PROVE  \E e \in sanctioned' :
                           /\ x \in Content(BundleOf(e))'
                           /\ graph'[x].origin = queue'[e].origin
      BY DEF PublishedIsSanctioned
    <3>1. \A e \in sanctioned : Content(BundleOf(e))' = Content(BundleOf(e))
      BY <1>10 DEF MergeStatement, BundleOf, Content
    <3>2. CASE x \in DOMAIN graph
      BY <1>1, <1>10, <3>1, <3>2 DEF PublishedIsSanctioned, Grows, MergeStatement
    <3>3. CASE x \notin DOMAIN graph
      <4>1. x \in Touches(b, c.next)
        BY <2>9, <3>3
      <4>2. graph'[x].origin = queue[c.entry].origin
        BY <2>9, <3>3
      <4>3. x \in Content(b)
        BY <2>3, <4>1 DEF Content
      <4> QED
        BY <1>10, <2>1, <3>1, <4>2, <4>3 DEF MergeStatement
    <3> QED
      BY <3>2, <3>3
  <2> QED
    BY <1>1, <1>3, <1>5, <1>10, <2>8, <2>11, <2>12 DEF MergeStatement
<1>11. ASSUME NEW r \in Requests, MarkApproved(r)
       PROVE  ReviewInv'
  <2> DEFINE c == requests[r]
             b == BundleOf(c.entry)
  <2>1. c \in ApproveCalls /\ c.entry \in Existing
    BY <1>2, <1>11, CallKinds DEF MarkApproved, Typing, RequestsExist, At
  <2>2. [c EXCEPT !.pc = "credit"] \in Calls /\ [c EXCEPT !.pc = "credit"].pc = "credit"
    BY <2>1 DEF Calls, ApproveCalls
  <2>3. requests'[r] = [c EXCEPT !.pc = "credit"] /\ \A q \in Requests \ {r} : CallOK(q)'
    BY <1>2, <1>11, <2>2 DEF MarkApproved
  <2>4. CallOK(r)'
    BY <2>2, <2>3 DEF CallOK, At
  <2>5. Existing' = Existing /\ \A e \in Existing : BundleOf(e)' = BundleOf(e)
    BY <1>1, <1>11 DEF MarkApproved, Existing, BundleOf, Grows
  <2>6. Content(b) \subseteq DOMAIN graph'
    <3>1. b \in Bundles
      BY <2>1 DEF Typing, TypeOK, Rows, BundleOf
    <3>2. \A i \in 1..Statements(b) : i < c.next
      BY <1>11, <2>1, <3>1, StatementsNat DEF MarkApproved, CommitDone, ApproveCalls
    <3> QED
      BY <1>11, <3>2 DEF MarkApproved, CallOK, Published, Content
  <2>7. \A e \in Existing \ {c.entry} : queue'[e] = queue[e]
    BY <1>11 DEF MarkApproved, Typing, TypeOK
  <2>8. ApprovedIsPublished'
    <3> SUFFICES ASSUME NEW e \in Existing,
                        queue'[e].committed \/ queue'[e].status = "approved"
                 PROVE  Content(BundleOf(e))' \subseteq DOMAIN graph'
      BY <2>5 DEF ApprovedIsPublished
    <3>1. CASE e = c.entry
      BY <2>1, <2>5, <2>6, <3>1 DEF Content
    <3>2. CASE e # c.entry
      BY <1>1, <2>7, <3>2, RowsKeep
    <3> QED
      BY <3>1, <3>2
  <2>9. QueueAudited'
    BY <2>5 DEF QueueAudited
  <2> QED
    BY <1>1, <1>4, <1>5, <1>11, <2>3, <2>4, <2>8, <2>9 DEF MarkApproved
<1>12. ASSUME NEW r \in Requests, CreditNode(r)
       PROVE  ReviewInv'
  <2>1. Idle \in Calls /\ Goto(r, Idle)
    BY <1>12 DEF CreditNode, Return, Calls
  <2>2. \A q \in Requests : CallOK(q)'
    BY <1>2, <2>1 DEF CallOK, At, Idle
  <2> QED
    BY <1>1, <1>3, <1>4, <1>5, <1>12, <2>2 DEF CreditNode
<1>13. ASSUME NEW r \in Requests, NEW e \in Entries, StartReject(r, e)
       PROVE  ReviewInv'
  <2> DEFINE call == [pc |-> "reject", entry |-> e]
  <2>1. call \in Calls /\ Goto(r, call)
    BY <1>13 DEF StartReject, Calls, RejectCalls
  <2>2. \A q \in Requests : CallOK(q)'
    BY <1>2, <2>1 DEF CallOK, At
  <2> QED
    BY <1>1, <1>3, <1>4, <1>5, <1>13, <2>2 DEF StartReject
<1>14. ASSUME NEW r \in Requests, MarkRejected(r)
       PROVE  ReviewInv'
  <2>1. Idle \in Calls /\ Goto(r, Idle)
    BY <1>14 DEF MarkRejected, Return, Calls
  <2>2. \A q \in Requests : CallOK(q)'
    BY <1>2, <2>1 DEF CallOK, At, Idle
  <2>3. Existing' = Existing /\ \A e \in Existing : BundleOf(e)' = BundleOf(e)
    BY <1>1, <1>14 DEF MarkRejected, Existing, BundleOf, Grows
  <2>4. \A e \in Existing :
           /\ queue'[e].status # queue[e].status => queue'[e].status # "approved"
           /\ queue'[e].committed = queue[e].committed
    BY <1>14 DEF MarkRejected, Typing, TypeOK, Rows
  <2>5. ApprovedIsPublished'
    BY <1>1, <2>3, <2>4, RowsKeep DEF ApprovedIsPublished
  <2>6. QueueAudited'
    BY <2>3 DEF QueueAudited
  <2> QED
    BY <1>1, <1>4, <1>5, <1>14, <2>2, <2>5, <2>6 DEF MarkRejected
<1>15. ASSUME NEW r \in Requests, Fail(r)
       PROVE  ReviewInv'
  <2>1. Idle \in Calls /\ Goto(r, Idle)
    BY <1>15 DEF Fail, Return, Calls
  <2>2. \A q \in Requests : CallOK(q)'
    BY <1>2, <2>1 DEF CallOK, At, Idle
  <2> QED
    BY <1>1, <1>3, <1>4, <1>5, <1>15, <2>2 DEF Fail
<1>16. CASE UNCHANGED vars
  <2>1. \A q \in Requests : CallOK(q)'
    BY <1>1, <1>16, OthersKeep DEF vars
  <2> QED
    BY <1>1, <1>3, <1>4, <1>5, <1>16, <2>1 DEF vars
<1> QED
  BY <1>6, <1>7, <1>8, <1>9, <1>10, <1>11, <1>12, <1>13, <1>14, <1>15, <1>16
     DEF Next, Arrive, Continue

LEMMA ReviewInvariant == Spec => []ReviewInv
BY ReviewInit, ReviewKeeps, PTL DEF Spec

\* Whatever overlaps and whatever fails, an entry that is marked as committed
\* has all of its content in the graph.
THEOREM ApprovedPublished == Spec => []ApprovedIsPublished
<1>1. ReviewInv => ApprovedIsPublished
  BY DEF ReviewInv
<1> QED
  BY <1>1, ReviewInvariant, PTL

\* The graph holds nothing that no admin set out to approve, and names the
\* pushing node of such an entry as the origin of all it holds.
THEOREM PublishedSanctioned == Spec => []PublishedIsSanctioned
<1>1. ReviewInv => PublishedIsSanctioned
  BY DEF ReviewInv
<1> QED
  BY <1>1, ReviewInvariant, PTL

\* The sync log names the authenticated origin of every entry it mentions.
THEOREM LogAgrees == Spec => []LogAgreesWithQueue
<1>1. ReviewInv => LogAgreesWithQueue
  BY DEF ReviewInv
<1> QED
  BY <1>1, ReviewInvariant, PTL

-----------------------------------------------------------------------------
(* When a decision stands.                                                 *)

Reviewing(r) == At(r, "merge") \/ At(r, "reject")

\* A step of the running reviews changes the status of their own entries only.
LEMMA StatusStays ==
    ASSUME Typing, [Next]_vars, NEW e \in Existing, Settled(e)
    PROVE  queue'[e].status = queue[e].status
<1>0. queue \in [Existing -> Rows] /\ Existing = DOMAIN queue
  BY DEF Typing, TypeOK, Existing
<1>1. CASE UNCHANGED queue
  BY <1>1
<1>2. ASSUME NEW r \in Requests, NEW n \in Nodes, NEW b \in Bundles, NEW m \in Entries,
             QueueEntry(r, n, b, m)
      PROVE  queue'[e].status = queue[e].status
  BY <1>2 DEF QueueEntry, Existing
<1>3. ASSUME NEW r \in Requests, MarkApproved(r)
      PROVE  queue'[e].status = queue[e].status
  BY <1>0, <1>3 DEF MarkApproved, Settled
<1>4. ASSUME NEW r \in Requests, MarkRejected(r)
      PROVE  queue'[e].status = queue[e].status
  BY <1>0, <1>4 DEF MarkRejected, Settled
<1> QED
  BY <1>1, <1>2, <1>3, <1>4
  DEF Next, Arrive, Continue, vars, CountPush, LogPush, StartApprove, MergeStatement,
      CreditNode, StartReject, Fail

\* No step makes a request review an entry that is settled.
LEMMA NobodyStarts ==
    ASSUME Typing, [Next]_vars, NEW e \in Existing, Settled(e),
           NEW q \in Requests, Reviewing(q)'
    PROVE  requests'[q].entry # e
<1>0. requests \in [Requests -> Calls]
  BY DEF Typing, TypeOK
<1>1. CASE requests'[q] = requests[q]
  BY <1>1 DEF Reviewing, Settled, At
<1>2. ASSUME NEW r \in Requests \ {q}, Arrive(r) \/ Continue(r) \/ Fail(r)
      PROVE  requests'[q] = requests[q]
  BY <1>0, <1>2
  DEF Arrive, Continue, QueueEntry, CountPush, LogPush, StartApprove, MergeStatement,
      MarkApproved, CreditNode, StartReject, MarkRejected, Fail, Return, Goto
<1>3. ASSUME NEW m \in Entries, StartApprove(q, m) \/ StartReject(q, m)
      PROVE  requests'[q].entry # e
  BY <1>0, <1>3
  DEF StartApprove, Approvable, StartReject, Rejectable, Goto, Settled
<1>4. CASE MergeStatement(q)
  <2>1. At(q, "merge") /\ requests[q] \in ApproveCalls
    BY <1>0, <1>4, CallKinds DEF MergeStatement
  <2>2. PICK k \in Nat : Goto(q, [requests[q] EXCEPT !.next = @ + 1, !.created = k])
    BY <1>0, <1>4, StatementAdvances
  <2>3. requests'[q].entry = requests[q].entry
    BY <1>0, <2>1, <2>2, AdvanceTyped DEF Goto
  <2> QED
    BY <2>1, <2>3 DEF Settled
<1>5. ASSUME \/ CountPush(q) \/ MarkApproved(q)
             \/ \E n \in Nodes, b \in Bundles, m \in Entries : QueueEntry(q, n, b, m)
      PROVE  requests'[q].pc \in {"log", "credit", "count"}
  <2>1. CASE CountPush(q)
    <3>1. requests[q] \in PushCalls
      BY <1>0, <2>1, CallKinds DEF CountPush
    <3> QED
      BY <1>0, <2>1, <3>1 DEF CountPush, Goto, PushCalls
  <2>2. CASE MarkApproved(q)
    <3>1. requests[q] \in ApproveCalls
      BY <1>0, <2>2, CallKinds DEF MarkApproved
    <3> QED
      BY <1>0, <2>2, <3>1 DEF MarkApproved, Goto, ApproveCalls
  <2>3. ASSUME NEW n \in Nodes, NEW b \in Bundles, NEW m \in Entries, QueueEntry(q, n, b, m)
        PROVE  requests'[q].pc = "count"
    BY <1>0, <2>3 DEF QueueEntry, Goto
  <2> QED
    BY <1>5, <2>1, <2>2, <2>3
<1>6. ASSUME LogPush(q) \/ CreditNode(q) \/ MarkRejected(q) \/ Fail(q)
      PROVE  requests'[q].pc = "idle"
  BY <1>0, <1>6 DEF LogPush, CreditNode, MarkRejected, Fail, Return, Goto, Idle
<1> QED
  BY <1>1, <1>2, <1>3, <1>4, <1>5, <1>6
  DEF Next, Arrive, Continue, vars, Reviewing, At

\* A decision on an entry that no other request is reviewing stands for ever
\* (the status tests of approve_entry and reject_audit_entry).
THEOREM DecisionsSettle == Spec => DecisionSettles
<1>1. ASSUME Typing, [Next]_vars, NEW e \in Existing, Settled(e)
      PROVE  Settled(e)' /\ queue'[e].status = queue[e].status
  BY <1>1, StatusStays, NobodyStarts DEF Settled, Reviewing
<1>2. Typing /\ [Next]_vars
        => [\A e \in Existing :
              Settled(e) => Settled(e)' /\ queue'[e].status = queue[e].status]_vars
  BY <1>1
<1> QED
  BY <1>2, TypingInit, TypingStep, PTL DEF Spec, DecisionSettles

-----------------------------------------------------------------------------
(* Where nothing fails, what is published is committed.                    *)

\* The inductive invariant: an element is in an entry that is committed, or whose
\* approval is still under way.
Backs(e, x) ==
    /\ e \in Existing
    /\ x \in Content(BundleOf(e))
    /\ queue[e].committed \/ \E r \in Requests : At(r, "merge") /\ requests[r].entry = e
GraphBacked == \A x \in DOMAIN graph : \E e \in Existing : Backs(e, x)

\* A step after which no row is uncommitted, and which takes no approval on its
\* way, backs what it backed.
LEMMA BacksKept ==
    ASSUME Grows, NEW e, NEW x, Backs(e, x),
           queue[e].committed => queue'[e].committed,
           \A q \in Requests : At(q, "merge") /\ requests[q].entry = e
              => (requests'[q].pc = "merge" /\ requests'[q].entry = e) \/ queue'[e].committed
    PROVE  Backs(e, x)'
<1>1. e \in Existing' /\ Content(BundleOf(e))' = Content(BundleOf(e))
  BY DEF Backs, Grows, BundleOf, Content
<1> QED
  BY <1>1 DEF Backs, At

\* Only the approval itself takes it off its way, and it commits the entry.
LEMMA StepBacks ==
    ASSUME Failures = FALSE, ReviewInv, Grows, [Next]_vars, NEW e, NEW x, Backs(e, x)
    PROVE  Backs(e, x)'
<1>0. /\ requests \in [Requests -> Calls] /\ queue \in [Existing -> Rows]
      /\ Existing = DOMAIN queue /\ e \in Existing
  BY DEF ReviewInv, Typing, TypeOK, Existing, Backs
<1>1. ASSUME NEW r \in Requests, NEW n \in Nodes, NEW b \in Bundles, NEW m \in Entries,
             QueueEntry(r, n, b, m)
      PROVE  Backs(e, x)'
  <2>1. queue'[e] = queue[e] /\ \A q \in Requests : q # r => requests'[q] = requests[q]
    BY <1>0, <1>1 DEF QueueEntry, Existing, Goto
  <2> QED
    BY <1>1, <2>1, BacksKept DEF QueueEntry, At
<1>2. ASSUME NEW r \in Requests,
             \/ CountPush(r) \/ LogPush(r) \/ CreditNode(r)
             \/ \E m \in Entries : StartApprove(r, m) \/ StartReject(r, m)
      PROVE  Backs(e, x)'
  <2>1. UNCHANGED queue /\ ~At(r, "merge")
    BY <1>2 DEF CountPush, LogPush, CreditNode, StartApprove, StartReject, At
  <2>2. \A q \in Requests : q # r => requests'[q] = requests[q]
    BY <1>0, <1>2 DEF CountPush, LogPush, CreditNode, StartApprove, StartReject, Goto, Return
  <2> QED
    BY <2>1, <2>2, BacksKept DEF At
<1>3. ASSUME NEW r \in Requests, MergeStatement(r) PROVE Backs(e, x)'
  <2>1. UNCHANGED queue /\ requests[r] \in ApproveCalls /\ requests[r].pc = "merge"
    BY <1>0, <1>3, CallKinds DEF MergeStatement, At
  <2>2. PICK k \in Nat : Goto(r, [requests[r] EXCEPT !.next = @ + 1, !.created = k])
    BY <1>0, <1>3, StatementAdvances
  <2>3. requests'[r].pc = "merge" /\ requests'[r].entry = requests[r].entry
    BY <1>0, <2>1, <2>2, AdvanceTyped DEF Goto
  <2>4. \A q \in Requests : q # r => requests'[q] = requests[q]
    BY <1>0, <2>2 DEF Goto
  <2> QED
    BY <2>1, <2>3, <2>4, BacksKept DEF At
<1>4. ASSUME NEW r \in Requests, MarkApproved(r) PROVE Backs(e, x)'
  <2>1. /\ queue[e].committed => queue'[e].committed
        /\ requests[r].entry = e => queue'[e].committed
    BY <1>0, <1>4 DEF MarkApproved, Rows
  <2>2. \A q \in Requests : q # r => requests'[q] = requests[q]
    BY <1>0, <1>4 DEF MarkApproved, Goto
  <2> QED
    BY <2>1, <2>2, BacksKept DEF At
<1>5. ASSUME NEW r \in Requests, MarkRejected(r) PROVE Backs(e, x)'
  <2>1. queue'[e].committed = queue[e].committed /\ ~At(r, "merge")
    BY <1>0, <1>5 DEF MarkRejected, Rows, At
  <2>2. \A q \in Requests : q # r => requests'[q] = requests[q]
    BY <1>0, <1>5 DEF MarkRejected, Goto, Return
  <2> QED
    BY <2>1, <2>2, BacksKept DEF At
<1>6. CASE UNCHANGED vars
  BY <1>6, BacksKept DEF vars, At
<1> QED
  BY <1>1, <1>2, <1>3, <1>4, <1>5, <1>6 DEF Next, Arrive, Continue, Fail

\* What a step adds to the graph is in the entry that it approves.
LEMMA NewIsBacked ==
    ASSUME ReviewInv, ReviewInv', Grows, [Next]_vars,
           NEW x \in DOMAIN graph' \ DOMAIN graph
    PROVE  \E e \in Existing' : Backs(e, x)'
<1>0. requests \in [Requests -> Calls]
  BY DEF ReviewInv, Typing, TypeOK
<1>1. PICK r \in Requests : MergeStatement(r)
  BY DEF Next, Arrive, Continue, vars, QueueEntry, CountPush, LogPush, StartApprove,
         MarkApproved, CreditNode, StartReject, MarkRejected, Fail
<1> DEFINE c == requests[r]
           b == BundleOf(c.entry)
<1>2. /\ UNCHANGED queue /\ c \in ApproveCalls /\ c.pc = "merge"
      /\ c.next <= Statements(b) /\ x \in Merged(b, c.next)
  BY <1>0, <1>1, CallKinds DEF MergeStatement, Merge, At
<1>3. c.entry \in Existing /\ b \in Bundles
  BY <1>2 DEF ReviewInv, Typing, RequestsExist, TypeOK, Rows, At, BundleOf
<1>4. c.next \in 1..Statements(b)
  <2>1. Statements(b) \in Nat /\ c.next \in Nat \ {0}
    BY <1>2, <1>3, StatementsNat DEF ApproveCalls
  <2> QED
    BY <1>2, <2>1
<1>5. x \in Content(b)
  BY <1>2, <1>4, MergedIsTouched DEF Content
<1>6. requests'[r].pc = "merge" /\ requests'[r].entry = c.entry
  <2>1. PICK k \in Nat : Goto(r, [requests[r] EXCEPT !.next = @ + 1, !.created = k])
    BY <1>0, <1>1, StatementAdvances
  <2> QED
    BY <1>0, <1>2, <2>1, AdvanceTyped DEF Goto
<1>7. PICK e \in Existing : e = c.entry
  BY <1>3
<1>8. e \in Existing' /\ BundleOf(e)' = BundleOf(e) /\ Content(BundleOf(e))' = Content(BundleOf(e))
  BY <1>2, <1>7 DEF Existing, BundleOf, Content
<1>9. x \in Content(BundleOf(e)) /\ requests'[r].entry = e
  BY <1>5, <1>6, <1>7
<1> QED
  BY <1>6, <1>8, <1>9 DEF Backs, At

\* Where nothing fails, all that the graph holds when no approval is at work
\* belongs to an entry with committed_to_graph_at set, also when a rejection has
\* overtaken its approval (approve_entry commits before it marks the row).
THEOREM AvailableCommitted ==
  ASSUME Failures = FALSE
  PROVE  Spec => []AvailableIsCommitted
<1>1. Init => GraphBacked
  BY DEF Init, GraphBacked
<1>2. ReviewInv /\ ReviewInv' /\ GraphBacked /\ [Next]_vars => GraphBacked'
  <2> SUFFICES ASSUME ReviewInv, ReviewInv', GraphBacked, [Next]_vars, NEW x \in DOMAIN graph'
               PROVE  \E e \in Existing' : Backs(e, x)'
    BY DEF GraphBacked
  <2>1. Grows
    BY StepGrows DEF ReviewInv
  <2>2. CASE x \in DOMAIN graph
    <3>1. PICK e \in Existing : Backs(e, x)
      BY <2>2 DEF GraphBacked
    <3> QED
      BY <2>1, <3>1, StepBacks DEF Backs
  <2>3. CASE x \notin DOMAIN graph
    BY <2>1, <2>3, NewIsBacked
  <2> QED
    BY <2>2, <2>3
<1>3. GraphBacked => AvailableIsCommitted
  BY DEF GraphBacked, Backs, AvailableIsCommitted
<1> QED
  BY <1>1, <1>2, <1>3, ReviewInvariant, PTL DEF Spec

-----------------------------------------------------------------------------
(* What a node is credited with is in the graph under its name.            *)

\* A bundle names an element once only.
NamesOnce ==
    \A b \in Bundles : \A i, j \in 1..Statements(b) : Key(b, i) = Key(b, j) => i = j

\* The inductive invariant: an approval counts no more than the keys that its
\* statements so far have created, and no two approvals under way share the time
\* by which a statement tells what it created; what no approval under way has
\* created covers the credit given already.
Committing(r) == At(r, "merge") \/ At(r, "credit")
Made(r) ==
    {x \in DOMAIN graph :
        /\ graph[x].at = requests[r].now
        /\ \E i \in 1..Statements(BundleOf(requests[r].entry)) :
              i < requests[r].next /\ x = Key(BundleOf(requests[r].entry), i)}
Accounted(n) ==
    {x \in Owned(n) : \A r \in Requests : Committing(r) => requests[r].now # graph[x].at}

CreditOK(r) ==
    Committing(r) =>
        /\ requests[r].now <= clock
        /\ \A x \in DOMAIN graph :
              graph[x].at = requests[r].now => graph[x].origin = queue[requests[r].entry].origin
        /\ requests[r].created <= Cardinality(Made(r))
        /\ \A q \in Requests : Committing(q) /\ requests[q].now = requests[r].now => q = r

CreditInv ==
    /\ IsFiniteSet(DOMAIN graph)
    /\ \A x \in DOMAIN graph : graph[x].at <= clock
    /\ \A r \in Requests : CreditOK(r)
    /\ \A n \in Nodes : stats[n].accepted <= Cardinality(Accounted(n))

\* Parts of a finite graph can be counted and compared.
LEMMA PartsOfGraph ==
    ASSUME NEW D, IsFiniteSet(D), NEW T \in SUBSET D, NEW S \in SUBSET T
    PROVE  /\ IsFiniteSet(S) /\ IsFiniteSet(T)
           /\ Cardinality(S) \in Nat /\ Cardinality(T) \in Nat
           /\ Cardinality(S) <= Cardinality(T)
<1>1. IsFiniteSet(T) /\ IsFiniteSet(S)
  BY FS_Subset
<1> QED
  BY <1>1, FS_Subset, FS_CardinalityType

LEMMA CommittingTyped ==
    ASSUME Typing, NEW r \in Requests, Committing(r)
    PROVE  /\ requests[r] \in ApproveCalls
           /\ requests[r].entry \in Existing
           /\ BundleOf(requests[r].entry) \in Bundles
           /\ queue[requests[r].entry].origin \in Nodes
<1>1. requests[r] \in ApproveCalls /\ requests[r].entry \in Existing
  BY CallKinds DEF Committing, Typing, TypeOK, RequestsExist, At
<1> QED
  BY <1>1 DEF Typing, TypeOK, Rows, BundleOf

\* An approval that a step moves in its pc only keeps its facts, if what the step
\* adds to the graph has another time.
LEMMA CommittingKeeps ==
    ASSUME Typing, Grows, CreditInv, IsFiniteSet(DOMAIN graph'), clock <= clock', clock' \in Nat,
           NEW q \in Requests, Committing(q), Committing(q)',
           requests'[q].entry = requests[q].entry, requests'[q].now = requests[q].now,
           requests'[q].next = requests[q].next, requests'[q].created = requests[q].created,
           \A x \in DOMAIN graph' \ DOMAIN graph : graph'[x].at # requests[q].now,
           \A p \in Requests : Committing(p)' /\ requests'[p].now = requests[q].now => p = q
    PROVE  CreditOK(q)'
<1>1. /\ requests[q] \in ApproveCalls /\ requests[q].entry \in Existing
      /\ requests[q].now \in Nat /\ requests[q].created \in Nat /\ clock \in Nat
  <2>1. requests[q] \in ApproveCalls /\ requests[q].entry \in Existing
    BY CommittingTyped
  <2> QED
    BY <2>1, MaxCommitsAssumption DEF ApproveCalls, Typing, TypeOK
<1>2. PICK b \in Bundles :
         b = BundleOf(requests[q].entry) /\ b = BundleOf(requests[q].entry)'
  BY <1>1, CommittingTyped DEF Grows, BundleOf
<1>3. CreditOK(q)
  BY DEF CreditInv
<1>4. requests'[q].now <= clock'
  BY <1>1, <1>3 DEF CreditOK
<1>5. \A x \in DOMAIN graph' : graph'[x].at = requests'[q].now
          => graph'[x].origin = queue'[requests'[q].entry].origin
  BY <1>1, <1>3 DEF CreditOK, Grows
<1>6. requests'[q].created <= Cardinality(Made(q)')
  <2>1. Made(q) \subseteq Made(q)' /\ Made(q)' \subseteq DOMAIN graph'
    BY <1>2 DEF Made, Grows
  <2>2. /\ Cardinality(Made(q)) \in Nat /\ Cardinality(Made(q)') \in Nat
        /\ Cardinality(Made(q)) <= Cardinality(Made(q)')
    BY <2>1, PartsOfGraph
  <2>3. requests[q].created <= Cardinality(Made(q))
    BY <1>3 DEF CreditOK
  <2> QED
    BY <1>1, <2>2, <2>3
<1> QED
  BY <1>4, <1>5, <1>6 DEF CreditOK

\* The credit of a node stays covered when its elements stay accounted.
LEMMA CreditCovered ==
    ASSUME CreditInv, IsFiniteSet(DOMAIN graph'), NEW n \in Nodes,
           stats[n].accepted \in Nat, stats'[n].accepted = stats[n].accepted,
           Accounted(n) \subseteq Accounted(n)'
    PROVE  stats'[n].accepted <= Cardinality(Accounted(n)')
<1>1. Accounted(n)' \subseteq DOMAIN graph'
  BY DEF Accounted, Owned
<1>2. /\ Cardinality(Accounted(n)) \in Nat /\ Cardinality(Accounted(n)') \in Nat
      /\ Cardinality(Accounted(n)) <= Cardinality(Accounted(n)')
  BY <1>1, PartsOfGraph
<1> QED
  BY <1>2 DEF CreditInv

\* A step that neither creates nor credits, and starts no approval.
LEMMA NothingMade ==
    ASSUME Typing, Grows, CreditInv, UNCHANGED <<graph, clock>>,
           \A n \in Nodes : stats'[n].accepted = stats[n].accepted,
           \A p \in Requests : Committing(p)' =>
              /\ Committing(p)
              /\ requests'[p].entry = requests[p].entry /\ requests'[p].now = requests[p].now
              /\ requests'[p].next = requests[p].next /\ requests'[p].created = requests[p].created
    PROVE  CreditInv'
<1>1. IsFiniteSet(DOMAIN graph') /\ clock \in Nat /\ clock' \in Nat /\ clock <= clock'
  BY MaxCommitsAssumption DEF CreditInv, Typing, TypeOK
<1>2. ASSUME NEW q \in Requests, Committing(q)' PROVE CreditOK(q)'
  <2>1. \A p \in Requests : Committing(p)' /\ requests'[p].now = requests[q].now => p = q
    BY <1>2 DEF CreditInv, CreditOK
  <2> QED
    BY <1>1, <1>2, <2>1, CommittingKeeps
<1>3. ASSUME NEW n \in Nodes PROVE stats'[n].accepted <= Cardinality(Accounted(n)')
  <2>1. Accounted(n) \subseteq Accounted(n)'
    BY DEF Accounted, Owned
  <2>2. stats[n].accepted \in Nat
    BY DEF Typing, TypeOK, Counters
  <2> QED
    BY <1>1, <2>1, <2>2, CreditCovered
<1>4. \A q \in Requests : CreditOK(q)'
  BY <1>2 DEF CreditOK
<1> QED
  BY <1>1, <1>3, <1>4 DEF CreditInv

\* An approval starts with a time of its own.
LEMMA StartCredits ==
    ASSUME Typing, Grows, CreditInv, NEW r \in Requests, NEW e \in Entries, StartApprove(r, e)
    PROVE  CreditInv'
<1>1. /\ clock \in Nat /\ clock' = clock + 1 /\ clock' \in Nat /\ clock < clock'
      /\ UNCHANGED <<graph, queue, stats>> /\ IsFiniteSet(DOMAIN graph')
  BY MaxCommitsAssumption DEF StartApprove, CreditInv, Typing, TypeOK
<1>2. /\ ~Committing(r)
      /\ requests'[r].now = clock' /\ requests'[r].created = 0
      /\ \A q \in Requests \ {r} : requests'[q] = requests[q]
  BY DEF StartApprove, Goto, Committing, At, Typing, TypeOK
<1>3. \A x \in DOMAIN graph : graph[x].at <= clock /\ graph[x].at \in Nat
  BY DEF CreditInv, Typing, TypeOK, Stamps
<1>4. \A x \in DOMAIN graph : graph[x].at # clock'
  BY <1>1, <1>3
<1>5. \A q \in Requests : Committing(q) => requests[q].now <= clock /\ requests[q].now \in Nat
  BY CommittingTyped DEF CreditInv, CreditOK, ApproveCalls
<1>6. \A q \in Requests \ {r} : Committing(q)' => Committing(q) /\ requests'[q].now # clock'
  BY <1>1, <1>2, <1>5 DEF Committing, At
<1>7. CreditOK(r)'
  <2>1. Made(r)' \subseteq DOMAIN graph'
    BY DEF Made
  <2>2. Cardinality(Made(r)') \in Nat
    BY <1>1, <2>1, PartsOfGraph
  <2> QED
    BY <1>1, <1>2, <1>4, <1>6, <2>2 DEF CreditOK
<1>8. ASSUME NEW q \in Requests \ {r}, Committing(q)' PROVE CreditOK(q)'
  <2>1. Committing(q) /\ requests'[q] = requests[q] /\ requests[q].now # clock'
    BY <1>2, <1>6, <1>8
  <2>2. \A p \in Requests : Committing(p)' /\ requests'[p].now = requests[q].now => p = q
    BY <1>2, <1>6, <2>1 DEF CreditInv, CreditOK
  <2> QED
    BY <1>1, <1>8, <2>1, <2>2, CommittingKeeps
<1>9. ASSUME NEW n \in Nodes PROVE stats'[n].accepted <= Cardinality(Accounted(n)')
  <2>1. Accounted(n) \subseteq Accounted(n)'
    BY <1>1, <1>2, <1>4, <1>6 DEF Accounted, Owned
  <2>2. stats[n].accepted \in Nat
    BY DEF Typing, TypeOK, Counters
  <2> QED
    BY <1>1, <2>1, <2>2, CreditCovered
<1>10. \A q \in Requests : CreditOK(q)'
  BY <1>7, <1>8 DEF CreditOK
<1>11. \A x \in DOMAIN graph' : graph'[x].at <= clock'
  BY <1>1, <1>3
<1> QED
  BY <1>1, <1>9, <1>10, <1>11 DEF CreditInv

\* One statement adds elements with the time of its approval only, and counts its
\* key, which no statement before it has counted.
LEMMA MergeCredits ==
    ASSUME NamesOnce, Typing, Grows, CreditInv, IsFiniteSet(DOMAIN graph'),
           NEW r \in Requests, MergeStatement(r)
    PROVE  CreditInv'
<1> DEFINE c == requests[r]
<1>1. /\ Committing(r) /\ CreditOK(r)
      /\ c \in ApproveCalls /\ c.entry \in Existing
      /\ c.now \in Nat /\ c.next \in Nat \ {0} /\ c.created \in Nat /\ c.pc = "merge"
      /\ clock \in Nat /\ UNCHANGED <<clock, queue, stats>>
  <2>1. Committing(r)
    BY DEF MergeStatement, Committing
  <2> QED
    BY <2>1, CommittingTyped, MaxCommitsAssumption
       DEF MergeStatement, ApproveCalls, At, CreditInv, Typing, TypeOK
<1>2. PICK b \in Bundles : b = BundleOf(c.entry)
  BY <1>1, CommittingTyped
<1> DEFINE key == Key(b, c.next)
           hit == ~Skipped(b, c.next) /\ CountsAsCreated(graph', key, c.now)
           k == IF hit THEN c.created + 1 ELSE c.created
           d == [c EXCEPT !.next = @ + 1, !.created = k]
<1>3. c.next \in 1..Statements(b)
  BY <1>1, <1>2, StatementsNat DEF MergeStatement
<1>4. /\ d.pc = "merge" /\ d.entry = c.entry /\ d.now = c.now
      /\ d.next = c.next + 1 /\ d.created = k
  BY <1>1 DEF ApproveCalls
<1>5. requests' = [requests EXCEPT ![r] = d]
  BY <1>2 DEF MergeStatement, Goto
<1>6. /\ requests'[r] = d
      /\ \A q \in Requests \ {r} : requests'[q] = requests[q]
  BY <1>5 DEF Typing, TypeOK
<1>7. /\ \A q \in Requests : Committing(q)' <=> Committing(q)
      /\ \A q \in Requests : requests'[q].now = requests[q].now
  BY <1>1, <1>4, <1>6 DEF Committing, At
<1>8. /\ \A x \in DOMAIN graph : graph'[x] = graph[x]
      /\ \A x \in DOMAIN graph' \ DOMAIN graph :
            graph'[x].at = c.now /\ graph'[x].origin = queue[c.entry].origin
  BY DEF MergeStatement, Merge
<1>9. CreditOK(r)'
  <2>1. b = BundleOf(requests[r].entry)'
    BY <1>1, <1>2, <1>4, <1>6 DEF BundleOf
  <2>2. Made(r)' \subseteq DOMAIN graph' /\ Made(r) \subseteq Made(r)'
    BY <1>1, <1>2, <1>3, <1>4, <1>6, <1>8, <2>1 DEF Made, Grows
  <2>3. /\ Cardinality(Made(r)) \in Nat /\ Cardinality(Made(r)') \in Nat
        /\ Cardinality(Made(r)) <= Cardinality(Made(r)')
        /\ IsFiniteSet(Made(r))
    BY <2>2, PartsOfGraph
  <2>4. c.created <= Cardinality(Made(r))
    BY <1>1 DEF CreditOK
  <2>5. d.created <= Cardinality(Made(r)')
    <3>1. CASE ~hit
      BY <1>1, <1>4, <2>3, <2>4, <3>1
    <3>2. CASE hit
      <4>1. key \in Made(r)'
        <5>1. key \in DOMAIN graph' /\ graph'[key].at = c.now
          BY <3>2 DEF CountsAsCreated
        <5> QED
          BY <1>1, <1>3, <1>4, <1>6, <2>1, <5>1 DEF Made
      <4>2. key \notin Made(r)
        <5> SUFFICES ASSUME NEW j \in 1..Statements(b), j < c.next, key = Key(b, j)
                     PROVE  FALSE
          BY <1>2 DEF Made
        <5>1. j = c.next
          BY <1>3 DEF NamesOnce
        <5> QED
          BY <1>1, <5>1
      <4>3. Made(r) \cup {key} \subseteq Made(r)'
        BY <2>2, <4>1
      <4>4. /\ Cardinality(Made(r) \cup {key}) = Cardinality(Made(r)) + 1
        BY <2>3, <4>2, FS_AddElement
      <4>5. Cardinality(Made(r) \cup {key}) <= Cardinality(Made(r)')
        BY <2>2, <4>3, PartsOfGraph
      <4>6. d.created = c.created + 1
        BY <1>4, <3>2
      <4> QED
        BY <1>1, <2>3, <2>4, <4>4, <4>5, <4>6
    <3> QED
      BY <3>1, <3>2
  <2>6. \A x \in DOMAIN graph' :
           graph'[x].at = c.now => graph'[x].origin = queue[c.entry].origin
    BY <1>1, <1>8 DEF CreditOK
  <2>7. \A q \in Requests : Committing(q)' /\ requests'[q].now = c.now => q = r
    BY <1>1, <1>7 DEF CreditOK
  <2>8. requests'[r].now <= clock'
    BY <1>1, <1>4, <1>6 DEF CreditOK
  <2> QED
    BY <1>1, <1>4, <1>6, <2>5, <2>6, <2>7, <2>8 DEF CreditOK
<1>10. ASSUME NEW q \in Requests \ {r}, Committing(q)' PROVE CreditOK(q)'
  <2>1. Committing(q) /\ requests'[q] = requests[q] /\ requests[q].now # c.now
    BY <1>1, <1>6, <1>7, <1>10 DEF CreditOK
  <2>2. \A p \in Requests : Committing(p)' /\ requests'[p].now = requests[q].now => p = q
    BY <1>7, <2>1 DEF CreditInv, CreditOK
  <2> QED
    BY <1>1, <1>8, <1>10, <2>1, <2>2, CommittingKeeps
<1>11. ASSUME NEW n \in Nodes PROVE stats'[n].accepted <= Cardinality(Accounted(n)')
  <2>1. Accounted(n) \subseteq Accounted(n)'
    BY <1>7, <1>8 DEF Accounted, Owned, Grows
  <2>2. stats[n].accepted \in Nat /\ stats'[n].accepted = stats[n].accepted
    BY <1>1 DEF Typing, TypeOK, Counters
  <2> QED
    BY <2>1, <2>2, CreditCovered
<1>12. \A x \in DOMAIN graph' : graph'[x].at <= clock'
  BY <1>1, <1>8 DEF CreditInv, CreditOK
<1>13. \A q \in Requests : CreditOK(q)'
  BY <1>9, <1>10 DEF CreditOK
<1> QED
  BY <1>11, <1>12, <1>13 DEF CreditInv

\* The credit of an approval is covered by what it has created, which no other
\* approval, finished or not, has created too.
LEMMA CreditCredits ==
    ASSUME Typing, Grows, CreditInv, NEW r \in Requests, CreditNode(r)
    PROVE  CreditInv'
<1> DEFINE c == requests[r]
<1>1. /\ Committing(r) /\ CreditOK(r)
      /\ c \in ApproveCalls /\ c.entry \in Existing /\ c.created \in Nat
      /\ clock \in Nat /\ UNCHANGED <<clock, queue, graph>> /\ IsFiniteSet(DOMAIN graph')
  <2>1. Committing(r)
    BY DEF CreditNode, Committing
  <2> QED
    BY <2>1, CommittingTyped, MaxCommitsAssumption
       DEF CreditNode, ApproveCalls, CreditInv, Typing, TypeOK
<1>0. PICK o \in Nodes : o = queue[c.entry].origin
  BY <1>1, CommittingTyped
<1>2. /\ ~Committing(r)'
      /\ \A q \in Requests \ {r} : requests'[q] = requests[q]
  BY DEF CreditNode, Return, Goto, Idle, Committing, At, Typing, TypeOK
<1>3. \A q \in Requests : Committing(q)' => Committing(q) /\ requests'[q] = requests[q] /\ q # r
  BY <1>2 DEF Committing, At
<1>4. \A n \in Nodes : /\ stats[n].accepted \in Nat
                       /\ n # o => stats'[n].accepted = stats[n].accepted
                       /\ n = o => stats'[n].accepted = stats[n].accepted + c.created
  <2>1. stats' = [stats EXCEPT ![o].pushes = @ + 1, ![o].accepted = @ + c.created]
    BY <1>0 DEF CreditNode, Increment
  <2> QED
    BY <2>1 DEF Typing, TypeOK, Counters
<1>5. \A n \in Nodes : Accounted(n) \subseteq Accounted(n)'
  BY <1>1, <1>3 DEF Accounted, Owned
<1>6. ASSUME NEW q \in Requests, Committing(q)' PROVE CreditOK(q)'
  <2>1. Committing(q) /\ requests'[q] = requests[q]
    BY <1>3, <1>6
  <2>2. \A p \in Requests : Committing(p)' /\ requests'[p].now = requests[q].now => p = q
    BY <1>3, <2>1 DEF CreditInv, CreditOK
  <2> QED
    BY <1>1, <1>6, <2>1, <2>2, CommittingKeeps
<1>7. stats'[o].accepted <= Cardinality(Accounted(o)')
  <2>1. Made(r) \subseteq Accounted(o)'
    <3> SUFFICES ASSUME NEW x \in Made(r) PROVE x \in Accounted(o)'
      OBVIOUS
    <3>1. x \in DOMAIN graph /\ graph[x].at = c.now /\ graph[x].origin = o
      BY <1>1, <1>0 DEF Made, CreditOK
    <3>2. \A q \in Requests : Committing(q)' => requests'[q].now # graph[x].at
      BY <1>1, <1>3, <3>1 DEF CreditOK
    <3> QED
      BY <1>1, <3>1, <3>2 DEF Accounted, Owned
  <2>2. Made(r) \cap Accounted(o) = {}
    BY <1>1 DEF Made, Accounted
  <2>3. Accounted(o) \cup Made(r) \subseteq Accounted(o)' /\ Accounted(o)' \subseteq DOMAIN graph'
    BY <1>1, <1>5, <2>1 DEF Accounted, Owned
  <2>4. /\ Cardinality(Accounted(o) \cup Made(r)) <= Cardinality(Accounted(o)')
        /\ Cardinality(Accounted(o)') \in Nat
    BY <1>1, <2>3, PartsOfGraph
  <2>5. /\ IsFiniteSet(Accounted(o)) /\ Cardinality(Accounted(o)) \in Nat
        /\ IsFiniteSet(Made(r)) /\ Cardinality(Made(r)) \in Nat
    <3>1. Accounted(o) \subseteq DOMAIN graph /\ Made(r) \subseteq DOMAIN graph
      BY DEF Accounted, Owned, Made
    <3> QED
      BY <3>1, PartsOfGraph DEF CreditInv
  <2>6. Cardinality(Accounted(o) \cup Made(r)) = Cardinality(Accounted(o)) + Cardinality(Made(r))
    <3>1. Cardinality(Accounted(o) \cap Made(r)) = 0
      BY <2>2, FS_EmptySet
    <3>2. Cardinality(Accounted(o) \cup Made(r))
             = Cardinality(Accounted(o)) + Cardinality(Made(r)) - Cardinality(Accounted(o) \cap Made(r))
      BY <2>5, FS_Union
    <3> QED
      BY <2>5, <3>1, <3>2
  <2>7. c.created <= Cardinality(Made(r)) /\ stats[o].accepted <= Cardinality(Accounted(o))
    BY <1>1 DEF CreditOK, CreditInv
  <2> QED
    BY <1>1, <1>4, <2>4, <2>5, <2>6, <2>7
<1>8. ASSUME NEW n \in Nodes PROVE stats'[n].accepted <= Cardinality(Accounted(n)')
  <2>1. CASE n = o
    BY <1>7, <2>1
  <2>2. CASE n # o
    BY <1>1, <1>4, <1>5, <2>2, CreditCovered
  <2> QED
    BY <2>1, <2>2
<1>9. \A q \in Requests : CreditOK(q)'
  BY <1>6 DEF CreditOK
<1> QED
  BY <1>1, <1>8, <1>9 DEF CreditInv

LEMMA CreditInit == Init => CreditInv
<1> SUFFICES ASSUME Init PROVE CreditInv
  OBVIOUS
<1>1. DOMAIN graph = {} /\ \A r \in Requests : ~Committing(r)
  BY DEF Init, Committing, At, Idle
<1>2. ASSUME NEW n \in Nodes PROVE stats[n].accepted <= Cardinality(Accounted(n))
  <2>1. Accounted(n) = {} /\ stats[n].accepted = 0
    BY <1>1 DEF Init, Accounted, Owned
  <2> QED
    BY <2>1, FS_EmptySet
<1> QED
  BY <1>1, <1>2, FS_EmptySet DEF CreditInv, CreditOK

LEMMA CreditStep == NamesOnce /\ Typing /\ CreditInv /\ [Next]_vars => CreditInv'
<1> SUFFICES ASSUME NamesOnce, Typing, CreditInv, [Next]_vars
             PROVE  CreditInv'
  OBVIOUS
<1>0. Grows /\ IsFiniteSet(DOMAIN graph')
  BY StepGrows, GraphFinite DEF CreditInv
<1>1. ASSUME NEW r \in Requests, UNCHANGED <<graph, clock, stats>>,
             NEW call, call.pc \notin {"merge", "credit"}, Goto(r, call)
      PROVE  CreditInv'
  <2>1. requests'[r] = call /\ \A q \in Requests \ {r} : requests'[q] = requests[q]
    BY <1>1 DEF Goto, Typing, TypeOK
  <2>2. \A q \in Requests : Committing(q)' => Committing(q) /\ requests'[q] = requests[q]
    BY <1>1, <2>1 DEF Committing, At
  <2> QED
    BY <1>0, <1>1, <2>2, NothingMade
<1>2. ASSUME NEW r \in Requests,
             \/ \E n \in Nodes, b \in Bundles, e \in Entries : QueueEntry(r, n, b, e)
             \/ \E e \in Entries : StartReject(r, e)
             \/ LogPush(r) \/ MarkRejected(r) \/ Fail(r)
      PROVE  CreditInv'
  BY <1>1, <1>2 DEF QueueEntry, StartReject, LogPush, MarkRejected, Fail, Return, Idle
<1>3. ASSUME NEW r \in Requests, CountPush(r) PROVE CreditInv'
  <2>1. requests[r] \in PushCalls /\ requests' = [requests EXCEPT ![r].pc = "log"]
    BY <1>3, CallKinds DEF CountPush, Goto, Typing, TypeOK
  <2>2. \A q \in Requests : Committing(q)' => Committing(q) /\ requests'[q] = requests[q]
    BY <2>1 DEF Committing, At, Typing, TypeOK, PushCalls
  <2>3. \A n \in Nodes : stats'[n].accepted = stats[n].accepted
    BY <1>3 DEF CountPush, Increment, Typing, TypeOK, Counters
  <2>4. UNCHANGED <<graph, clock>>
    BY <1>3 DEF CountPush
  <2> QED
    BY <1>0, <2>2, <2>3, <2>4, NothingMade
<1>4. ASSUME NEW r \in Requests, MarkApproved(r) PROVE CreditInv'
  <2>1. requests[r] \in ApproveCalls /\ requests[r].pc = "merge"
    BY <1>4, CallKinds DEF MarkApproved, At, Typing, TypeOK
  <2>2. \A q \in Requests : Committing(q)' =>
           /\ Committing(q)
           /\ requests'[q].entry = requests[q].entry /\ requests'[q].now = requests[q].now
           /\ requests'[q].next = requests[q].next /\ requests'[q].created = requests[q].created
    BY <1>4, <2>1 DEF MarkApproved, Goto, Committing, At, Typing, TypeOK, ApproveCalls
  <2> QED
    BY <1>0, <1>4, <2>2, NothingMade DEF MarkApproved
<1>5. CASE UNCHANGED vars
  BY <1>0, <1>5, NothingMade DEF vars, Committing, At
<1> QED
  BY <1>0, <1>2, <1>3, <1>4, <1>5, StartCredits, MergeCredits, CreditCredits
     DEF Next, Arrive, Continue

\* A node is never credited with more than the graph holds under its name, however
\* approvals of overlapping bundles interleave and fail, where no bundle names an
\* element twice (commit_bundle compares approved_at after the MERGE).
THEOREM CreditOwned ==
  ASSUME NamesOnce
  PROVE  Spec => []CreditIsOwned
<1>1. ASSUME Typing, CreditInv PROVE CreditIsOwned
  <2> SUFFICES ASSUME NEW n \in Nodes PROVE stats[n].accepted <= Cardinality(Owned(n))
    BY DEF CreditIsOwned
  <2>1. Accounted(n) \subseteq Owned(n) /\ Owned(n) \subseteq DOMAIN graph
    BY DEF Accounted, Owned
  <2>2. /\ Cardinality(Accounted(n)) \in Nat /\ Cardinality(Owned(n)) \in Nat
        /\ Cardinality(Accounted(n)) <= Cardinality(Owned(n))
    BY <1>1, <2>1, PartsOfGraph DEF CreditInv
  <2>3. stats[n].accepted <= Cardinality(Accounted(n)) /\ stats[n].accepted \in Nat
    BY <1>1 DEF CreditInv, Typing, TypeOK, Counters
  <2> QED
    BY <2>2, <2>3
<1>2. NamesOnce /\ Typing /\ CreditInv /\ [Next]_vars => (Typing /\ CreditInv)'
  BY TypingStep, CreditStep
<1> QED
  BY <1>1, <1>2, TypingInit, CreditInit, PTL DEF Spec

-----------------------------------------------------------------------------
(* The pipeline implements the ledger.                                     *)

LEMMA LedgerInit == Init => Ledger!Init
<1> SUFFICES ASSUME Init PROVE Ledger!Init
  OBVIOUS
<1>1. Existing = {} /\ DOMAIN graph = {} /\ sanctioned = {}
  BY DEF Init, Existing
<1> QED
  BY <1>1 DEF Ledger!Init

\* The ledger does not see a step that changes only requests, statistics, the
\* log and the clock.
LEMMA LedgerStutters ==
    ASSUME UNCHANGED <<queue, graph, sanctioned>>
    PROVE  UNCHANGED Ledger!vars
BY DEF Ledger!vars, Existing, BundleOf, Offer, Content

LEMMA LedgerStep == ReviewInv /\ [Next]_vars => [Ledger!Next]_(Ledger!vars)
<1> SUFFICES ASSUME ReviewInv, [Next]_vars
             PROVE  [Ledger!Next]_(Ledger!vars)
  OBVIOUS
<1> USE DEF ReviewInv
<1>1. ASSUME NEW r \in Requests, NEW n \in Nodes, NEW b \in Bundles, NEW e \in Entries,
             QueueEntry(r, n, b, e)
      PROVE  Ledger!Submit(e, Offer(b, n))
  <2>1. /\ e \notin Existing
        /\ Existing' = Existing \cup {e}
        /\ queue' = [x \in Existing \cup {e} |-> IF x = e THEN NewRow(n, b) ELSE queue[x]]
        /\ UNCHANGED <<graph, sanctioned>>
    BY <1>1 DEF QueueEntry, Existing
  <2>2. [x \in Existing' |-> Offer(BundleOf(x), queue[x].origin)'] =
           [x \in Existing \cup {e} |->
               IF x = e THEN Offer(b, n) ELSE Offer(BundleOf(x), queue[x].origin)]
    <3>1. /\ BundleOf(e)' = b /\ queue'[e].origin = n
          /\ \A x \in Existing : BundleOf(x)' = BundleOf(x) /\ queue'[x] = queue[x]
      BY <2>1 DEF NewRow, BundleOf
    <3>2. /\ Offer(BundleOf(e), queue[e].origin)' = Offer(b, n)
          /\ \A x \in Existing :
                Offer(BundleOf(x), queue[x].origin)' = Offer(BundleOf(x), queue[x].origin)
      BY <3>1 DEF Offer, Content
    <3> QED
      BY <2>1, <3>2
  <2>3. [x \in Existing' |-> queue'[x].status] =
           [x \in Existing \cup {e} |-> IF x = e THEN "pending" ELSE queue[x].status]
    BY <2>1 DEF NewRow
  <2> QED
    BY <2>1, <2>2, <2>3 DEF Ledger!Submit
<1>2. ASSUME NEW r \in Requests, NEW e \in Entries, StartApprove(r, e)
      PROVE  e \in Existing /\ Ledger!Sanction(e)
  <2>1. sanctioned' = sanctioned \cup {e} /\ e \in Existing /\ queue[e].status = "pending"
    BY <1>2 DEF StartApprove, Approvable
  <2> QED
    BY <1>2, <2>1 DEF Ledger!Sanction, StartApprove, Existing, BundleOf, Offer, Content
<1>3. ASSUME NEW r \in Requests, MergeStatement(r)
      PROVE  \E e \in Existing : \E S \in SUBSET Content(BundleOf(e)) : Ledger!Publish(e, S)
  <2> DEFINE c == requests[r]
             b == BundleOf(c.entry)
             S == Merged(b, c.next)
  <2>1. c \in ApproveCalls /\ c.entry \in Existing /\ c.entry \in sanctioned
    BY <1>3, CallKinds DEF MergeStatement, CallOK, Typing, TypeOK, RequestsExist, At
  <2>2. b \in Bundles
    BY <2>1 DEF Typing, TypeOK, Rows, BundleOf
  <2>3. c.next \in 1..Statements(b)
    BY <1>3, <2>1, <2>2, StatementsNat DEF MergeStatement, ApproveCalls
  <2>4. S \subseteq Content(b)
    BY <2>3, MergedIsTouched DEF Content
  <2>5. /\ graph' = Merge(graph, S, c.now, queue[c.entry].origin)
        /\ UNCHANGED <<queue, sanctioned>>
    BY <1>3 DEF MergeStatement
  <2>6. [x \in DOMAIN graph' |-> graph'[x].origin] =
           [x \in DOMAIN graph \cup S |->
               IF x \in DOMAIN graph THEN graph[x].origin ELSE queue[c.entry].origin]
    BY <2>5 DEF Merge
  <2>7. PICK e \in Existing : e = c.entry
    BY <2>1
  <2>8. PICK T \in SUBSET Content(BundleOf(e)) : T = S
    BY <2>4, <2>7
  <2>9. Ledger!Publish(e, T)
    BY <2>1, <2>5, <2>6, <2>7, <2>8 DEF Ledger!Publish, Offer, BundleOf, Existing, Content
  <2> QED
    BY <2>9
<1>4. ASSUME NEW r \in Requests, MarkApproved(r)
      PROVE  \E e \in Existing : Ledger!Approve(e)
  <2> DEFINE c == requests[r]
             b == BundleOf(c.entry)
  <2>1. c \in ApproveCalls /\ c.entry \in Existing /\ c.entry \in sanctioned
    BY <1>4, CallKinds DEF MarkApproved, CallOK, Typing, TypeOK, RequestsExist, At
  <2>2. Content(b) \subseteq DOMAIN graph
    <3>1. b \in Bundles
      BY <2>1 DEF Typing, TypeOK, Rows, BundleOf
    <3>2. \A i \in 1..Statements(b) : i < c.next
      BY <1>4, <2>1, <3>1, StatementsNat DEF MarkApproved, CommitDone, ApproveCalls
    <3> QED
      BY <1>4, <3>2 DEF MarkApproved, CallOK, Published, Content
  <2>3. /\ Existing' = Existing
        /\ \A e \in Existing : BundleOf(e)' = BundleOf(e) /\ queue'[e].origin = queue[e].origin
    BY <1>4, StepGrows DEF MarkApproved, Grows, Existing, BundleOf
  <2>4. [e \in Existing' |-> queue'[e].status] =
           [[e \in Existing |-> queue[e].status] EXCEPT ![c.entry] = "approved"]
    <3>1. \A e \in Existing :
             queue'[e].status = IF e = c.entry THEN "approved" ELSE queue[e].status
      BY <1>4, <2>1 DEF MarkApproved, Typing, TypeOK, Rows
    <3> QED
      BY <2>3, <3>1
  <2>5. [e \in Existing' |-> Offer(BundleOf(e), queue[e].origin)'] =
           [e \in Existing |-> Offer(BundleOf(e), queue[e].origin)]
    BY <2>3 DEF Offer, Content
  <2>6. PICK e \in Existing : e = c.entry
    BY <2>1
  <2>7. Ledger!Approve(e)
    BY <1>4, <2>1, <2>2, <2>4, <2>5, <2>6 DEF Ledger!Approve, MarkApproved, Offer
  <2> QED
    BY <2>7
<1>5. ASSUME NEW r \in Requests, MarkRejected(r)
      PROVE  \E e \in Existing : Ledger!Reject(e)
  <2>1. requests[r].entry \in Existing
    BY <1>5 DEF MarkRejected, Typing, RequestsExist, At
  <2>2. /\ Existing' = Existing
        /\ \A e \in Existing : BundleOf(e)' = BundleOf(e) /\ queue'[e].origin = queue[e].origin
    BY <1>5, StepGrows DEF MarkRejected, Grows, Existing, BundleOf
  <2>3. [e \in Existing' |-> queue'[e].status] =
           [[e \in Existing |-> queue[e].status] EXCEPT ![requests[r].entry] = "rejected"]
    <3>1. \A e \in Existing :
             queue'[e].status = IF e = requests[r].entry THEN "rejected" ELSE queue[e].status
      BY <1>5, <2>1 DEF MarkRejected, Typing, TypeOK, Rows
    <3> QED
      BY <2>2, <3>1
  <2>4. [e \in Existing' |-> Offer(BundleOf(e), queue[e].origin)'] =
           [e \in Existing |-> Offer(BundleOf(e), queue[e].origin)]
    BY <2>2 DEF Offer, Content
  <2>5. PICK e \in Existing : e = requests[r].entry
    BY <2>1
  <2>6. Ledger!Reject(e)
    BY <1>5, <2>3, <2>4, <2>5 DEF Ledger!Reject, MarkRejected
  <2> QED
    BY <2>6
<1>6. ASSUME NEW r \in Requests,
             CountPush(r) \/ LogPush(r) \/ CreditNode(r) \/ Fail(r)
      PROVE  UNCHANGED Ledger!vars
  BY <1>6, LedgerStutters DEF CountPush, LogPush, CreditNode, Fail
<1>7. ASSUME NEW r \in Requests, NEW e \in Entries, StartReject(r, e)
      PROVE  UNCHANGED Ledger!vars
  BY <1>7, LedgerStutters DEF StartReject
<1>8. CASE UNCHANGED vars
  BY <1>8, LedgerStutters DEF vars
<1>9. ASSUME NEW e \in Existing,
              \/ Ledger!Sanction(e) \/ Ledger!Approve(e) \/ Ledger!Reject(e)
              \/ \E S \in SUBSET Content(BundleOf(e)) : Ledger!Publish(e, S)
       PROVE  Ledger!Next
  BY <1>9 DEF Ledger!Next, Offer
<1>10. ASSUME NEW n \in Nodes, NEW b \in Bundles, NEW e \in Entries,
              Ledger!Submit(e, Offer(b, n))
       PROVE  Ledger!Next
  BY <1>10 DEF Ledger!Next
<1>11. ASSUME NEW r \in Requests, MergeStatement(r)
       PROVE  Ledger!Next
  BY <1>3, <1>9, <1>11
<1>12. ASSUME NEW r \in Requests, Continue(r)
       PROVE  [Ledger!Next]_(Ledger!vars)
  <2>1. CASE CountPush(r) \/ LogPush(r) \/ CreditNode(r)
    BY <1>6, <2>1
  <2>2. CASE MergeStatement(r)
    BY <1>11, <2>2
  <2>3. CASE MarkApproved(r)
    BY <1>4, <1>9, <2>3
  <2>4. CASE MarkRejected(r)
    BY <1>5, <1>9, <2>4
  <2> QED
    BY <1>12, <2>1, <2>2, <2>3, <2>4 DEF Continue
<1>13. ASSUME NEW r \in Requests, Arrive(r)
       PROVE  [Ledger!Next]_(Ledger!vars)
  BY <1>1, <1>2, <1>7, <1>9, <1>10, <1>13 DEF Arrive
<1> QED
  BY <1>6, <1>8, <1>12, <1>13 DEF Next

\* Every behaviour of the pipeline is one of the ledger: only sanctioned content
\* is added to the graph, an entry is marked approved only when all of it is
\* there, and first origins are kept.
THEOREM PipelineImplementsLedger == Spec => ImplementsLedger
BY ReviewInvariant, LedgerInit, LedgerStep, PTL DEF Spec, ImplementsLedger, Ledger!Spec

=============================================================================
