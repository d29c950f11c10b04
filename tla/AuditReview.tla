---------------------------- MODULE AuditReview ----------------------------
(***************************************************************************)
(* The review pipeline of the hub: a bundle that passed the pre-audit is   *)
(* queued by `push_knowledge`, an admin approves or rejects it through     *)
(* `approve_entry` / `reject_entry`, and an approved bundle is merged into *)
(* the global Neo4j graph by `graph.commit_bundle`.                        *)
(*                                                                         *)
(* Every endpoint is an asyncio coroutine; other coroutines run at each of *)
(* its awaits.  A request is therefore a process whose record in           *)
(* `requests` says at which await it stands, and one action is the code    *)
(* between two awaits together with the effect of the second one.          *)
(*                                                                         *)
(* PostgreSQL runs READ COMMITTED and every crud function commits, so one  *)
(* crud call is one atomic step.  Neo4j's `session.run` commits each       *)
(* statement by itself, so one MERGE statement is one atomic step.         *)
(***************************************************************************)
EXTENDS Integers, Sequences, FiniteSets

CONSTANTS
    Nodes,          \* federation nodes that hold an API key
    Entries,        \* audit entry ids (uuid4, never reused)
    Requests,       \* concurrently running API requests
    Names,          \* entity names
    RawPredicates,  \* predicate spellings a node may send
    Upper,          \* str.upper on RawPredicates
    Allowed,        \* ALLOWED_PREDICATES
    Bundles,        \* the bundles the nodes push
    MaxCommits,     \* bound: how many approvals may be started in a behaviour
    Failures        \* TRUE: a request may die at any await

\* A relation as the bundle spells it, and the bundle itself.  `origin` is the
\* origin_node_id that the pushing node CLAIMS in the bundle.
Relations == [subject : Names, predicate : RawPredicates, object : Names]

ASSUME UpperAssumption == Upper \in [RawPredicates -> STRING]
ASSUME BundlesAssumption ==
    Bundles \subseteq [origin : Nodes, entities : Seq(Names), relations : Seq(Relations)]
ASSUME MaxCommitsAssumption == MaxCommits \in Nat
ASSUME FailuresAssumption == Failures \in BOOLEAN

VARIABLES
    queue,      \* table audit_queue: id -> row
    graph,      \* Neo4j: element -> its approved_at and origin_node_id
    stats,      \* federation_nodes.total_pushes / total_triples_accepted
    synclog,    \* the "Queued as <id>" lines of table sync_log
    requests,   \* where each running request stands, and its local variables
    clock,      \* datetime.now() as the number of commits started so far
    sanctioned  \* history: entries some approval found pending

vars == <<queue, graph, stats, synclog, requests, clock, sanctioned>>

-----------------------------------------------------------------------------
(* Bundles, and the elements of the graph they name.                       *)

\* A node of the graph is its name (the MERGE key), a relationship is the
\* triple <<subject, type, object>>.
Elements == Names \cup (Names \X {Upper[p] : p \in RawPredicates} \X Names)

\* commit_bundle runs one statement per entity, then one per relation.
Statements(b) == Len(b.entities) + Len(b.relations)
IsEntity(b, i) == i <= Len(b.entities)
Relation(b, i) == b.relations[i - Len(b.entities)]
Type(b, i) == Upper[Relation(b, i).predicate]

\* The element whose `created` flag the i-th statement returns.
Key(b, i) ==
    IF IsEntity(b, i) THEN b.entities[i]
    ELSE <<Relation(b, i).subject, Type(b, i), Relation(b, i).object>>

\* Everything the i-th statement names: a relation brings its two ends.
Touches(b, i) ==
    IF IsEntity(b, i) THEN {Key(b, i)}
    ELSE {Key(b, i), Relation(b, i).subject, Relation(b, i).object}

\* Everything a bundle says.
Content(b) == UNION {Touches(b, i) : i \in 1..Statements(b)}

\* The predicate check of stage_2_heuristics, made before a bundle is queued.
PredicatesAllowed(b) ==
    \A k \in DOMAIN b.relations : Upper[b.relations[k].predicate] \in Allowed

\* The same check of commit_bundle: the statement of a relation whose
\* predicate is not allowed is skipped.
Skipped(b, i) == ~IsEntity(b, i) /\ Type(b, i) \notin Allowed
Merged(b, i) == IF Skipped(b, i) THEN {} ELSE Touches(b, i)

\* Mutant: SET without ON CREATE.
MergeOverwriting(g, S, now, n) ==
    [x \in DOMAIN g \cup S |-> IF x \in S THEN [at |-> now, origin |-> n] ELSE g[x]]

\* MERGE ... ON CREATE SET: what is there already keeps its properties.
Merge(g, S, now, n) ==
    [x \in DOMAIN g \cup S |->
        IF x \in DOMAIN g THEN g[x] ELSE [at |-> now, origin |-> n]]

\* Mutant: every statement that returns a record counts.
CountsAlways(g, x, now) == x \in DOMAIN g

\* CASE WHEN approved_at = $approved_at THEN true: evaluated AFTER the merge,
\* on the key of the statement only.
CountsAsCreated(g, x, now) == x \in DOMAIN g /\ g[x].at = now

-----------------------------------------------------------------------------
(* Rows and requests.                                                      *)

Statuses == {"pending", "approved", "rejected"}
Rows == [status : Statuses, bundle : Bundles, origin : Nodes, committed : BOOLEAN]
Stamps == [at : 1..MaxCommits, origin : Nodes]
Counters == [pushes : Nat, accepted : Nat]

Idle == [pc |-> "idle"]
PushCalls == [pc : {"count", "log"}, node : Nodes, entry : Entries]
ApproveCalls == [pc : {"merge", "credit"}, entry : Entries, seen : Statuses,
                 now : 1..MaxCommits, next : Nat \ {0}, created : Nat]
RejectCalls == [pc : {"reject"}, entry : Entries]
Calls == {Idle} \cup PushCalls \cup ApproveCalls \cup RejectCalls

Init ==
    /\ queue = [e \in {} |-> e]
    /\ graph = [x \in {} |-> x]
    /\ stats = [n \in Nodes |-> [pushes |-> 0, accepted |-> 0]]
    /\ synclog = {}
    /\ requests = [r \in Requests |-> Idle]
    /\ clock = 0
    /\ sanctioned = {}

At(r, pc) == requests[r].pc = pc
Goto(r, call) == requests' = [requests EXCEPT ![r] = call]
Return(r) == Goto(r, Idle)
Existing == DOMAIN queue
BundleOf(e) == queue[e].bundle

\* increment_node_push_stats: one UPDATE that adds in the database.
Increment(n, accepted) ==
    stats' = [stats EXCEPT ![n].pushes = @ + 1, ![n].accepted = @ + accepted]

-----------------------------------------------------------------------------
(* POST /v1/federation/push, from the point where the pre-audit passed.    *)

\* Mutants: an initial status the review does not know; the claimed origin.
NewRowUnknownStatus(n, b) == [status |-> "queued", bundle |-> b, origin |-> n, committed |-> FALSE]
NewRowClaimedOrigin(n, b) == [status |-> "pending", bundle |-> b, origin |-> b.origin, committed |-> FALSE]

\* create_audit_entry: the origin is the authenticated node, not the one the
\* bundle claims.
NewRow(n, b) == [status |-> "pending", bundle |-> b, origin |-> n, committed |-> FALSE]

QueueEntry(r, n, b, e) ==
    /\ At(r, "idle")
    /\ PredicatesAllowed(b)
    /\ e \notin Existing
    /\ queue' = [x \in Existing \cup {e} |-> IF x = e THEN NewRow(n, b) ELSE queue[x]]
    /\ Goto(r, [pc |-> "count", node |-> n, entry |-> e])
    /\ UNCHANGED <<graph, stats, synclog, clock, sanctioned>>

\* update_node_last_seen (not kept), increment_node_push_stats(accepted=0)
CountPush(r) ==
    /\ At(r, "count")
    /\ Increment(requests[r].node, 0)
    /\ Goto(r, [requests[r] EXCEPT !.pc = "log"])
    /\ UNCHANGED <<queue, graph, synclog, clock, sanctioned>>

\* log_sync(..., status="success", detail="Queued as <id>")
LogPush(r) ==
    /\ At(r, "log")
    /\ synclog' = synclog \cup {[node |-> requests[r].node, entry |-> requests[r].entry]}
    /\ Return(r)
    /\ UNCHANGED <<queue, graph, stats, clock, sanctioned>>

-----------------------------------------------------------------------------
(* POST /v1/admin/audit/{id}/approve                                       *)

\* Mutant: a decided entry can be approved again.
ApprovableAgain(e) == TRUE

\* The check approve_entry makes on the row it has just read.
Approvable(e) == queue[e].status = "pending"

StartApprove(r, e) ==
    /\ At(r, "idle")
    /\ e \in Existing
    /\ Approvable(e)
    /\ clock < MaxCommits
    /\ clock' = clock + 1
    /\ sanctioned' = sanctioned \cup {x \in {e} : queue[x].status = "pending"}
    /\ Goto(r, [pc |-> "merge", entry |-> e, seen |-> queue[e].status,
                now |-> clock', next |-> 1, created |-> 0])
    /\ UNCHANGED <<queue, graph, stats, synclog>>

\* One session.run of commit_bundle.
MergeStatement(r) ==
    /\ At(r, "merge")
    /\ LET c == requests[r]
           b == BundleOf(c.entry)
           hit == ~Skipped(b, c.next) /\ CountsAsCreated(graph', Key(b, c.next), c.now)
       IN  /\ c.next <= Statements(b)
           /\ graph' = Merge(graph, Merged(b, c.next), c.now, queue[c.entry].origin)
           /\ Goto(r, [c EXCEPT !.next = @ + 1,
                                !.created = IF hit THEN @ + 1 ELSE @])
    /\ UNCHANGED <<queue, stats, synclog, clock, sanctioned>>

\* Mutants: the last statement is not awaited; one statement too many is.
CommitDoneEarly(c) == c.next >= Statements(BundleOf(c.entry))
CommitDoneLate(c) == c.next > Statements(BundleOf(c.entry)) + 1

\* commit_bundle has returned.
CommitDone(c) == c.next > Statements(BundleOf(c.entry))

\* Mutant: committed_to_graph_at is not set.
MarkApprovedOnly(r) ==
    /\ At(r, "merge")
    /\ CommitDone(requests[r])
    /\ queue' = [queue EXCEPT ![requests[r].entry].status = "approved"]
    /\ Goto(r, [requests[r] EXCEPT !.pc = "credit"])
    /\ UNCHANGED <<graph, stats, synclog, clock, sanctioned>>

\* approve_audit_entry: its status test reads `seen`, the row as this session
\* loaded it, because the identity map does not refresh a loaded row.
MarkApproved(r) ==
    /\ At(r, "merge")
    /\ CommitDone(requests[r])
    /\ requests[r].seen = "pending"
    /\ queue' = [queue EXCEPT ![requests[r].entry].status = "approved",
                              ![requests[r].entry].committed = TRUE]
    /\ Goto(r, [requests[r] EXCEPT !.pc = "credit"])
    /\ UNCHANGED <<graph, stats, synclog, clock, sanctioned>>

\* increment_node_push_stats(accepted=entities_created + relations_created)
CreditNode(r) ==
    /\ At(r, "credit")
    /\ Increment(queue[requests[r].entry].origin, requests[r].created)
    /\ Return(r)
    /\ UNCHANGED <<queue, graph, synclog, clock, sanctioned>>

-----------------------------------------------------------------------------
(* POST /v1/admin/audit/{id}/reject                                        *)

\* Mutant: a decided entry can be rejected.
RejectableAgain(e) == TRUE

\* The check reject_audit_entry makes on the row it has just read.
Rejectable(e) == queue[e].status = "pending"

StartReject(r, e) ==
    /\ At(r, "idle")
    /\ e \in Existing
    /\ Rejectable(e)
    /\ Goto(r, [pc |-> "reject", entry |-> e])
    /\ UNCHANGED <<queue, graph, stats, synclog, clock, sanctioned>>

\* The UPDATE names only the columns this session changed, so it leaves a
\* committed_to_graph_at that an approval has written meanwhile.
MarkRejected(r) ==
    /\ At(r, "reject")
    /\ queue' = [queue EXCEPT ![requests[r].entry].status = "rejected"]
    /\ Return(r)
    /\ UNCHANGED <<graph, stats, synclog, clock, sanctioned>>

-----------------------------------------------------------------------------

\* A database error ends one request with a 500; a crash of the process is one
\* such step of every request in flight.  What is written stays written.
Fail(r) ==
    /\ Failures
    /\ ~At(r, "idle")
    /\ Return(r)
    /\ UNCHANGED <<queue, graph, stats, synclog, clock, sanctioned>>

Continue(r) ==
    \/ CountPush(r)
    \/ LogPush(r)
    \/ MergeStatement(r)
    \/ MarkApproved(r)
    \/ CreditNode(r)
    \/ MarkRejected(r)

Arrive(r) ==
    \/ \E n \in Nodes, b \in Bundles, e \in Entries : QueueEntry(r, n, b, e)
    \/ \E e \in Entries : StartApprove(r, e)
    \/ \E e \in Entries : StartReject(r, e)

Next == \E r \in Requests : Arrive(r) \/ Continue(r) \/ Fail(r)

Spec == Init /\ [][Next]_vars

-----------------------------------------------------------------------------
(* Properties.                                                             *)

\* Every row, counter, log line, request and graph element has its type.
TypeOK ==
    /\ Existing \subseteq Entries
    /\ queue \in [Existing -> Rows]
    /\ DOMAIN graph \subseteq Elements
    /\ graph \in [DOMAIN graph -> Stamps]
    /\ stats \in [Nodes -> Counters]
    /\ synclog \subseteq [node : Nodes, entry : Existing]
    /\ requests \in [Requests -> Calls]
    /\ clock \in 0..MaxCommits
    /\ sanctioned \subseteq Existing

\* An entry with committed_to_graph_at set has ALL of its content in the graph,
\* whatever other approvals, failures and later rejections did: approve_entry
\* marks a row only after the last statement, commit_bundle skips nothing that
\* the pre-audit let through, and nothing removes from the graph.
ApprovedIsPublished ==
    \A e \in Existing :
        queue[e].committed \/ queue[e].status = "approved"
            => Content(BundleOf(e)) \subseteq DOMAIN graph

\* Whatever the graph holds was named by an entry that an admin set out to
\* approve while it was pending, and carries the node that pushed such an entry
\* as its origin: no request publishes an unreviewed bundle or another node's.
PublishedIsSanctioned ==
    \A x \in DOMAIN graph : \E e \in sanctioned :
        x \in Content(BundleOf(e)) /\ graph[x].origin = queue[e].origin

\* The sync log and the audit queue agree on who pushed an entry, whatever the
\* bundle claims and whichever request wrote the two.
LogAgreesWithQueue ==
    \A l \in synclog : queue[l.entry].origin = l.node

\* A node is never credited with more accepted triples than the graph holds
\* under its name, however approvals of overlapping bundles interleave.  True of
\* bundles that name an element once only.
Owned(n) == {x \in DOMAIN graph : graph[x].origin = n}
CreditIsOwned ==
    \A n \in Nodes : stats[n].accepted <= Cardinality(Owned(n))

\* README: the hub "queues it for human review before approved triples become
\* available".  Whenever no request is running, all the graph holds belongs to
\* an entry that is approved.
Quiet == \A r \in Requests : At(r, "idle")
AvailableIsApproved ==
    Quiet => \A x \in DOMAIN graph : \E e \in Existing :
                queue[e].status = "approved" /\ x \in Content(BundleOf(e))

\* The same of requests that overlap but do not fail: all the graph holds belongs
\* to an entry whose committed_to_graph_at is set, also when a rejection has
\* overtaken its approval.
AvailableIsCommitted ==
    (\A r \in Requests : ~At(r, "merge")) =>
        \A x \in DOMAIN graph : \E e \in Existing :
            queue[e].committed /\ x \in Content(BundleOf(e))

\* A decision on an entry that no other request is reviewing stands for ever:
\* only reviews that looked before it was taken can replace it.
Settled(e) ==
    /\ queue[e].status # "pending"
    /\ \A r \in Requests : (At(r, "merge") \/ At(r, "reject")) => requests[r].entry # e
DecisionSettles ==
    [][\A e \in Existing :
          Settled(e) => Settled(e)' /\ queue'[e].status = queue[e].status]_vars

\* "Entry is already {status}": a decision, once taken, is not replaced.
DecisionIsFinal ==
    [][\A e \in Existing :
          queue[e].status # "pending" => queue'[e].status = queue[e].status]_vars

\* Where nothing fails (see DeltaSync!FairSyncSpec), an approval once started gets
\* its entry committed, whatever else approves or rejects the entry meanwhile.
SanctionedGetsCommitted ==
    \A e \in Entries : e \in sanctioned ~> (e \in Existing /\ queue[e].committed)

\* The pipeline implements the ledger.
Offer(b, n) == [elements |-> Content(b), origin |-> n]
Ledger == INSTANCE ReviewLedger WITH
    Ids <- Entries,
    Offers <- {Offer(b, n) : b \in Bundles, n \in Nodes},
    offered <- [e \in Existing |-> Offer(BundleOf(e), queue[e].origin)],
    decision <- [e \in Existing |-> queue[e].status],
    published <- [x \in DOMAIN graph |-> graph[x].origin]

\* Only sanctioned content is ever added to the graph, an entry is marked
\* approved only when all of it is there, and a published element keeps its first
\* origin for ever: every step of the pipeline is a step of the ledger.
ImplementsLedger == Ledger!Spec

=============================================================================
