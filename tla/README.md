# MoE Libris in TLA+

MoE Libris is a hub: remote instances ("nodes") push bundles of knowledge, the
hub audits them, an admin approves or rejects them, approved bundles are merged
into a global graph, and the nodes pull what is new.  It is a FastAPI program:
all requests run as coroutines of one event loop, so other requests run at each
`await` of a handler.  Its state lives in three stores that share no
transaction: PostgreSQL (nodes, audit queue, sync log), Neo4j (the graph) and
Valkey (strikes and rate limits).

The code is short, and most of what can go wrong in it is in that sentence: what
happens between two awaits of a handler, between two statements of a commit and
between two stores.  The models are cut along those lines.

## Inventory

| Component | State it keeps | Operations | What makes it correct |
|---|---|---|---|
| Audit queue and review (`api/admin.py`, `db/crud.py`) | table `audit_queue`; node statistics | `create_audit_entry`, `approve_entry`, `reject_entry`, `list_audit_queue` | what is approved is in the graph; a decision stands; the node that pushed gets the credit; a walk through the pages overlooks no more than what changed under it |
| Global graph, commit (`services/graph.py`) | Neo4j entities and relations with `approved_at`, `origin_node_id` | `commit_bundle`: one auto-committed MERGE per element | only reviewed content is in the graph; an element keeps its first origin |
| Global graph, delta pull (`services/graph.py`, `api/federation.py`) | nothing on the hub but `last_pull_at`; the cursor is the node's | `pull_since`: page query, relation query, response | a node that pulls with the last time it saw misses nothing |
| Push endpoint (`api/federation.py`) | sync log | `push_knowledge`: rate limit, pre-audit, strike or queue | a bundle is queued under the authenticated node, or it is a strike |
| Pre-audit (`services/pre_audit.py`) | none | `stage_1_syntax`, `stage_2_heuristics`, `run_pre_audit` | what passes can be committed whole; failures fall in the right category |
| Abuse prevention (`services/abuse.py`) | Valkey counters with a time-to-live | strikes, soft and hard limit, rate limit | caps hold; a node above the hard limit is blocked; every window ends |
| Node authentication (`core/security.py`) | none | `get_current_node`, `require_admin` | only accepted nodes with their key get in |
| Handshake (`api/federation.py`, `api/admin.py`, `db/crud.py`) | table `federation_nodes`; the API key, which exists in one response only | request, accept, reject | one node, one row, one working key, which the admin has |
| Manual block and unblock (`api/admin.py`) | `is_blocked`, strikes | block, unblock | an unblock leaves nothing but what was done beside it |
| Registry sync (`services/registry.py`) | a git checkout on disk | clone or pull, parse | a failed sync keeps the cached list |
| Lifespan (`main.py`) | the periodic task; the Neo4j schema | start, periodic sync, stop | the graph's uniqueness constraint is in force while serving |
| Statistics (`api/admin.py`, `db/crud.py`) | none | counts by separate queries | display only |

The hard behaviours, in the order of how much they can damage:

* an `await` between a test and the write that relies on it (approve, reject,
  accept, rate limit), with a session that keeps the row it loaded;
* a commit of many auto-committed statements that can stop in the middle;
* two stores written one after the other, with a failure in between;
* a pull that reads twice while commits are writing, and a cursor that is the
  time a commit *started*;
* Valkey commands that belong together (INCR and EXPIRE, EXISTS and SETEX).

`PROJECT.json` lists every hazard at its line.

## Modules

| Module | Models | Checked by | Proved in |
|---|---|---|---|
| `AuditReview` | queueing, approval with `commit_bundle`, rejection | `MCAuditReview` | `AuditReviewProofs` |
| `ReviewLedger` | the abstract promise of the review pipeline | as `ImplementsLedger` | `AuditReviewProofs` |
| `Handshake` | handshake request, accept, reject | `MCHandshake` | `HandshakeProofs` |
| `NodeAdmission` | the abstract promise of the handshake: what may happen to nodes and keys | as `ImplementsAdmission` | `HandshakeProofs` |
| `PreAudit` | the two stages of the pre-audit and their combination (pure) | through `PushGate` | |
| `PushGate` (extends `PreAudit`) | block check, rate limit, strikes, block, unblock | `MCPushGate` | `PushGateProofs` |
| `DeltaSync` (extends `AuditReview`) | the pull, beside a running review pipeline | `MCDeltaSync` | `DeltaSyncProofs` |
| `Hub` (extends `PushGate`, instances `Handshake` and `AuditReview`) | the way of a bundle from registration to the graph | `MCHub` | `HubProofs` |
| `QueueListing` | the paged listing of the pending entries | `MCQueueListing` | `QueueListingProofs` |
| `Service` | start-up, the periodic task, registry sync | itself | `ServiceProofs` |

### How the code becomes actions

A running request is a process.  `requests[r]` (in `DeltaSync`: `pulls[n]`) is a
record whose `pc` names the await at which the coroutine stands and whose other
fields are its local variables.  An action is the code from one await up to the
effect of the next: `StartApprove` is `approve_entry` up to the call of
`commit_bundle`, `MergeStatement` one `session.run`, `MarkApproved` the UPDATE of
`approve_audit_entry`, `CreditNode` the last UPDATE.

* A crud function commits before it returns, so a crud call is one atomic step;
  nothing holds between two of them.
* Neo4j's `session.run` outside a transaction commits by itself, so a statement
  is one atomic step.
* A SQLAlchemy session does not load again a row it has loaded
  (`expire_on_commit=False`, identity map).  `approve_audit_entry` and
  `accept_handshake` test the status again, but they test the copy their own
  request loaded: the field `seen`.  This is why the second test does not
  protect against another request.  The UPDATE writes only columns that differ
  from what was loaded, which matters in `MarkRejected` and `RejectedStatus`.
* `Fail` ends one request at any await and leaves what is written.  A crash of
  the process is one such step for every request in flight.
* `DeltaSync` adds the pulls to a complete `AuditReview`: each of its steps is a
  step of the pipeline or of a pull.  The node at the other end is external; it
  sends the latest `approved_at` it was given and pulls one page at a time.  A
  response may get lost on the network (`LosePull`) whether or not requests fail.
* `Hub` composes: each of its actions is an action of one part, or of two that the
  code joins in one await.  `get_current_node` reads the registration and the flag
  of the block together (`Authenticate`), `push_knowledge` goes from the last step
  of the gate to the first of the queue (`PassAndQueue`).  A request of the gate is
  one coroutine, so it does not start a push while it is still logging the last one
  (`Free`).  `block_node` and `unblock_node` reach only nodes that have a row.
* `QueueListing` keeps what a listing looks at: the `created_at` of each entry, which
  it gets before its INSERT is committed, and who is pending.  A row of a page is an
  entry between two sets of first entries, those up to the offset and those up to its
  limit (`Firsts`).  Entries may share their `created_at`, by which alone they are
  ordered, and each query puts such entries in an order of its own.  The admin who
  walks through the pages is external: a page that is not full, or that reaches
  `total`, is the last.
* `Service` is cut by what can be seen on disk and in the stores.  A sync is a
  thread, `syncs[s].pc` says where it and its git stand.  A git that is killed
  (`Timeout`, `Crash`) leaves the disk as it is, one that fails by itself
  (`CloneFails`, `GitRefused`) does not leave a half-made clone.  A sync may end
  before any git runs (`NoGit`): no URL is configured, the directory cannot be made,
  or there is no git.
* `PushGate` has no clock: a time-to-live that is armed may run out at any
  moment (`StrikesExpire`, `LimiterExpires`).

History variables exist for properties only and no guard reads them:
`sanctioned` (entries an approval found pending), `admitted` and `lost` in
`Handshake`, `admitted` (pushes let through in this window) and `orphans` (what requests that died
have left undone: the EXPIRE of a key, or the verdict on the strikes of a node) and
`beside` (what pushes of a node have done beside an unblock of it) in `PushGate`,
`slipped`, `overtaken` and the field `known` in `DeltaSync`, `stayed`, `departed` and `late` in `QueueListing`.

### Abstractions

* Confidences and descriptions of graph elements are left out;
  an element is its MERGE key with `approved_at` and `origin_node_id`.  The domain of
  an entity is kept in `DeltaSync`, where the pull filters by it: the statement of an
  entity may bring any domain of `Given` (a bundle may also say null), so that bundles
  need not carry one.  So is whether its type is one that the response accepts
  (`untyped`): the entities of a bundle are not validated, so the statement of an entity
  may bring a null type or one that is too long, and every response with a relation of
  that entity fails the validation of `Triple`.  A node asks for the same domains in all
  its pulls.
* `limit` may be 0, which gives an empty page that says `has_more`.  A negative one makes
  the query fail and changes nothing, and is no step.
* Two commits never take the same time: `clock` counts the commits started.
  `datetime.now()` has microseconds, and ties between commits are not what the
  properties are about (ties within a commit are, and are modelled).
* The uniqueness constraint on entity names is in force (see the lifespan
  below).
* `last_seen_at`, `last_push_at`, `last_pull_at`, the lines of the sync log that
  say "rejected" or belong to a pull, and the version fetched after an accept
  change columns no property looks at; they are folded into the neighbouring
  step.
* In `Service` a file of the work tree is replaced in one step and the parsed list
  is not kept, so the model does not say what a sync returns while another one
  writes.  Two clones do not both find the directory empty.  The end of a merge is one
  step (`GitDone`), in which HEAD moves and the lock goes; git does the one after the
  other.
* The clock of the hub stands still or goes on (`QueueListing!Now`); it is not set back.
* `DeltaSync` and `AuditReview` take the authenticated node for granted; `Hub` is
  where it is authenticated.
* `AdminBlock` is one UPDATE and takes no slot of `Requests`.

## Runs

Every property of a passing run is there because a plausible bug would break it:
`PROJECT.json` pairs it with a mutated definition (marked "Mutant" in the module)
under which the same run fails.

### What holds

`review_safety` (`MCAuditReview_safety.cfg`): two concurrent requests, two
entries, three bundles of two nodes that overlap in an entity and a relation, one
with a predicate that is not allowed and one that claims a wrong origin; two
approvals; a failure at any await.  `ApprovedIsPublished` and
`PublishedIsSanctioned` are the two directions of "the graph is what was
approved"; `LogAgreesWithQueue` and `CreditIsOwned` relate log and statistics to
queue and graph; `DecisionSettles` says when a decision is final although
`DecisionIsFinal` fails: as soon as no other review that looked earlier is under
way.  `ImplementsLedger` checks every step against `ReviewLedger`.

`sync_fair` (`MCDeltaSync_fair.cfg`): two reviews that do not fail and one node that
goes on pulling, without a domain filter, although responses get lost.  All the graph holds while no commit is
running belongs to an entry with `committed_to_graph_at` set (`AvailableIsCommitted`),
an approval once started ends with its entry committed whatever overlaps it
(`SanctionedGetsCommitted`),
and the node is given every entity but those that slipped (`PullsCatchUp`), provided
that in the end the response to its pages can be built.  Two things of the code stand
against that, and both occur in the run: a node that always asks for more than a bundle
holds, and a page with a relation of an entity without an accepted type, at which the
node stays until somebody mends the graph (`federation.py:154`).  The promise is made
for positive limits; `limit=0` gets an empty page for ever.

`handshake_safety` (`MCHandshake_safety.cfg`): two requests, two nodes, three
keys, failures.  A key that authenticates was issued by an accept that found the
node pending; the key in force is in the admin's hands, on its way, or was lost
with a request that died, in which case the node is accepted and nobody has its
key (`KeyIsSomewhere`); a rejection is final once no accept that looked earlier is under
way (`RejectionIsFinal`), and so is the key of a decided node (`KeyStands`).
`ImplementsAdmission` checks every step against `NodeAdmission`: a key has one node,
takes effect at most once and before anybody is told it, and is told or lost but not
both; a registration that exists changes only by such a key or by a rejection.  That
the open endpoint does not even reject (`RegistrationSurvives`) is proved only.

`gate_safety` (`MCPushGate_safety.cfg`): two requests of one node, with blocks
and unblocks by admins and time-to-lives that run out at any moment.  Although
three counters are read one by one while others change them, a node at or above
the hard limit is blocked when no request is running (`NoEscape`), unless a request
died between a strike and the block and nobody has struck since.  The caps are what
the commands give and not what the comments say: EXISTS and SETEX are two commands
(`abuse.py:94`), so a limited node passes once for each request that looked before
the first SETEX (`LimitedCap`), and a late SETEX sets the count of a normal window
back to 1, so that it lets `Rate` pushes through for each request that may be late
(`WindowCap`).  With one request at a time both are the documented caps.
`CountersEnd` says who still owes a counter its time-to-live.  `UnblockSettles` says
what an unblock achieves: a strike that is left when it returns is of a category that
a push struck while it ran, and an automatic block was set while it ran; nothing older
outlives it.  That the node is free afterwards is not so, see `gate_unblock` below.
Every counter that exists goes away (`StrikesLapse`, `WindowCloses`), unless its request
died between INCR and EXPIRE (`abuse.py:44` and `:101`).  Each property names the one
failure that defeats it, so that the run shows there is no other.

`hub` (`MCHub.cfg`): one request of each kind, any of which may die at any await.
What is in the graph passed the pre-audit, came from a node that an admin had
admitted, and was found pending by an approval (`VettedOnly`); from a node that stays
blocked or rejected comes nothing but what was in flight, at most one entry for each
push (`ClosedDrains`).

`listing` (`MCQueueListing.cfg`): an admin walks through five entries in pages of two.
`OverlookedAreDeparted` bounds what the walk can miss of the entries that were pending
all along: each entry decided meanwhile moves the rest up by one, and each entry
committed between the count and the rows may make a full page look like the last.  Of
entries that share their `created_at` it promises nothing: they may change places between
two pages (`crud.py:179`).

`delta_safety` (`MCDeltaSync_safety.cfg`): one node pulls pages of one or two
entities, or asks for none, while two requests commit and fail; a response holds one
entity and one relation at most, so that `DoesNotFit` occurs (in the code a pull may ask
for 10000 entities and a `KnowledgeBundle` holds 5000), also with a type that no `Triple`
accepts.  `NothingElseIsLost` says
exactly what a node can miss: entities that a commit wrote behind the time the
node has seen (a commit takes its time before it writes), and entities tied with
the end of a page that said `has_more` (the cursor is strict, and all elements of
a commit share one time).  The node names the domain in its pulls, or no domain; one
that names it is given entities of it only, which no later commit moves to another
domain (`ReceivedIsWanted`).  An entity first written as the end of a relation has no
domain and gets none later, so that no pull with a filter ever returns it; the
properties say so by asking for what matches.  `RelationsAreGiven` is about the second
query: it takes every relation of a subject whatever its time, so that of an entity the
node was given it misses only relations written after that query.

`service` (`Service.cfg`): the process starts, serves and ends at any moment; the
periodic sync and one of an admin overlap, are refused, fail or are killed, over
two files and two commits of the registry.  The hub serves again and again with
Neo4j down (`StartsWithoutGraph`), the periodic task survives whatever
`sync_registry` raises (`PeriodicGoesOn`), a checkout that git may use is whole
(`CheckoutIsWhole`), no file goes or gets older (`CacheAdvances`), and the
checkout catches up with the registry unless it is `Stuck` (`CatchesUp`).  It can
get stuck: a killed clone leaves a `.git` without a commit, a killed checkout an
`index.lock`, and nothing in the code removes either.

### Where code and documentation disagree

| Run | What happens |
|---|---|
| `review_race` | Two reviews of one entry overlap: both found it pending, both write without a condition, the later write wins, and an approved entry may end rejected with its content in the graph. |
| `review_partial` | An approval fails between two statements: content of a pending entry is in the graph, is served by pulls, and stays when the entry is rejected. |
| `gate_unblock` | A push of the node strikes, reads the strikes and decides; an unblock resets the flag; the push sets it again; the unblock clears the strikes and returns. The node is blocked and has no strikes. |
| `delta_triples` | A node that names no domains pulls a relation and its two ends; then a relation between the same two is approved; the next pull finds no entity, returns an empty page that says it has no more, and the relation is in no response. |

Smaller ones that have no run of their own are in the hazards: `run_pre_audit` reports
`heuristic_ok = False` when it skips the heuristics, so the category "syntax" is never used
and a format error weighs 3, while `abuse.py:35` calls it harmless; two accepts of one node
that overlap hand out two keys, of which the one stored first does not work; blocking
a node that is not registered answers "blocked" and changes nothing; a rejected node
that asks again gets a 500 for ever, as `create_node` violates the unique
`node_id`; `reject_node_handshake` also rejects accepted nodes; a bundle that
names an entity twice is credited twice, as `created` compares `approved_at`
after the MERGE; an automatic block never ends although the settings speak of a
24h soft-block; a failed `init_schema` is logged as "will retry" but is tried
again only by the next start of the process.

### Bounds

* `MaxCommits = 2`, two requests, two entries: every property relates at most two
  approvals, or an approval and a rejection, of one entry or of two that overlap.
  Three requests add a third copy of the same races.
* Bundles have one or two statements (one in `delta_safety` and `sync_fair`, where two
  commits of one statement each already overlap), so that there is a state between two
  statements, and an entity of one is the end of a relation of the other.
* `Keys` has three members: two overlapping accepts and one after them.
* `gate_safety`: `MaxPushes = 4`, `Soft = 1`, `Rate = 1`, `Hard = 6`: a format error
  weighs 3 as a security strike, so two pushes reach the hard limit, while two others
  overlap them or come later, and one push reaches the soft limit and the rate.
* `gate_unblock`: two requests, one push beside one unblock, and `Hard = 3`, so that one
  strike blocks.
* `hub`: two pushes, one passing and one not, `Hard = 3`, so that one strike blocks; two
  entries and one commit.  The requests of the three parts are the concurrency here; two
  requests of one part are checked in the runs of that part.
* `listing`: five entries in pages of two make three pages, of which two can shift.
* `sync_fair`: pages of one and of two entities with responses of one, commits of one or
  two, and types of both kinds, so that full pages, ties, slips and responses that cannot
  be built occur.
* `Domains = {general}` in `delta_safety`, none in `sync_fair` and `delta_triples`: a
  filter tells only whether an entity's domain is in its list, so an entity with another
  domain is to it as one with null, which `Given` of the safety run contains.
* `MaxLimit = 2`, `MaxBundle = 1`, `Limits = {0, 1, 3}` in `delta_safety`: an empty page
  that says `has_more`, a full page, a cut page, a limit above the cap, and a response
  that does not fit.
* Entries, requests and keys are interchangeable, so the safety runs use symmetry;
  `gate_safety`, `sync_fair` and `service`, which check liveness, do not.
* The code may stop in any state where no request is running, so deadlock is not
  checked.

### Fairness

`WF_vars(Continue(r))`: the event loop resumes a coroutine whose await has
completed, and every await of a handler is a call to a store that answers or
raises.  `WF` of the expiry actions in `PushGate`: Valkey removes a key whose
time-to-live is over.  In `Service`: the container is restarted, PostgreSQL does
not fail at every start, a thread goes on, the periodic task's sleep ends, a URL is
configured and git can be started now and then (`SF` of `Choose`), and the registry
is not out of reach each time git asks for it (`SF` of the fetches); nothing is assumed
of Neo4j.  In `FairSyncSpec` (run `sync_fair`) the remote node goes on
pulling, as its schedule makes it (`WF` of `StartPull`), and not every response is lost
(`SF` of `QueryRelations` and `Deliver`).  No other request has to arrive and no admin
has to do anything.

## Proofs

The theorems hold for all values of the constants that satisfy the assumptions the
modules declare: all nodes, entries, keys, requests, bundles, page sizes and bounds,
with and without failures.

| Module | Theorem | Statement |
|---|---|---|
| `AuditReviewProofs` | `TypeCorrect` | `Spec => []TypeOK` |
| | `ApprovedPublished` | `Spec => []ApprovedIsPublished` |
| | `PublishedSanctioned` | `Spec => []PublishedIsSanctioned` |
| | `LogAgrees` | `Spec => []LogAgreesWithQueue` |
| | `DecisionsSettle` | `Spec => DecisionSettles` |
| | `PipelineImplementsLedger` | `Spec => ImplementsLedger` |
| | `AvailableCommitted` | `Failures = FALSE`: `Spec => []AvailableIsCommitted` |
| | `CreditOwned` | `NamesOnce`: `Spec => []CreditIsOwned` |
| `HandshakeProofs` | `HandshakeTyped` | `Spec => []TypeOK` |
| | `OnlyAdmittedEnter` | `Spec => []AuthenticatesAdmitted` |
| | `KeyKept` | `Spec => []KeyIsSomewhere` |
| | `AnswersRecorded` | `Spec => []AnswerIsRecorded` |
| | `RegistrationKept` | `Spec => RegistrationSurvives` |
| | `RejectionKept` | `Spec => RejectionIsFinal` |
| | `KeyStandsFirm` | `Spec => KeyStands` |
| | `HandshakeImplementsAdmission` | `Spec => ImplementsAdmission` |
| `PushGateProofs` | `GateTyped` | `Spec => []TypeOK` |
| | `NobodyEscapes` | `Spec => []NoEscape` |
| | `WindowIsCapped` | `Spec => []WindowCap` |
| | `LimitedFew` | `Spec => []LimitedCap` |
| | `CountersAllEnd` | `Spec => []CountersEnd` |
| | `UnblocksSettle` | `Spec => UnblockSettles` |
| `HubProofs` | `HubIsGate` | `HubSpec => Spec` |
| | `HubTyped` | `HubSpec => []HubTypeOK` |
| | `GraphVetted` | `HubSpec => []VettedOnly` |
| | `ShutOutDrains` | `HubSpec => ClosedDrains` |
| | `HubWindowCap`, `HubCountersEnd` | `HubSpec => []WindowCap`, `HubSpec => []CountersEnd` |
| | `HubNobodyEscapes` | `HubSpec => []NoEscape` |
| | `HubUnblocksSettle` | `HubSpec => UnblockSettles` |
| | `HubImplementsLedger`, `HubImplementsAdmission` | `HubSpec => Q!ImplementsLedger`, `HubSpec => H!ImplementsAdmission` |
| `DeltaSyncProofs` | `SyncTyped` | `SyncSpec => []SyncTypeOK` |
| | `NothingElseLost` | `SyncSpec => []NothingElseIsLost` |
| | `ReceivedWanted` | `SyncSpec => []ReceivedIsWanted` |
| | `RelationsGiven` | `SyncSpec => []RelationsAreGiven` |
| | `SyncIsReview` | `SyncSpec => Spec` |
| | `SyncAvailableCommitted` | `Failures = FALSE`: `SyncSpec => []AvailableIsCommitted` |
| | `SyncImplementsLedger` | `SyncSpec => ImplementsLedger` |
| `ServiceProofs` | `ServiceTyped` | `Spec => []TypeOK` |
| | `CheckoutWhole` | `Spec => []CheckoutIsWhole` |
| | `CacheOnlyAdvances` | `Spec => CacheAdvances` |
| `QueueListingProofs` | `ListingTyped` | `Spec => []TypeOK` |
| | `OverlookedFew` | `Spec => []OverlookedAreDeparted` |

**Review.**  `ApprovedIsPublished` is not inductive: `MarkApproved` looks at a
counter, not at the graph.  The inductive invariant `ReviewInv` adds `QueueAudited`
(a queued bundle has allowed predicates only, so that no statement is skipped) and
`CallOK` for each request: an approval at statement `next` has merged everything the
statements before it name, and its entry is sanctioned.  It is preserved because the
graph, the queue and `sanctioned` only grow (lemma `StepGrows`) and a row keeps
bundle and origin.  The refinement follows from the same invariant: `MergeStatement`
is `Publish`, `MarkApproved` is `Approve`, `StartApprove` is `Sanction`,
`MarkRejected` is `Reject`, `QueueEntry` is `Submit`, and the remaining actions
stutter.

**Credit.**  `CreditInv` says what a commit counts: an approval has counted no more than
the keys among its statements so far that stand in the graph with its own time
(`Made`), no two approvals under way share that time, and what none of them has made
(`Accounted`) covers the credit given before.  `CreditNode` then moves a set of keys from
`Made` to `Accounted`, which are disjoint.  The theorem assumes `NamesOnce`, that a
bundle names an element once: without it the claim is false of the code
(`graph.py:79`), and the bundles of the run satisfy it.

**Handshake.**  Not even `TypeOK` is inductive: that a lost key was drawn follows
from what a request still holds.  `CallsOK` says so: a request with a key drew it for
a pending, registered node.  Lemma `RowChanges` lists the three ways a row changes,
and the theorems go through these.  The refinement needs one more invariant, `KeysOK`:
a key that a request holds is held by that request only, and is neither told nor lost.
`InsertNode` is `Apply`, `StartAccept` is `Draw`, `StoreKey` is `Admit`, `RespondKey` is
`Tell`, `StoreReject` is `Refuse` or, where its session had loaded a rejected row,
nothing, a `Fail` with a key in hand is `Lose`, and the remaining actions stutter.

**Pull.**  `SyncInv` is `ReviewInv`, kept by the pipeline's steps as in
`AuditReviewProofs`, the property itself, and `FlightOK` for each pull in flight: an
entity it knew of, newer than its cursor and not in its page, is left out because the
page was full of earlier ones.  A label stays once it is given (`LabelsStay`), so that
what a page matched still matches when it is delivered.  This needs that the graph is finite (`GraphFinite`),
as `LIMIT` is about cardinalities, and that a page has a latest time
(`LatestExists`).  `RelationsAreGiven` needs `RelationsRead` of each pull about to
respond: what it is missing of the relations that start in its page was written since they
were read.  As a pull writes nothing the review reads, `SyncSpec` implies `Spec`
(`SyncIsReview`), and with it all that is proved of `AuditReview`.

**Gate.**  None of the properties is inductive, as each request has read its counters
at another time.  `NoEscape` needs `Watched(n)`: a node at or above the hard limit is
blocked, or some request is on its way to block it or to take its strikes away, or has
died there.  On its way is a request that has read no less than what the categories
before its next one hold now, which later deletions and expiries only make easier, and
a request that strikes starts reading anew.  `WindowCap` and `LimitedCap`
follow from `Capped(n)`: a request about to send SETEX is yet to be admitted once and
yet to make room for `Rate` pushes, so that what was admitted and what the late requests
may still make room for stay within the cap.  The late requests are counted, which is
why `Requests` is assumed finite.  `CountersEnd` is an
invariant of the keys one by one: an EXPIRE, a DEL and an expiry end it, an INCR of an
absent key is followed by its EXPIRE.  `UnblockSettles` follows from `Settled(r)` of each
running unblock: since the flag was reset only a push beside it has set it to "auto", and
a category deleted so far holds a strike only if a push has struck it beside the unblock.
Other unblocks, admins, expiries and failures only help.

**Hub.**  The theorems of the parts hold of the whole: each step of `HubNext` is a step
of a part and leaves the variables of the others alone, so `HubSpec` implies the `Spec`
of `PushGate`, of `Handshake` and of `AuditReview` (`HubIsGate`, lemmas `HubRegistry` and
`HubReview`).  `HubProofs` instances the proof modules of the parts with the
substitutions of `Hub` and cites their theorems; `PartsAssumption` is what they assume
of their constants.  `VettedOnly` then needs only what the parts do not know: that a
bundle in the queue passed the gate under the name of a node with a key
(`GraphVetted`).  `ClosedDrains` is proved action by action.

**Registry.**  `CheckoutInv` says what the lock gives: one writer, which goes
forward from the commit HEAD names, and one clone, in an empty directory.

**Listing.**  An entry that shares its time with no other has one rank, whatever order a
query puts the others in: it is among the first `count` if and only if its rank is
(`FirstByRank`).  A decision moves the ranks behind it up by one, a commit moves ranks
down, and a page shows what lies between two counts.  So only a decision brings such an
entry, not shown by the walk, into the ranks it has left behind, and one at most: `WalkOK`
bounds their number (`Behind`) by `departed`.  The walk ends at a page that is not full,
behind which nothing is left, or at one that reaches `total`, behind which there are at
most the entries committed since the count (`late`).

Only model-checked: the liveness properties (`StrikesLapse`, `WindowCloses`,
`PeriodicGoesOn`, `CatchesUp`, `StartsWithoutGraph`, `SanctionedGetsCommitted`,
`PullsCatchUp`), which need fairness and ENABLED and are out of the prover's reach.  Every
other property of the passing runs is stated by a theorem.

## Not modelled

* Statistics: separate counts for display, which write nothing and of which the
  repository promises nothing that could be checked.
* The SSRF guard of the version fetch, the admin key, the pattern scan: pure
  predicates on strings.
* The listing of nodes, the view of one entry, `verify`, `confirm`, health: they read, or
  do nothing.
* The connection pool, alembic, container and publish scripts.

## Plan

1. `AuditReview`, `ReviewLedger`, `AuditReviewProofs`: done.
2. `Handshake`, `PreAudit`, `PushGate`, `DeltaSync` with their runs: done.
3. `Service`: start-up, the periodic task and the git cache of the registry: done.
4. `Hub`, the composition, and `QueueListing`: done.
5. Proofs of every invariant, action property and refinement the runs check: done.
6. Left: a gate that is seen abstractly as a quota per window and a verdict on strikes,
   and `PushGate` shown to implement it; the two accepts that both answer with a key as a
   run of its own.
