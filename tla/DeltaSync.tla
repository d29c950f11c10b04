----------------------------- MODULE DeltaSync -----------------------------
(***************************************************************************)
(* GET /v1/federation/pull beside the review pipeline: while approvals     *)
(* commit bundles statement by statement, nodes pull what was approved     *)
(* after the time they know, in pages.                                     *)
(*                                                                         *)
(* `graph.pull_since` makes two queries with an await between them: one    *)
(* page of entities, then the relations that start at an entity of the     *)
(* page.  The remote node is external: it asks for the same domains every  *)
(* time, continues from the latest approved_at it has been given, and      *)
(* makes one pull at a time.                                               *)
(***************************************************************************)
EXTENDS AuditReview

CONSTANTS
    Pullers,    \* the nodes that pull
    Domains,    \* knowledge domains
    NoDomain,   \* the domain is null
    Given,      \* the domains that entities of the bundles come with
    Typings,    \* whether the type an entity comes with is one a Triple accepts
    Limits,     \* values of `limit` a node may ask for
    MaxLimit,   \* the cap on it (10000)
    MaxBundle   \* entities, and relations, a KnowledgeBundle may hold (5000)

ASSUME PullersAssumption == Pullers \subseteq Nodes
ASSUME DomainsAssumption ==
    NoDomain \notin Domains /\ Given # {} /\ Given \subseteq Domains \cup {NoDomain}
ASSUME TypingsAssumption == Typings # {} /\ Typings \subseteq BOOLEAN
ASSUME PullLimitsAssumption ==
    Limits \subseteq Nat /\ MaxLimit \in Nat \ {0} /\ MaxBundle \in Nat \ {0}

VARIABLES
    domain,     \* Neo4j: the domain of each entity
    untyped,    \* Neo4j: entities whose type is null, no string or too long
    wanted,     \* the labels each node's `domains` lets through
    cursor,     \* the `last_sync` a node sends; 0: it has never pulled
    received,   \* the elements a node has been given
    pulls,      \* where each node's pull stands, and its local variables
    slipped,    \* history: entities the cursor has passed for a known reason
    overtaken   \* history: relations written after those of their subject were read

pullVars == <<domain, untyped, wanted, cursor, received, pulls, slipped, overtaken>>
allVars == <<vars, pullVars>>

-----------------------------------------------------------------------------

\* MATCH (e:Entity) and MATCH ()-[r]->().
Entities(g) == DOMAIN g \cap Names
Triples(g) == DOMAIN g \ Names

Labels == Domains \cup {NoDomain}

\* No `domains` lets everything through; a list never matches null.
Filters == {Labels} \cup (SUBSET Domains \ {{}})

NoPull == [pc |-> "idle"]
Pulls == {NoPull} \cup
    [pc : {"relations", "respond"}, since : 0..MaxCommits, limit : Nat,
     page : SUBSET Names, triples : SUBSET (Elements \ Names), known : SUBSET Elements]

PullInit ==
    /\ domain = [x \in {} |-> x]
    /\ untyped = {}
    /\ wanted \in [Pullers -> Filters]
    /\ cursor = [n \in Pullers |-> 0]
    /\ received = [n \in Pullers |-> {}]
    /\ pulls = [n \in Pullers |-> NoPull]
    /\ slipped = [n \in Pullers |-> {}]
    /\ overtaken = [n \in Pullers |-> {}]

Pulling(n, pc) == pulls[n].pc = pc
EndPull(n) == pulls' = [pulls EXCEPT ![n] = NoPull]

\* e.domain IN $domains
Matches(n, x) == domain[x] \in wanted[n]

\* e.approved_at > $since; every time is later than none.
NewSince(n) == {x \in Entities(graph) : graph[x].at > cursor[n] /\ Matches(n, x)}

\* As much as the limit lets through.
Sized(found, limit) ==
    {S \in SUBSET found :
        Cardinality(S) = IF Cardinality(found) < limit THEN Cardinality(found) ELSE limit}

\* Mutant: LIMIT without ORDER BY.
PagesUnordered(n, limit) == Sized(NewSince(n), limit)

\* ORDER BY e.approved_at ASC LIMIT $limit: ties are in no particular order.
Pages(n, limit) ==
    {S \in Sized(NewSince(n), limit) :
        \A x \in S, y \in NewSince(n) \ S : graph[x].at <= graph[y].at}

HasMore(c) == Cardinality(c.page) >= c.limit

\* The latest approved_at of a page.
PageEnd(c) == CHOOSE t \in {graph[x].at : x \in c.page} :
                 \A x \in c.page : graph[x].at <= t

-----------------------------------------------------------------------------
(* The pull.  Authentication is modelled in Handshake and PushGate.         *)

\* The entity query.  An empty page needs no second query.  `known` is history:
\* what the graph held.
QueryEntities(n, limit) ==
    /\ Pulling(n, "idle")
    /\ \E page \in Pages(n, limit) :
          pulls' = [pulls EXCEPT ![n] =
                       [pc |-> IF page = {} THEN "respond" ELSE "relations",
                        since |-> cursor[n], limit |-> limit, page |-> page,
                        triples |-> {}, known |-> DOMAIN graph]]
    /\ UNCHANGED <<vars, domain, untyped, wanted, cursor, received, slipped, overtaken>>

\* Mutants: OPTIONAL MATCH also returns entities without a relation; the relations
\* are filtered by time, too.
StartingAtStubs(n) == pulls[n].page \cup {x \in Triples(graph) : x[1] \in pulls[n].page}
StartingAtNew(n) ==
    {x \in Triples(graph) : x[1] \in pulls[n].page /\ graph[x].at > pulls[n].since}

\* The relation query: subjects of the page, whatever the relation's own approved_at.
StartingAt(n) == {x \in Triples(graph) : x[1] \in pulls[n].page}

QueryRelations(n) ==
    /\ Pulling(n, "relations")
    /\ pulls' = [pulls EXCEPT ![n].pc = "respond",
                              ![n].triples = StartingAt(n)]
    /\ UNCHANGED <<vars, domain, untyped, wanted, cursor, received, slipped, overtaken>>

\* last_pull_at and the sync line (not kept) are written; then the response
\* must fit a KnowledgeBundle: no list too long, and both types of every relation,
\* which are those of its ends in the graph, accepted by a Triple.
Fits(c) ==
    /\ Cardinality(c.page) <= MaxBundle
    /\ Cardinality(c.triples) <= MaxBundle
    /\ \A x \in c.triples : x[1] \notin untyped /\ x[3] \notin untyped

\* Entities the node asks for, at or before the new cursor, that it has not been
\* given: written after the query, or tied with the end of a page that has more.
PassedOver(n, c, end) ==
    {x \in Entities(graph) \ (received[n] \cup c.page) :
        /\ Matches(n, x)
        /\ graph[x].at <= end
        /\ x \notin c.known \/ (HasMore(c) /\ graph[x].at = end)}

Deliver(n) ==
    /\ Pulling(n, "respond")
    /\ Fits(pulls[n])
    /\ LET c == pulls[n]
           end == IF c.page = {} THEN c.since ELSE PageEnd(c)
       IN  /\ received' = [received EXCEPT ![n] = @ \cup c.page \cup c.triples]
           /\ cursor' = [cursor EXCEPT ![n] = end]
           /\ slipped' = [slipped EXCEPT ![n] = @ \cup PassedOver(n, c, end)]
    /\ EndPull(n)
    /\ UNCHANGED <<vars, domain, untyped, wanted, overtaken>>

\* The ValidationError is not caught: the node gets a 500.
DoesNotFit(n) ==
    /\ Pulling(n, "respond")
    /\ ~Fits(pulls[n])
    /\ EndPull(n)
    /\ UNCHANGED <<vars, domain, untyped, wanted, cursor, received, slipped, overtaken>>

\* The request dies, or its response is lost on the network, whether requests
\* of the hub fail or not: the node keeps its cursor.
LosePull(n) ==
    /\ ~Pulling(n, "idle")
    /\ EndPull(n)
    /\ UNCHANGED <<vars, domain, untyped, wanted, cursor, received, slipped, overtaken>>

\* min(limit, 10000).  A limit of 0 finds an empty page; with a negative one the
\* query fails, and nothing changes.
StartPull(n) ==
    \E limit \in Limits : QueryEntities(n, IF limit < MaxLimit THEN limit ELSE MaxLimit)

PullStep(n) ==
    \/ StartPull(n)
    \/ QueryRelations(n)
    \/ Deliver(n)
    \/ DoesNotFit(n)
    \/ LosePull(n)

Created == Entities(graph') \ Entities(graph)

\* An entity's own statement is the one that runs.
ByEntityStatement ==
    \E r \in Requests :
        /\ At(r, "merge")
        /\ requests'[r] # requests[r]
        /\ IsEntity(BundleOf(requests[r].entry), requests[r].next)

\* Mutant: SET e.domain without ON CREATE.
LabelAgain ==
    \E label \in Given :
        domain' = [x \in Entities(graph') |->
                      IF ByEntityStatement THEN label
                      ELSE IF x \in Created THEN NoDomain ELSE domain[x]]

\* ON CREATE SET e.domain is in the statement of an entity, which may come with
\* a null; the statement of a relation creates its ends without one.
Label ==
    \E label \in IF ByEntityStatement THEN Given ELSE {NoDomain} :
        domain' = [x \in Entities(graph') |-> IF x \in Created THEN label ELSE domain[x]]

\* ON CREATE SET e.type: an entity's own statement takes whatever the bundle says,
\* in which entities are not validated; that of a relation has the types of a Triple.
TypeCreated ==
    \E accepted \in IF ByEntityStatement THEN Typings ELSE {TRUE} :
        untyped' = IF accepted THEN untyped ELSE untyped \cup Created

\* The entities whose relations a node has been given, or is about to be.
Read(n) == received[n] \cup IF Pulling(n, "respond") THEN pulls[n].page ELSE {}

\* A step of the review pipeline; what it writes behind a cursor has slipped, what
\* it writes behind a relation query is overtaken.
ReviewStep ==
    /\ Next
    /\ Label
    /\ TypeCreated
    /\ slipped' = [n \in Pullers |->
                      slipped[n] \cup {x \in Created : graph'[x].at <= cursor[n]}]
    /\ overtaken' = [n \in Pullers |->
                        overtaken[n] \cup
                            {x \in Triples(graph') \ Triples(graph) : x[1] \in Read(n)}]
    /\ UNCHANGED <<wanted, cursor, received, pulls>>

SyncInit == Init /\ PullInit
SyncNext == ReviewStep \/ \E n \in Pullers : PullStep(n)
SyncSpec == SyncInit /\ [][SyncNext]_allVars

\* The event loop resumes the requests; every node goes on pulling, and not all
\* of its pulls or their responses get lost.
FairSyncSpec ==
    /\ SyncSpec
    /\ \A r \in Requests : WF_allVars(ReviewStep /\ Continue(r))
    /\ \A n \in Pullers :
          /\ WF_allVars(StartPull(n))
          /\ WF_allVars(DoesNotFit(n))
          /\ SF_allVars(QueryRelations(n))
          /\ SF_allVars(Deliver(n))

-----------------------------------------------------------------------------
(* Properties.                                                             *)

\* The review pipeline's types, and those of the pulls.
SyncTypeOK ==
    /\ TypeOK
    /\ domain \in [Entities(graph) -> Labels]
    /\ untyped \subseteq Entities(graph)
    /\ wanted \in [Pullers -> Filters]
    /\ cursor \in [Pullers -> 0..MaxCommits]
    /\ received \in [Pullers -> SUBSET DOMAIN graph]
    /\ pulls \in [Pullers -> Pulls]
    /\ slipped \in [Pullers -> SUBSET Entities(graph)]
    /\ overtaken \in [Pullers -> SUBSET Triples(graph)]

\* A node that continues from the latest time it was given misses no entity of
\* the domains it asks for, except what a commit wrote behind that time, and what
\* tied with the end of a page that said has_more: pages, lost responses and
\* commits may interleave.  An entity first written as the end of a relation has
\* no domain: a node that names domains is not promised it.
NothingElseIsLost ==
    \A n \in Pullers : \A x \in Entities(graph) :
        graph[x].at <= cursor[n] /\ Matches(n, x) => x \in received[n] \cup slipped[n]

\* Every entity a node was given has, whatever is committed later, a domain the
\* node asks for: an entity is never moved to another domain once it was served.
ReceivedIsWanted ==
    \A n \in Pullers : \A x \in received[n] \cap Names : Matches(n, x)

\* A node has every relation that starts at an entity it was given, also one whose own
\* time is before its cursor, except what a commit wrote after the relations of that
\* entity had been read: the two queries, pages and commits may interleave.
RelationsAreGiven ==
    \A n \in Pullers : \A x \in Triples(graph) :
        x[1] \in received[n] => x \in received[n] \cup overtaken[n]

\* A node that goes on pulling with positive limits, in the end with pages whose
\* response can be built (neither too long nor with a relation of an entity without an
\* accepted type), is given every entity of the domains it asks for but those that
\* slipped: no lost response, page boundary or running commit keeps its cursor from
\* moving on.
PullsCatchUp ==
    \A n \in Pullers :
        <>[](Pulling(n, "respond") => Fits(pulls[n])) =>
            \A x \in Names :
                (x \in Entities(graph) /\ Matches(n, x)) ~> x \in received[n] \cup slipped[n]

\* "Pull approved triples created after a given timestamp": with a response that
\* has no more a node has every triple that was there and newer than last_sync, if it
\* asks for the domain of the subject.
TriplesAreDelivered ==
    \A n \in Pullers : LET c == pulls[n] IN
        Pulling(n, "respond") /\ ~HasMore(c) =>
            \A x \in c.known \cap Triples(graph) :
                graph[x].at > c.since /\ Matches(n, x[1]) => x \in c.triples \cup received[n]

=============================================================================
