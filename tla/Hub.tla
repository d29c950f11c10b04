-------------------------------- MODULE Hub --------------------------------
(***************************************************************************)
(* The whole way of a bundle: a node is registered and accepted            *)
(* (Handshake), authenticates and pushes (PushGate), what passes is queued,*)
(* reviewed and merged into the graph (AuditReview), while admins block,   *)
(* unblock and reject nodes.                                               *)
(*                                                                         *)
(* The parts share no transaction.  They meet in two places: the           *)
(* dependency `get_current_node` lets a push in if the handshake is        *)
(* accepted and the node not blocked, and `push_knowledge` goes on from    *)
(* the pre-audit to the queue in the same request.                         *)
(***************************************************************************)
EXTENDS PushGate

CONSTANTS
    Registrars,     \* concurrent requests of the handshake
    Reviewers,      \* concurrent requests that review
    Keys, NoKey,    \* as in Handshake
    Entries, Names, RawPredicates, Upper, Allowed, MaxCommits,  \* as in AuditReview
    Stored,         \* the bundles as the queue stores them
    Knowledge       \* bundle_data of a pushed bundle

VARIABLES rows, answers, shared, drawn, issued, lost, calls

VARIABLES queue, graph, stats, synclog, tasks, clock, sanctioned

H == INSTANCE Handshake WITH
    Requests <- Registrars, requests <- calls, admitted <- issued

Q == INSTANCE AuditReview WITH
    Requests <- Requests \cup Reviewers, requests <- tasks, Bundles <- Stored

ASSUME ReviewersAssumption == Requests \cap Reviewers = {}

\* What Handshake and AuditReview assume of their constants.
ASSUME PartsAssumption ==
    /\ NoKey \notin Keys
    /\ Upper \in [RawPredicates -> STRING]
    /\ Stored \subseteq [origin : Nodes, entities : Seq(Names), relations : Seq(Q!Relations)]
    /\ MaxCommits \in Nat

\* A stored bundle says what the pushed one said; stage_2_heuristics has checked
\* the predicates.
ASSUME KnowledgeAssumption ==
    /\ Knowledge \in [Pushed -> Stored]
    /\ \A b \in Pushed : run_pre_audit(b).passed => Q!PredicatesAllowed(Knowledge[b])

registryVars == <<rows, answers, shared, drawn, issued, lost, calls>>
reviewVars == <<queue, graph, stats, synclog, tasks, clock, sanctioned>>
hubVars == <<vars, registryVars, reviewVars>>

HubInit == Init /\ H!Init /\ Q!Init

-----------------------------------------------------------------------------

\* Mutant: the next push starts when the last one is out of the gate.
FreeAfterGate(r) == At(r, "idle")

\* A request of the gate is one coroutine, before and after it has queued.
Free(r) == At(r, "idle") /\ Q!At(r, "idle")

\* get_current_node: the key is that of an accepted node, which is not blocked.
Authenticate(r) ==
    /\ Free(r)
    /\ \E n \in Nodes, k \in Keys, b \in Pushed :
          H!Authenticates(n, k) /\ StartPush(r, n, b)
    /\ UNCHANGED <<registryVars, reviewVars>>

\* The audit entry is created in the name of the authenticated node.
PassAndQueue(r) ==
    /\ PassAudit(r)
    /\ \E e \in Entries :
          Q!QueueEntry(r, Node(r), Knowledge[requests[r].bundle], e)
    /\ UNCHANGED registryVars

\* block_node and unblock_node name the node in the WHERE of an UPDATE, which
\* finds no row before the node has asked for a handshake.
Block(n) ==
    /\ n \in H!Registered
    /\ AdminBlock(n)
    /\ UNCHANGED <<registryVars, reviewVars>>

Unblock(r) ==
    /\ Free(r)
    /\ \E n \in H!Registered : StartUnblock(r, n)
    /\ UNCHANGED <<registryVars, reviewVars>>

GateStep(r) == (Command(r) \/ Fail(r)) /\ UNCHANGED <<registryVars, reviewVars>>

Tick(n) == Clock(n) /\ UNCHANGED <<registryVars, reviewVars>>

\* A review, or the end of a push that has queued its bundle.
ReviewStep(t) ==
    /\ \/ t \in Reviewers /\ \E e \in Entries : Q!StartApprove(t, e) \/ Q!StartReject(t, e)
       \/ Q!Continue(t)
       \/ Q!Fail(t)
    /\ UNCHANGED <<vars, registryVars>>

RegistryStep == H!Next /\ UNCHANGED <<vars, reviewVars>>

HubNext ==
    \/ \E r \in Requests : Authenticate(r) \/ PassAndQueue(r) \/ Unblock(r) \/ GateStep(r)
    \/ \E n \in Nodes : Block(n) \/ Tick(n)
    \/ \E t \in Requests \cup Reviewers : ReviewStep(t)
    \/ RegistryStep

HubSpec == HubInit /\ [][HubNext]_hubVars

-----------------------------------------------------------------------------
(* Properties.                                                             *)

\* The types of the three parts; no request is in two of them.
HubTypeOK ==
    /\ TypeOK /\ H!TypeOK /\ Q!TypeOK
    /\ \A r \in Requests : At(r, "idle") \/ Q!At(r, "idle")

\* All the graph holds went the whole way: it is in a bundle that passed the
\* pre-audit, was pushed by a node that an admin had accepted while it was
\* pending, and was found pending by an approval, whatever was blocked, rejected,
\* pushed or failed in between.
Vetted(bundle) == \E b \in Pushed : run_pre_audit(b).passed /\ Knowledge[b] = bundle
VettedOnly ==
    \A x \in DOMAIN graph : \E e \in sanctioned :
        /\ x \in Q!Content(queue[e].bundle)
        /\ graph[x].origin = queue[e].origin
        /\ Vetted(queue[e].bundle)
        /\ \E k \in Keys : <<queue[e].origin, k>> \in issued

\* Blocking or rejecting a node does not stop the pushes that are in flight, but
\* nothing else comes from it: as long as it stays so no push starts, each push
\* in flight queues at most one entry, and without one in flight no strikes.
Closed(n) == blocked[n] # "no" \/ (n \in H!Registered => rows[n].status # "accepted")
InFlight(n) == {r \in Requests : ~At(r, "idle") /\ ~At(r, "clear") /\ Node(r) = n}
Own(n) == {e \in DOMAIN queue : queue[e].origin = n}
ClosedDrains ==
    [][\A n \in Nodes : Closed(n) /\ Closed(n)' =>
          /\ InFlight(n)' \subseteq InFlight(n)
          /\ Own(n)' # Own(n) => InFlight(n)' # InFlight(n)
          /\ InFlight(n) = {} => Weighted(n)' <= Weighted(n)]_hubVars

=============================================================================
