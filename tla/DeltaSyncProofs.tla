-------------------------- MODULE DeltaSyncProofs --------------------------
(***************************************************************************)
(* Theorems about the delta pull, for all constants of DeltaSync.          *)
(*                                                                         *)
(* The steps of the review pipeline keep ReviewInv here as they do in      *)
(* AuditReviewProofs, and a pull does not touch the pipeline.  What is     *)
(* added is FlightOK: what a pull in flight knows of the entities newer    *)
(* than its cursor.                                                        *)
(***************************************************************************)
EXTENDS DeltaSync, AuditReviewProofs, WellFoundedInduction

-----------------------------------------------------------------------------
(* Ends of pages.                                                          *)

\* A bounded set of times that is not empty has a latest one.
LEMMA LatestExists ==
  ASSUME NEW m \in Nat, NEW S, S \subseteq 0 .. m, S # {}
  PROVE  \E t \in S : \A s \in S : s <= t
<1> DEFINE T == {m - s : s \in S}
           R == OpToRel(<, Nat)
<1>0. \A s \in S : s \in Int /\ m - s \in Nat /\ m - s \in T
  OBVIOUS
<1>1. T \subseteq Nat /\ T # {}
  BY <1>0
<1>2. PICK x \in T : \A y \in T : ~(<<y, x>> \in R)
  BY <1>1, NatLessThanWellFounded, WFMin
<1>3. \A y \in T : ~(y < x)
  BY <1>1, <1>2 DEF OpToRel
<1>4. PICK t \in S : x = m - t
  BY <1>2
<1>5. ASSUME NEW s \in S PROVE s <= t
  <2>1. ~(m - s < m - t)
    BY <1>0, <1>3, <1>4
  <2> QED
    BY <1>0, <2>1
<1> QED
  BY <1>5

\* What a page shows of the graph: all of what is new, or as much as was asked
\* for, the earliest first.
LEMMA PageShows ==
  ASSUME IsFiniteSet(DOMAIN graph), NEW n, NEW limit, NEW page \in Pages(n, limit)
  PROVE  /\ page \subseteq NewSince(n)
         /\ page = NewSince(n) \/ Cardinality(page) = limit
         /\ \A x \in page, y \in NewSince(n) \ page : graph[x].at <= graph[y].at
<1>1. /\ page \subseteq NewSince(n)
      /\ \/ Cardinality(page) = Cardinality(NewSince(n))
         \/ Cardinality(page) = limit
      /\ \A x \in page, y \in NewSince(n) \ page : graph[x].at <= graph[y].at
  BY DEF Pages, Sized
<1>2. IsFiniteSet(NewSince(n))
  <2>1. NewSince(n) \in SUBSET DOMAIN graph
    BY DEF NewSince, Entities
  <2> QED
    BY <2>1, FS_Subset
<1>3. Cardinality(page) = Cardinality(NewSince(n)) => page = NewSince(n)
  BY <1>1, <1>2, FS_Subset
<1> QED
  BY <1>1, <1>3

-----------------------------------------------------------------------------
(* The invariant.                                                          *)

PullCalls ==
    [pc : {"relations", "respond"}, since : 0..MaxCommits, limit : Nat,
     page : SUBSET Names, triples : SUBSET (Elements \ Names), known : SUBSET Elements]

\* A pull in flight started from the node's cursor, holds content of the graph
\* only, entities the node asks for, and leaves out a newer one of these it knew
\* of only when its page was full of earlier ones.
FlightOK(n) == ~Pulling(n, "idle") => LET c == pulls[n] IN
    /\ c.since = cursor[n]
    /\ c.page \cup c.triples \cup c.known \subseteq DOMAIN graph
    /\ \A x \in c.page : graph[x].at > c.since /\ Matches(n, x)
    /\ \A x \in c.known \cap Entities(graph) :
          graph[x].at > c.since /\ x \notin c.page /\ Matches(n, x)
              => HasMore(c) /\ \A y \in c.page : graph[y].at <= graph[x].at

SyncInv ==
    /\ ReviewInv
    /\ IsFiniteSet(DOMAIN graph)
    /\ SyncTypeOK
    /\ \A n \in Pullers : FlightOK(n)
    /\ NothingElseIsLost
    /\ ReceivedIsWanted

LEMMA InitSyncInv == SyncInit => SyncInv
<1> SUFFICES ASSUME SyncInit PROVE SyncInv
  OBVIOUS
<1>1. DOMAIN graph = {}
  BY DEF SyncInit, Init
<1>2. ReviewInv
  BY ReviewInit DEF SyncInit
<1>3. IsFiniteSet(DOMAIN graph)
  BY <1>1, FS_EmptySet
<1>4. SyncTypeOK
  <2>1. domain \in [Entities(graph) -> Labels]
    BY <1>1 DEF SyncInit, PullInit, Entities
  <2>2. TypeOK
    BY <1>2 DEF ReviewInv, Typing
  <2> QED
    BY <2>1, <2>2, MaxCommitsAssumption DEF SyncInit, PullInit, SyncTypeOK, Pulls
<1>5. \A n \in Pullers : FlightOK(n)
  BY DEF SyncInit, PullInit, FlightOK, Pulling, NoPull
<1>6. NothingElseIsLost
  BY <1>1 DEF NothingElseIsLost, Entities
<1>7. ReceivedIsWanted
  BY DEF SyncInit, PullInit, ReceivedIsWanted
<1> QED
  BY <1>2, <1>3, <1>4, <1>5, <1>6, <1>7 DEF SyncInv

\* A pull is one of the two kinds of record.
LEMMA PullKinds ==
  ASSUME SyncTypeOK, NEW n \in Pullers, ~Pulling(n, "idle")
  PROVE  pulls[n] \in PullCalls
<1>1. pulls[n] \in Pulls
  BY DEF SyncTypeOK
<1> QED
  BY <1>1 DEF Pulls, PullCalls, Pulling, NoPull

-----------------------------------------------------------------------------
(* Steps of the review pipeline.                                           *)

\* A label stays, and a node goes on asking for the same domains.
LabelsStay ==
    /\ \A x \in Entities(graph) : domain'[x] = domain[x]
    /\ wanted' = wanted

\* What a pull in flight holds stays right while the graph only grows.
LEMMA FlightGrows ==
  ASSUME SyncInv, Grows, LabelsStay, NEW n \in Pullers,
         pulls'[n] = pulls[n], cursor'[n] = cursor[n]
  PROVE  FlightOK(n)'
<1> SUFFICES ASSUME ~Pulling(n, "idle") PROVE FlightOK(n)'
  BY DEF FlightOK, Pulling
<1> DEFINE c == pulls[n]
<1>1. /\ c.since = cursor[n]
      /\ c.page \cup c.triples \cup c.known \subseteq DOMAIN graph
      /\ \A x \in c.page : graph[x].at > c.since /\ Matches(n, x)
      /\ \A x \in c.known \cap Entities(graph) :
            graph[x].at > c.since /\ x \notin c.page /\ Matches(n, x)
                => HasMore(c) /\ \A y \in c.page : graph[y].at <= graph[x].at
  BY DEF SyncInv, FlightOK
<1>2. /\ DOMAIN graph \subseteq DOMAIN graph'
      /\ \A x \in DOMAIN graph : graph'[x] = graph[x]
  BY DEF Grows
<1>3. c.known \cap Entities(graph') = c.known \cap Entities(graph)
  BY <1>1, <1>2 DEF Entities
<1>4. HasMore(c)' = HasMore(c)
  BY DEF HasMore
<1>5. c.page \subseteq Entities(graph)
  BY <1>1, PullKinds DEF SyncInv, PullCalls, Entities
<1>6. \A x \in Entities(graph) : Matches(n, x)' <=> Matches(n, x)
  BY DEF LabelsStay, Matches
<1> HIDE DEF c
<1> QED
  BY <1>1, <1>2, <1>3, <1>4, <1>5, <1>6 DEF FlightOK, HasMore, Matches, c

LEMMA PipelineKeeps ==
  ASSUME SyncInv, ReviewStep
  PROVE  SyncInv'
<1>0. /\ Typing /\ SyncTypeOK /\ Grows
      /\ UNCHANGED <<wanted, cursor, received, pulls>>
  BY StepGrows DEF SyncInv, ReviewInv, ReviewStep
<1>1. ReviewInv'
  BY ReviewKeeps DEF SyncInv, ReviewStep
<1>2. IsFiniteSet(DOMAIN graph')
  BY <1>0, GraphFinite DEF SyncInv, ReviewStep
<1>3. Entities(graph) \subseteq Entities(graph')
  BY <1>0 DEF Grows, Entities
<1>4. domain' \in [Entities(graph') -> Labels] /\ LabelsStay
  <2>1. PICK label \in IF ByEntityStatement THEN Given ELSE {NoDomain} :
          domain' = [x \in Entities(graph') |-> IF x \in Created THEN label ELSE domain[x]]
    BY DEF ReviewStep, Label
  <2>2. label \in Labels
    BY DomainsAssumption DEF Labels
  <2>3. domain \in [Entities(graph) -> Labels]
    BY <1>0 DEF SyncTypeOK
  <2> QED
    BY <1>0, <1>3, <2>1, <2>2, <2>3 DEF LabelsStay, Created
<1>5. SyncTypeOK'
  <2>1. received \in [Pullers -> SUBSET DOMAIN graph']
    BY <1>0 DEF SyncTypeOK, Grows
  <2>2. slipped' \in [Pullers -> SUBSET Entities(graph')]
    BY <1>0, <1>3 DEF SyncTypeOK, ReviewStep, Created
  <2>3. TypeOK'
    BY <1>1 DEF ReviewInv, Typing
  <2>4. untyped' \subseteq Entities(graph')
    BY <1>0, <1>3 DEF SyncTypeOK, ReviewStep, TypeCreated, Created
  <2>5. overtaken' \in [Pullers -> SUBSET Triples(graph')]
    <3>1. Triples(graph) \subseteq Triples(graph')
      BY <1>0 DEF Grows, Triples
    <3> QED
      BY <1>0, <3>1 DEF SyncTypeOK, ReviewStep
  <2> QED
    BY <1>0, <1>4, <2>1, <2>2, <2>3, <2>4, <2>5 DEF SyncTypeOK
<1>6. ASSUME NEW n \in Pullers PROVE FlightOK(n)'
  BY <1>0, <1>4, FlightGrows
<1>7. ASSUME NEW n \in Pullers, NEW x \in Entities(graph'), graph'[x].at <= cursor[n],
             Matches(n, x)'
      PROVE  x \in received[n] \cup slipped'[n]
  <2>1. CASE x \in Entities(graph)
    <3>1. graph'[x] = graph[x] /\ Matches(n, x)
      BY <1>0, <1>4, <1>7, <2>1 DEF Grows, Entities, LabelsStay, Matches
    <3>2. x \in received[n] \cup slipped[n]
      BY <1>7, <2>1, <3>1 DEF SyncInv, NothingElseIsLost
    <3> QED
      BY <3>2 DEF ReviewStep
  <2>2. CASE x \notin Entities(graph)
    BY <1>7, <2>2 DEF ReviewStep, Created
  <2> QED
    BY <2>1, <2>2
<1>8. NothingElseIsLost'
  BY <1>0, <1>7 DEF NothingElseIsLost
<1>9. ReceivedIsWanted'
  <2>1. \A n \in Pullers : received[n] \cap Names \subseteq Entities(graph)
    BY <1>0 DEF SyncTypeOK, Entities
  <2> QED
    BY <1>0, <1>4, <2>1 DEF SyncInv, ReceivedIsWanted, LabelsStay, Matches
<1> QED
  BY <1>1, <1>2, <1>5, <1>6, <1>8, <1>9 DEF SyncInv

-----------------------------------------------------------------------------
(* Steps of a pull.                                                        *)

\* The pipeline's part of the invariant does not look at pulls.
LEMMA PipelineStill ==
  ASSUME SyncInv, UNCHANGED vars
  PROVE  ReviewInv' /\ IsFiniteSet(DOMAIN graph') /\ TypeOK'
<1>1. ReviewInv'
  BY ReviewKeeps DEF SyncInv
<1> QED
  BY <1>1 DEF SyncInv, ReviewInv, Typing, vars

\* Other pulls, and what is not pulled, stay as they are.
LEMMA OthersFly ==
  ASSUME SyncInv, UNCHANGED <<vars, domain, wanted>>, NEW q \in Pullers,
         pulls'[q] = pulls[q], cursor'[q] = cursor[q]
  PROVE  FlightOK(q)'
<1>1. Grows /\ LabelsStay
  BY StepGrows DEF SyncInv, ReviewInv, LabelsStay
<1> QED
  BY <1>1, FlightGrows

\* A query that finds its page tells all that FlightOK asks for.
LEMMA QueryKeeps ==
  ASSUME SyncInv, NEW n \in Pullers, NEW limit \in Nat, QueryEntities(n, limit)
  PROVE  SyncInv'
<1>0. /\ SyncTypeOK /\ IsFiniteSet(DOMAIN graph)
      /\ UNCHANGED <<vars, domain, untyped, wanted, cursor, received, slipped, overtaken>>
  BY DEF SyncInv, QueryEntities
<1>1. PICK page \in Pages(n, limit) :
        pulls' = [pulls EXCEPT ![n] =
                     [pc |-> IF page = {} THEN "respond" ELSE "relations",
                      since |-> cursor[n], limit |-> limit, page |-> page,
                      triples |-> {}, known |-> DOMAIN graph]]
  BY DEF QueryEntities
<1> DEFINE c == [pc |-> IF page = {} THEN "respond" ELSE "relations",
                 since |-> cursor[n], limit |-> limit, page |-> page,
                 triples |-> {}, known |-> DOMAIN graph]
<1>2. /\ page \subseteq NewSince(n)
      /\ page = NewSince(n) \/ Cardinality(page) = limit
      /\ \A x \in page, y \in NewSince(n) \ page : graph[x].at <= graph[y].at
  BY <1>0, PageShows
<1>3. page \subseteq DOMAIN graph \cap Names
  BY <1>2 DEF NewSince, Entities
<1>4. c \in Pulls
  <2>1. /\ cursor[n] \in 0 .. MaxCommits
        /\ DOMAIN graph \in SUBSET Elements
    BY <1>0 DEF SyncTypeOK, TypeOK
  <2> QED
    BY <1>3, <2>1 DEF Pulls
<1>5. /\ pulls' \in [Pullers -> Pulls]
      /\ pulls'[n] = c
      /\ \A q \in Pullers \ {n} : pulls'[q] = pulls[q]
  BY <1>0, <1>1, <1>4 DEF SyncTypeOK
<1>6. FlightOK(n)'
  <2>1. \A x \in page : graph[x].at > cursor[n] /\ Matches(n, x)
    BY <1>2 DEF NewSince
  <2>2. ASSUME NEW x \in DOMAIN graph \cap Entities(graph),
               graph[x].at > cursor[n], x \notin page, Matches(n, x)
        PROVE  HasMore(c) /\ \A y \in page : graph[y].at <= graph[x].at
    <3>1. x \in NewSince(n) \ page
      BY <2>2 DEF NewSince
    <3>2. Cardinality(page) = limit
      BY <1>2, <3>1
    <3> QED
      BY <1>2, <3>1, <3>2 DEF HasMore
  <2>3. HasMore(c)' = HasMore(c)
    BY <1>0 DEF HasMore
  <2> QED
    BY <1>0, <1>3, <1>5, <2>1, <2>2, <2>3 DEF FlightOK, HasMore, Matches, vars
<1>7. \A q \in Pullers : FlightOK(q)'
  BY <1>0, <1>5, <1>6, OthersFly
<1>8. SyncTypeOK'
  BY <1>0, <1>5, PipelineStill DEF SyncTypeOK, vars
<1>9. NothingElseIsLost' /\ ReceivedIsWanted'
  BY <1>0 DEF SyncInv, NothingElseIsLost, ReceivedIsWanted, Matches, vars
<1> QED
  BY <1>0, <1>7, <1>8, <1>9, PipelineStill DEF SyncInv

LEMMA Queried ==
  ASSUME NEW c \in PullCalls, NEW T \in SUBSET (Elements \ Names)
  PROVE  LET d == [c EXCEPT !.pc = "respond", !.triples = T]
         IN  /\ d \in PullCalls /\ d.pc = "respond" /\ d.triples = T
             /\ d.since = c.since /\ d.limit = c.limit
             /\ d.page = c.page /\ d.known = c.known
  BY DEF PullCalls

LEMMA RelationsKeep ==
  ASSUME SyncInv, NEW n \in Pullers, QueryRelations(n)
  PROVE  SyncInv'
<1> DEFINE c == pulls[n]
           T == StartingAt(n)
           d == [c EXCEPT !.pc = "respond", !.triples = T]
<1>0. /\ SyncTypeOK /\ ~Pulling(n, "idle") /\ c \in PullCalls
      /\ UNCHANGED <<vars, domain, untyped, wanted, cursor, received, slipped, overtaken>>
  BY PullKinds DEF SyncInv, QueryRelations, Pulling
<1>1. T \in SUBSET (Elements \ Names) /\ T \subseteq DOMAIN graph
  BY <1>0 DEF StartingAt, Triples, SyncTypeOK, TypeOK
<1>2. /\ d \in PullCalls /\ d.pc = "respond" /\ d.triples = T
      /\ d.since = c.since /\ d.limit = c.limit
      /\ d.page = c.page /\ d.known = c.known
  BY <1>0, <1>1, Queried
<1>3. pulls' = [pulls EXCEPT ![n] = d]
  BY DEF QueryRelations
<1> HIDE DEF d, T
<1>4. /\ pulls' \in [Pullers -> Pulls]
      /\ pulls'[n] = d
      /\ \A q \in Pullers \ {n} : pulls'[q] = pulls[q]
  BY <1>0, <1>2, <1>3 DEF SyncTypeOK, Pulls, PullCalls
<1>5. FlightOK(n)'
  <2>1. HasMore(d) = HasMore(c)
    BY <1>2 DEF HasMore
  <2> QED
    BY <1>0, <1>1, <1>2, <1>4, <2>1 DEF SyncInv, FlightOK, HasMore, Matches, vars
<1>6. \A q \in Pullers : FlightOK(q)'
  BY <1>0, <1>4, <1>5, OthersFly
<1>7. SyncTypeOK'
  BY <1>0, <1>4, PipelineStill DEF SyncInv, SyncTypeOK, vars
<1>8. NothingElseIsLost' /\ ReceivedIsWanted'
  BY <1>0 DEF SyncInv, NothingElseIsLost, ReceivedIsWanted, Matches, vars
<1> QED
  BY <1>0, <1>6, <1>7, <1>8, PipelineStill DEF SyncInv

\* A pull that ends without an answer changes nothing the node has.
LEMMA EndKeeps ==
  ASSUME SyncInv, NEW n \in Pullers, EndPull(n),
         UNCHANGED <<vars, domain, untyped, wanted, cursor, received, slipped, overtaken>>
  PROVE  SyncInv'
<1>1. /\ pulls' \in [Pullers -> Pulls]
      /\ pulls'[n] = NoPull
      /\ \A q \in Pullers \ {n} : pulls'[q] = pulls[q]
  BY DEF SyncInv, SyncTypeOK, EndPull, Pulls
<1>2. \A q \in Pullers : FlightOK(q)'
  BY <1>1, OthersFly DEF FlightOK, Pulling, NoPull
<1>3. SyncTypeOK'
  BY <1>1, PipelineStill DEF SyncInv, SyncTypeOK, vars
<1>4. NothingElseIsLost' /\ ReceivedIsWanted'
  BY DEF SyncInv, NothingElseIsLost, ReceivedIsWanted, Matches, vars
<1> QED
  BY <1>2, <1>3, <1>4, PipelineStill DEF SyncInv

\* The end of a page is one of its times, and the latest.
LEMMA EndOfPage ==
  ASSUME SyncInv, NEW n \in Pullers, ~Pulling(n, "idle"), pulls[n].page # {}
  PROVE  /\ PageEnd(pulls[n]) \in 0 .. MaxCommits
         /\ \E y \in pulls[n].page : graph[y].at = PageEnd(pulls[n])
         /\ \A y \in pulls[n].page : graph[y].at <= PageEnd(pulls[n])
<1> DEFINE c == pulls[n]
           S == {graph[x].at : x \in c.page}
<1>1. \A x \in c.page : graph[x].at \in 0 .. MaxCommits
  <2>1. c.page \subseteq DOMAIN graph
    BY DEF SyncInv, FlightOK
  <2> QED
    BY <2>1 DEF SyncInv, SyncTypeOK, TypeOK, Stamps
<1>2. S \subseteq 0 .. MaxCommits /\ S # {}
  BY <1>1
<1>3. \E t \in S : \A s \in S : s <= t
  BY <1>2, LatestExists, MaxCommitsAssumption
<1>4. \E t \in S : \A x \in c.page : graph[x].at <= t
  BY <1>3
<1>5. PageEnd(c) \in S /\ \A x \in c.page : graph[x].at <= PageEnd(c)
  BY <1>4 DEF PageEnd
<1> QED
  BY <1>2, <1>5

LEMMA DeliverKeeps ==
  ASSUME SyncInv, NEW n \in Pullers, Deliver(n)
  PROVE  SyncInv'
<1> DEFINE c == pulls[n]
           end == IF c.page = {} THEN c.since ELSE PageEnd(c)
           over == PassedOver(n, c, end)
<1>0. /\ SyncTypeOK /\ ~Pulling(n, "idle") /\ c \in PullCalls
      /\ EndPull(n) /\ UNCHANGED <<vars, domain, untyped, wanted, overtaken>>
      /\ received' = [received EXCEPT ![n] = @ \cup c.page \cup c.triples]
      /\ cursor' = [cursor EXCEPT ![n] = end]
      /\ slipped' = [slipped EXCEPT ![n] = @ \cup over]
  BY PullKinds DEF SyncInv, Deliver, Pulling
<1>1. /\ c.since = cursor[n]
      /\ c.page \cup c.triples \cup c.known \subseteq DOMAIN graph
      /\ \A x \in c.page : Matches(n, x)
      /\ \A x \in c.known \cap Entities(graph) :
            graph[x].at > c.since /\ x \notin c.page /\ Matches(n, x)
                => HasMore(c) /\ \A y \in c.page : graph[y].at <= graph[x].at
  BY <1>0 DEF SyncInv, FlightOK
<1>2. end \in 0 .. MaxCommits
  BY <1>0, EndOfPage DEF PullCalls
<1>3. ASSUME NEW x \in Entities(graph), graph[x].at <= end, Matches(n, x)
      PROVE  x \in (received[n] \cup c.page \cup c.triples) \cup (slipped[n] \cup over)
  <2> SUFFICES ASSUME x \notin received[n], x \notin c.page
               PROVE  x \in slipped[n] \cup over
    OBVIOUS
  <2>0. graph[x].at \in 1 .. MaxCommits /\ c.since \in 0 .. MaxCommits
    BY <1>0 DEF SyncTypeOK, TypeOK, Stamps, Entities, PullCalls
  <2>1. CASE x \notin c.known
    BY <1>3, <2>1 DEF PassedOver
  <2>2. CASE graph[x].at <= c.since
    BY <1>1, <1>3, <2>2 DEF SyncInv, NothingElseIsLost
  <2>3. CASE x \in c.known /\ graph[x].at > c.since
    <3>1. HasMore(c) /\ \A y \in c.page : graph[y].at <= graph[x].at
      BY <1>1, <1>3, <2>3
    <3>2. c.page # {}
      BY <1>2, <1>3, <2>0, <2>3
    <3>3. PICK y \in c.page : graph[y].at = PageEnd(c)
      BY <1>0, <3>2, EndOfPage
    <3>4. graph[x].at = end
      BY <1>2, <1>3, <2>0, <3>1, <3>2, <3>3
    <3> QED
      BY <1>3, <3>1, <3>4 DEF PassedOver
  <2>4. graph[x].at <= c.since \/ graph[x].at > c.since
    BY <2>0
  <2> QED
    BY <2>1, <2>2, <2>3, <2>4
<1>4. over \subseteq Entities(graph)
  BY DEF PassedOver
<1> HIDE DEF end, over
<1>5. /\ pulls' \in [Pullers -> Pulls]
      /\ pulls'[n] = NoPull
      /\ \A q \in Pullers \ {n} : pulls'[q] = pulls[q] /\ cursor'[q] = cursor[q]
  BY <1>0 DEF SyncTypeOK, EndPull, Pulls
<1>6. \A q \in Pullers : FlightOK(q)'
  BY <1>0, <1>5, OthersFly DEF FlightOK, Pulling, NoPull
<1>7. SyncTypeOK'
  <2>1. cursor' \in [Pullers -> 0 .. MaxCommits]
    BY <1>0, <1>2 DEF SyncTypeOK
  <2>2. received' \in [Pullers -> SUBSET DOMAIN graph]
    BY <1>0, <1>1 DEF SyncTypeOK
  <2>3. slipped' \in [Pullers -> SUBSET Entities(graph)]
    BY <1>0, <1>4 DEF SyncTypeOK
  <2> QED
    BY <1>0, <1>5, <2>1, <2>2, <2>3, PipelineStill DEF SyncTypeOK, vars
<1>8. ASSUME NEW q \in Pullers, NEW x \in Entities(graph), graph[x].at <= cursor'[q],
             Matches(q, x)
      PROVE  x \in received'[q] \cup slipped'[q]
  <2>1. CASE q = n
    BY <1>0, <1>3, <1>8, <2>1 DEF SyncTypeOK
  <2>2. CASE q # n
    <3>1. /\ cursor'[q] = cursor[q] /\ received'[q] = received[q]
          /\ slipped'[q] = slipped[q]
      BY <1>0, <2>2 DEF SyncTypeOK
    <3> QED
      BY <1>8, <3>1 DEF SyncInv, NothingElseIsLost
  <2> QED
    BY <2>1, <2>2
<1>9. NothingElseIsLost'
  BY <1>0, <1>8 DEF NothingElseIsLost, Matches, vars
<1>10. ASSUME NEW q \in Pullers, NEW x \in received'[q] \cap Names
       PROVE  Matches(q, x)
  <2>1. x \notin c.triples
    BY <1>0 DEF PullCalls
  <2>2. x \in received[q] \/ (q = n /\ x \in c.page)
    BY <1>0, <2>1 DEF SyncTypeOK
  <2> QED
    BY <1>1, <2>2 DEF SyncInv, ReceivedIsWanted
<1>11. ReceivedIsWanted'
  BY <1>0, <1>10 DEF ReceivedIsWanted, Matches
<1> QED
  BY <1>0, <1>6, <1>7, <1>9, <1>11, PipelineStill DEF SyncInv

-----------------------------------------------------------------------------
(* Theorems.                                                               *)

LEMMA SyncKeeps == SyncInv /\ [SyncNext]_allVars => SyncInv'
<1> SUFFICES ASSUME SyncInv, [SyncNext]_allVars PROVE SyncInv'
  OBVIOUS
<1>1. CASE UNCHANGED allVars
  <2>1. UNCHANGED <<vars, domain, wanted>>
        /\ UNCHANGED <<untyped, cursor, received, pulls, slipped, overtaken>>
    BY <1>1 DEF allVars, pullVars
  <2>2. \A q \in Pullers : FlightOK(q)'
    BY <2>1, OthersFly
  <2>3. SyncTypeOK' /\ NothingElseIsLost' /\ ReceivedIsWanted'
    BY <2>1, PipelineStill
    DEF SyncInv, SyncTypeOK, NothingElseIsLost, ReceivedIsWanted, Matches, vars
  <2> QED
    BY <2>1, <2>2, <2>3, PipelineStill DEF SyncInv
<1>2. CASE ReviewStep
  BY <1>2, PipelineKeeps
<1>3. ASSUME NEW n \in Pullers, PullStep(n)
      PROVE  SyncInv'
  <2>1. ASSUME NEW limit \in Limits,
               QueryEntities(n, IF limit < MaxLimit THEN limit ELSE MaxLimit)
        PROVE  SyncInv'
    <3>1. (IF limit < MaxLimit THEN limit ELSE MaxLimit) \in Nat
      BY PullLimitsAssumption
    <3> QED
      BY <2>1, <3>1, QueryKeeps
  <2>2. CASE QueryRelations(n)
    BY <2>2, RelationsKeep
  <2>3. CASE Deliver(n)
    BY <2>3, DeliverKeeps
  <2>4. CASE DoesNotFit(n) \/ LosePull(n)
    BY <2>4, EndKeeps DEF DoesNotFit, LosePull
  <2> QED
    BY <1>3, <2>1, <2>2, <2>3, <2>4 DEF PullStep, StartPull
<1> QED
  BY <1>1, <1>2, <1>3 DEF SyncNext

LEMMA SyncInvariant == SyncSpec => []SyncInv
  BY InitSyncInv, SyncKeeps, PTL DEF SyncSpec

\* Every cursor, pull and set of received elements is typed (pull_since,
\* pull_knowledge), beside a typed review pipeline.
THEOREM SyncTyped == SyncSpec => []SyncTypeOK
<1>1. SyncInv => SyncTypeOK
  BY DEF SyncInv
<1> QED
  BY <1>1, SyncInvariant, PTL

\* A node that continues from the latest time it was given misses no entity of the
\* domains it asks for but those written behind it or tied with the end of a full page (pull_since).
THEOREM NothingElseLost == SyncSpec => []NothingElseIsLost
<1>1. SyncInv => NothingElseIsLost
  BY DEF SyncInv
<1> QED
  BY <1>1, SyncInvariant, PTL

\* A node that names domains is given entities of these only, which never change
\* their domain (pull_since, the ON CREATE of commit_bundle).
THEOREM ReceivedWanted == SyncSpec => []ReceivedIsWanted
<1>1. SyncInv => ReceivedIsWanted
  BY DEF SyncInv
<1> QED
  BY <1>1, SyncInvariant, PTL

-----------------------------------------------------------------------------
(* Relations follow their subjects.                                        *)

\* Between the relation query and the answer: what starts at the page has been
\* read, or was written since.
RelationsRead(n) ==
    Pulling(n, "respond") =>
        \A x \in Triples(graph) :
            x[1] \in pulls[n].page => x \in pulls[n].triples \cup overtaken[n]

GivenInv == RelationsAreGiven /\ \A n \in Pullers : RelationsRead(n)

\* What a commit writes behind a relation query is overtaken.
LEMMA ReviewGives ==
  ASSUME SyncInv, GivenInv, ReviewStep
  PROVE  GivenInv'
<1>1. UNCHANGED <<received, pulls>>
  BY DEF ReviewStep
<1>2. \A n \in Pullers :
         overtaken'[n] = overtaken[n] \cup
                            {x \in Triples(graph') \ Triples(graph) : x[1] \in Read(n)}
  BY DEF ReviewStep
<1>3. ASSUME NEW n \in Pullers, NEW x \in Triples(graph'), x[1] \in received[n]
      PROVE  x \in received[n] \cup overtaken'[n]
  <2>1. CASE x \in Triples(graph)
    BY <1>2, <1>3, <2>1 DEF GivenInv, RelationsAreGiven
  <2>2. CASE x \notin Triples(graph)
    BY <1>2, <1>3, <2>2 DEF Read
  <2> QED
    BY <2>1, <2>2
<1>4. ASSUME NEW n \in Pullers, Pulling(n, "respond"),
             NEW x \in Triples(graph'), x[1] \in pulls[n].page
      PROVE  x \in pulls[n].triples \cup overtaken'[n]
  <2>1. CASE x \in Triples(graph)
    BY <1>2, <1>4, <2>1 DEF GivenInv, RelationsRead
  <2>2. CASE x \notin Triples(graph)
    BY <1>2, <1>4, <2>2 DEF Read
  <2> QED
    BY <2>1, <2>2
<1> QED
  BY <1>1, <1>3, <1>4 DEF GivenInv, RelationsAreGiven, RelationsRead, Pulling, Triples

\* A pull that gives nothing, and whose relations, if they are read, are all read.
LEMMA PullGives ==
  ASSUME SyncInv, GivenInv, UNCHANGED <<vars, received, overtaken>>, NEW n \in Pullers,
         \A q \in Pullers \ {n} : pulls'[q] = pulls[q],
         Pulling(n, "respond")' =>
            \A x \in Triples(graph) : x[1] \in pulls'[n].page => x \in pulls'[n].triples
  PROVE  GivenInv'
<1>1. UNCHANGED graph
  BY DEF vars
<1>2. RelationsAreGiven'
  BY <1>1 DEF GivenInv, RelationsAreGiven, Triples
<1>3. ASSUME NEW q \in Pullers PROVE RelationsRead(q)'
  <2>1. CASE q = n
    BY <1>1, <2>1 DEF RelationsRead, Triples
  <2>2. CASE q # n
    BY <1>1, <2>2 DEF GivenInv, RelationsRead, Pulling, Triples
  <2> QED
    BY <2>1, <2>2
<1> QED
  BY <1>2, <1>3 DEF GivenInv

LEMMA QueryGives ==
  ASSUME SyncInv, GivenInv, NEW n \in Pullers, NEW limit, QueryEntities(n, limit)
  PROVE  GivenInv'
<1>1. PICK page : pulls' = [pulls EXCEPT ![n] =
                     [pc |-> IF page = {} THEN "respond" ELSE "relations",
                      since |-> cursor[n], limit |-> limit, page |-> page,
                      triples |-> {}, known |-> DOMAIN graph]]
  BY DEF QueryEntities
<1>2. /\ UNCHANGED <<vars, received, overtaken>>
      /\ \A q \in Pullers \ {n} : pulls'[q] = pulls[q]
      /\ pulls'[n].page = page
      /\ pulls'[n].pc = IF page = {} THEN "respond" ELSE "relations"
  BY <1>1 DEF QueryEntities, SyncInv, SyncTypeOK
<1>3. Pulling(n, "respond")' => pulls'[n].page = {}
  BY <1>2 DEF Pulling
<1> QED
  BY <1>2, <1>3, PullGives

LEMMA RelationsGive ==
  ASSUME SyncInv, GivenInv, NEW n \in Pullers, QueryRelations(n)
  PROVE  GivenInv'
<1> DEFINE c == pulls[n]
           T == StartingAt(n)
           d == [c EXCEPT !.pc = "respond", !.triples = T]
<1>1. c \in PullCalls /\ SyncTypeOK
  BY PullKinds DEF SyncInv, QueryRelations, Pulling
<1>2. T \in SUBSET (Elements \ Names)
  BY <1>1 DEF StartingAt, Triples, SyncTypeOK, TypeOK
<1>3. d.triples = T /\ d.page = c.page
  BY <1>1, <1>2, Queried
<1>4. pulls' = [pulls EXCEPT ![n] = d]
  BY DEF QueryRelations
<1>5. UNCHANGED <<vars, received, overtaken>>
  BY DEF QueryRelations
<1>6. \A x \in Triples(graph) : x[1] \in c.page => x \in T
  BY DEF StartingAt
<1> HIDE DEF c, d, T
<1>7. pulls'[n] = d /\ \A q \in Pullers \ {n} : pulls'[q] = pulls[q]
  BY <1>1, <1>4 DEF SyncTypeOK
<1> QED
  BY <1>3, <1>5, <1>6, <1>7, PullGives

\* A page is given together with the relations that start at it.
LEMMA DeliverGives ==
  ASSUME SyncInv, GivenInv, NEW n \in Pullers, Deliver(n)
  PROVE  GivenInv'
<1> DEFINE c == pulls[n]
<1>1. /\ c \in PullCalls /\ SyncTypeOK
      /\ UNCHANGED <<graph, overtaken>>
      /\ pulls' = [pulls EXCEPT ![n] = NoPull]
      /\ received' = [received EXCEPT ![n] = @ \cup c.page \cup c.triples]
  BY PullKinds DEF SyncInv, Deliver, Pulling, EndPull, vars
<1>2. /\ received'[n] = received[n] \cup c.page \cup c.triples
      /\ pulls'[n] = NoPull
      /\ \A q \in Pullers \ {n} : received'[q] = received[q] /\ pulls'[q] = pulls[q]
  BY <1>1 DEF SyncTypeOK
<1>3. ASSUME NEW x \in Triples(graph), x[1] \in received'[n]
      PROVE  x \in received'[n] \cup overtaken[n]
  <2>1. x[1] \in Names
    <3>1. x \in Elements \ Names
      BY <1>1 DEF SyncTypeOK, TypeOK, Triples
    <3> QED
      BY <3>1 DEF Elements
  <2>2. x[1] \notin c.triples
    BY <1>1, <2>1 DEF PullCalls
  <2>3. CASE x[1] \in received[n]
    BY <1>2, <2>3 DEF GivenInv, RelationsAreGiven
  <2>4. CASE x[1] \in c.page
    BY <1>2, <2>4 DEF GivenInv, RelationsRead, Deliver
  <2> QED
    BY <1>2, <1>3, <2>2, <2>3, <2>4
<1> HIDE DEF c
<1>4. RelationsAreGiven'
  <2> SUFFICES ASSUME NEW q \in Pullers, NEW x \in Triples(graph), x[1] \in received'[q]
               PROVE  x \in received'[q] \cup overtaken[q]
    BY <1>1 DEF RelationsAreGiven, Triples
  <2>1. CASE q = n
    BY <1>3, <2>1
  <2>2. CASE q # n
    BY <1>2, <2>2 DEF GivenInv, RelationsAreGiven
  <2> QED
    BY <2>1, <2>2
<1>5. ASSUME NEW q \in Pullers PROVE RelationsRead(q)'
  <2>1. CASE q = n
    BY <1>2, <2>1 DEF RelationsRead, Pulling, NoPull
  <2>2. CASE q # n
    BY <1>1, <1>2, <2>2 DEF GivenInv, RelationsRead, Pulling, Triples
  <2> QED
    BY <2>1, <2>2
<1> QED
  BY <1>4, <1>5 DEF GivenInv

\* A node has every relation of the entities it was given, except those written
\* after its relation query: whatever the times of the relation and of its subject
\* (pull_since, commit_bundle).
THEOREM RelationsGiven == SyncSpec => []RelationsAreGiven
<1>1. SyncInit => GivenInv
  BY DEF SyncInit, Init, PullInit, GivenInv, RelationsAreGiven, RelationsRead, Triples, Pulling,
         NoPull
<1>2. SyncInv /\ GivenInv /\ [SyncNext]_allVars => GivenInv'
  <2> SUFFICES ASSUME SyncInv, GivenInv, [SyncNext]_allVars PROVE GivenInv'
    OBVIOUS
  <2>1. CASE UNCHANGED allVars
    BY <2>1 DEF allVars, pullVars, vars, GivenInv, RelationsAreGiven, RelationsRead, Pulling,
                Triples
  <2>2. CASE ReviewStep
    BY <2>2, ReviewGives
  <2>3. ASSUME NEW n \in Pullers, PullStep(n) PROVE GivenInv'
    <3>1. CASE DoesNotFit(n) \/ LosePull(n)
      <4>1. UNCHANGED <<vars, received, overtaken>> /\ pulls' = [pulls EXCEPT ![n] = NoPull]
        BY <3>1 DEF DoesNotFit, LosePull, EndPull
      <4>2. ~Pulling(n, "respond")' /\ \A q \in Pullers \ {n} : pulls'[q] = pulls[q]
        BY <4>1 DEF SyncInv, SyncTypeOK, Pulling, NoPull
      <4> QED
        BY <4>1, <4>2, PullGives
    <3> QED
      BY <2>3, <3>1, QueryGives, RelationsGive, DeliverGives DEF PullStep, StartPull
  <2> QED
    BY <2>1, <2>2, <2>3 DEF SyncNext
<1>3. GivenInv => RelationsAreGiven
  BY DEF GivenInv
<1> QED
  BY <1>1, <1>2, <1>3, SyncInvariant, PTL DEF SyncSpec

-----------------------------------------------------------------------------
(* What the review promises, promised while nodes pull.                    *)

\* The pulls leave the review pipeline alone: all that is proved of AuditReview
\* holds beside them (pull_knowledge writes nothing the pipeline reads).
THEOREM SyncIsReview == SyncSpec => Spec
<1>1. SyncInit => Init
  BY DEF SyncInit
<1>2. [SyncNext]_allVars => [Next]_vars
  BY DEF SyncNext, ReviewStep, PullStep, StartPull, QueryEntities, QueryRelations, Deliver,
         DoesNotFit, LosePull, allVars
<1> QED
  BY <1>1, <1>2, PTL DEF SyncSpec, Spec

\* Where nothing fails, what a node can pull while no commit runs belongs to an
\* entry with committed_to_graph_at set (commit_bundle, approve_audit_entry).
THEOREM SyncAvailableCommitted ==
  ASSUME Failures = FALSE
  PROVE  SyncSpec => []AvailableIsCommitted
BY SyncIsReview, AvailableCommitted, PTL

\* With its pulls the hub is still a review ledger.
THEOREM SyncImplementsLedger == SyncSpec => ImplementsLedger
BY SyncIsReview, PipelineImplementsLedger, PTL

=============================================================================
