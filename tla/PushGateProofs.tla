--------------------------- MODULE PushGateProofs ---------------------------
(***************************************************************************)
(* Theorems about PushGate, for all nodes, bundles, limits and any number  *)
(* of requests, with and without failures.                                 *)
(***************************************************************************)
EXTENDS PushGate, FiniteSetTheorems, TLAPS

PushPcs == {"soft", "exists", "setex", "incr", "expire", "audit",
            "strike", "window", "hard", "block"}

-----------------------------------------------------------------------------
(* Calls.                                                                  *)

\* The categories, spelt out.
LEMMA CategoriesAre ==
  /\ CategoryNames = {"syntax", "security", "general"}
  /\ Categories[1] = "syntax" /\ Categories[2] = "security" /\ Categories[3] = "general"
  BY DEF CategoryNames, Categories

LEMMA CategoryTyped ==
  ASSUME NEW b
  PROVE  Category(b) \in CategoryNames
  BY CategoriesAre DEF Category

\* Every call is of one of three kinds, told apart by `pc`.
LEMMA CallKinds ==
  ASSUME TypeOK, NEW r \in Requests
  PROVE  /\ requests[r] \in Calls
         /\ requests[r].pc \in PushPcs => requests[r] \in PushCalls
         /\ At(r, "clear") => requests[r] \in UnblockCalls
         /\ ~At(r, "idle") => Node(r) \in Nodes
  BY DEF TypeOK, Calls, PushCalls, UnblockCalls, Idle, At, PushPcs, Node

\* The fields of a push.
LEMMA PushFields ==
  ASSUME NEW c \in PushCalls
  PROVE  /\ c.pc \in PushPcs /\ c.node \in Nodes /\ c.next \in 1..3
         /\ c.sum \in Nat /\ c.bundle \in Pushed
  BY DEF PushCalls, PushPcs

\* A push that goes on is still a push.
LEMMA PushGoesOn ==
  ASSUME NEW c \in PushCalls, NEW pc \in PushPcs
  PROVE  LET d == [c EXCEPT !.pc = pc]
         IN  /\ d \in PushCalls
             /\ d.pc = pc /\ d.node = c.node /\ d.next = c.next
             /\ d.sum = c.sum /\ d.bundle = c.bundle
  BY DEF PushCalls, PushPcs

LEMMA ReadingFields ==
  ASSUME NEW c \in PushCalls, NEW pc, NEW next, NEW sum
  PROVE  /\ Reading(c, pc, next, sum).pc = pc
         /\ Reading(c, pc, next, sum).node = c.node
         /\ Reading(c, pc, next, sum).next = next
         /\ Reading(c, pc, next, sum).sum = sum
         /\ Reading(c, pc, next, sum).bundle = c.bundle
  BY DEF PushCalls, PushPcs, Reading

LEMMA ReadingTyped ==
  ASSUME NEW c \in PushCalls, NEW pc \in PushPcs, NEW next \in 1..3, NEW sum \in Nat
  PROVE  Reading(c, pc, next, sum) \in PushCalls
  BY DEF PushCalls, PushPcs, Reading

LEMMA ClearGoesOn ==
  ASSUME NEW c \in UnblockCalls, c.next < 3
  PROVE  LET d == [c EXCEPT !.next = @ + 1]
         IN  /\ d \in UnblockCalls
             /\ d.pc = "clear" /\ d.node = c.node /\ d.next = c.next + 1
  BY DEF UnblockCalls

\* What the Valkey commands make of a counter.
LEMMA CountersTyped ==
  /\ Absent \in Counters /\ SetEx \in Counters
  /\ ~Exists(Absent) /\ Absent.count = 0
  /\ Exists(SetEx) /\ SetEx.armed /\ SetEx.count = 1
  /\ \A c \in Counters :
        /\ c.count \in Nat
        /\ Incr(c) \in Counters /\ Incr(c).count = c.count + 1 /\ Incr(c).armed = c.armed
        /\ Expire(c) \in Counters /\ Expire(c).count = c.count
        /\ Exists(c) => Expire(c).armed
<1>1. Absent \in Counters /\ ~Exists(Absent) /\ Absent.count = 0
  BY DEF Absent, Counters, Exists
<1>2. SetEx \in Counters /\ Exists(SetEx) /\ SetEx.armed /\ SetEx.count = 1
  BY DEF SetEx, Counters, Exists
<1>3. ASSUME NEW c \in Counters
      PROVE  /\ c.count \in Nat
             /\ Incr(c) \in Counters /\ Incr(c).count = c.count + 1 /\ Incr(c).armed = c.armed
  BY DEF Counters, Incr
<1>4. ASSUME NEW c \in Counters
      PROVE  /\ Expire(c) \in Counters /\ Expire(c).count = c.count
             /\ Expire(c).armed = Exists(c)
  <2>1. Exists(c) \in BOOLEAN
    BY DEF Exists, Counters
  <2> QED
    BY <2>1 DEF Counters, Expire
<1> QED
  BY <1>1, <1>2, <1>3, <1>4

\* The sum of a request stays a number.
LEMMA SumTyped ==
  ASSUME TypeOK, NEW r \in Requests, requests[r] \in PushCalls
  PROVE  Sum(r) \in Nat
<1> DEFINE category == Categories[requests[r].next]
           w == Weight(requests[r].pc, category)
           k == strikes[requests[r].node][category].count
<1>1. category \in CategoryNames
  BY PushFields, CategoriesAre
<1>2. k \in Nat
  BY <1>1, PushFields, CountersTyped DEF TypeOK
<1>3. w = 1 \/ w = 3
  BY DEF Weight
<1>4. requests[r].sum \in Nat
  BY PushFields
<1>5. Sum(r) = requests[r].sum + w * k
  BY DEF Sum
<1> HIDE DEF w, k
<1> QED
  BY <1>2, <1>3, <1>4, <1>5

-----------------------------------------------------------------------------
(* Types.                                                                  *)

\* The initial state is typed.
LEMMA InitTyped == Init => TypeOK
<1> SUFFICES ASSUME Init PROVE TypeOK
  OBVIOUS
<1>1. strikes \in [Nodes -> [CategoryNames -> Counters]]
  BY CountersTyped DEF Init
<1>2. limiter \in [Nodes -> Counters]
  BY CountersTyped DEF Init
<1>3. blocked \in [Nodes -> {"no", "auto", "manual"}]
  BY DEF Init
<1>4. requests \in [Requests -> Calls]
  BY DEF Init, Calls
<1>5. started \in 0..MaxPushes
  BY MaxPushesAssumption DEF Init
<1>6. admitted \in [Nodes -> [all : Nat, limited : Nat]]
  BY DEF Init, NoneAdmitted
<1>7. orphans \subseteq Nodes \X (CategoryNames \cup {"limiter", "verdict"}) /\ beside = {}
  BY DEF Init
<1> QED
  BY <1>1, <1>2, <1>3, <1>4, <1>5, <1>6, <1>7 DEF TypeOK

\* A new call of a request keeps the calls typed.
LEMMA GotoTyped ==
  ASSUME TypeOK, NEW r \in Requests, NEW c \in Calls, Goto(r, c)
  PROVE  /\ requests' \in [Requests -> Calls]
         /\ requests'[r] = c
         /\ \A q \in Requests : q # r => requests'[q] = requests[q]
  BY DEF TypeOK, Goto

\* The two calls a request may go on with: the end, and a push at another step.
LEMMA ReturnTyped ==
  ASSUME TypeOK, NEW r \in Requests, Return(r)
  PROVE  /\ requests' \in [Requests -> Calls]
         /\ requests'[r] = Idle
         /\ \A q \in Requests : q # r => requests'[q] = requests[q]
  BY GotoTyped DEF Return, Calls

LEMMA MoveTyped ==
  ASSUME TypeOK, NEW r \in Requests, requests[r] \in PushCalls,
         NEW pc \in PushPcs, Move(r, pc)
  PROVE  /\ requests' \in [Requests -> Calls]
         /\ requests'[r] \in PushCalls
         /\ requests'[r].pc = pc /\ requests'[r].node = requests[r].node
         /\ requests'[r].bundle = requests[r].bundle
         /\ requests'[r].next = requests[r].next /\ requests'[r].sum = requests[r].sum
         /\ \A q \in Requests : q # r => requests'[q] = requests[q]
<1> DEFINE c == [requests[r] EXCEPT !.pc = pc]
<1>1. /\ c \in PushCalls /\ c.pc = pc /\ c.node = requests[r].node
      /\ c.bundle = requests[r].bundle /\ c.next = requests[r].next /\ c.sum = requests[r].sum
  BY PushGoesOn
<1>2. Goto(r, c)
  BY DEF Move
<1>3. c \in Calls
  BY <1>1 DEF Calls
<1> HIDE DEF c
<1> QED
  BY <1>1, <1>2, <1>3, GotoTyped

\* A push that reads on.
LEMMA ReadTyped ==
  ASSUME TypeOK, NEW r \in Requests, requests[r] \in PushCalls, NEW pc \in PushPcs,
         NEW next \in 1..3, NEW sum \in Nat, Goto(r, Reading(requests[r], pc, next, sum))
  PROVE  /\ requests' \in [Requests -> Calls]
         /\ requests'[r] \in PushCalls
         /\ requests'[r].pc = pc /\ requests'[r].node = requests[r].node
         /\ requests'[r].bundle = requests[r].bundle
         /\ requests'[r].next = next /\ requests'[r].sum = sum
         /\ \A q \in Requests : q # r => requests'[q] = requests[q]
<1> DEFINE c == Reading(requests[r], pc, next, sum)
<1>1. c \in PushCalls
  BY ReadingTyped
<1>2. /\ c.pc = pc /\ c.node = requests[r].node /\ c.bundle = requests[r].bundle
      /\ c.next = next /\ c.sum = sum
  BY ReadingFields
<1>3. Goto(r, c) /\ c \in Calls
  BY <1>1 DEF Calls
<1> HIDE DEF c
<1> QED
  BY <1>1, <1>2, <1>3, GotoTyped

\* One more admission.
Tallies == [all : Nat, limited : Nat]
Tally(x, i, j) == [x EXCEPT !.all = i, !.limited = j]
LEMMA TallyFields ==
  ASSUME NEW x \in Tallies, NEW i, NEW j
  PROVE  Tally(x, i, j).all = i /\ Tally(x, i, j).limited = j
  BY DEF Tallies, Tally

LEMMA TallyTyped ==
  ASSUME NEW x \in Tallies, NEW i \in Nat, NEW j \in Nat
  PROVE  Tally(x, i, j) \in Tallies
  BY DEF Tallies, Tally

LEMMA AdmitTyped ==
  ASSUME TypeOK, NEW n \in Nodes, NEW limited \in BOOLEAN, Admit(n, limited)
  PROVE  /\ admitted' \in [Nodes -> [all : Nat, limited : Nat]]
         /\ admitted'[n].all = admitted[n].all + 1
         /\ admitted'[n].limited = IF limited THEN admitted[n].limited + 1
                                              ELSE admitted[n].limited
         /\ \A m \in Nodes : m # n => admitted'[m] = admitted[m]
<1> DEFINE a == admitted[n]
<1>2. a \in Tallies /\ a.all + 1 \in Nat /\ a.limited \in Nat /\ a.limited + 1 \in Nat
  BY DEF TypeOK, Tallies
<1>3. admitted' = [admitted EXCEPT ![n] =
                      [a EXCEPT !.all = a.all + 1,
                                !.limited = IF limited THEN a.limited + 1 ELSE a.limited]]
  BY DEF Admit, TypeOK
<1>4. admitted \in [Nodes -> Tallies]
  BY DEF TypeOK, Tallies
<1> DEFINE i == a.all + 1
           j == IF limited THEN a.limited + 1 ELSE a.limited
           y == Tally(a, i, j)
<1>5. i \in Nat /\ j \in Nat
  BY <1>2
<1>6. y \in Tallies /\ y.all = i /\ y.limited = j
  <2> HIDE DEF i, j, a
  <2>1. y \in Tallies
    BY <1>2, <1>5, TallyTyped
  <2>2. y.all = i /\ y.limited = j
    BY <1>2, TallyFields
  <2> QED
    BY <2>1, <2>2
<1>7. admitted' = [admitted EXCEPT ![n] = y]
  BY <1>3 DEF Tally
<1>8. /\ admitted' \in [Nodes -> Tallies] /\ admitted'[n] = y
      /\ \A m \in Nodes : m # n => admitted'[m] = admitted[m]
  <2> HIDE DEF y
  <2> QED
    BY <1>4, <1>6, <1>7
<1> HIDE DEF y
<1> QED
  BY <1>6, <1>8 DEF Tallies

\* A command on one strike counter, and one on the push counter.
LEMMA StrikesTyped ==
  ASSUME TypeOK, NEW n \in Nodes, NEW k \in CategoryNames, NEW c \in Counters,
         strikes' = [strikes EXCEPT ![n][k] = c]
  PROVE  /\ strikes' \in [Nodes -> [CategoryNames -> Counters]]
         /\ strikes'[n][k] = c
         /\ \A m \in Nodes, j \in CategoryNames :
               m # n \/ j # k => strikes'[m][j] = strikes[m][j]
  BY DEF TypeOK

LEMMA LimiterTyped ==
  ASSUME TypeOK, NEW n \in Nodes, NEW c \in Counters, limiter' = [limiter EXCEPT ![n] = c]
  PROVE  /\ limiter' \in [Nodes -> Counters]
         /\ limiter'[n] = c
         /\ \A m \in Nodes : m # n => limiter'[m] = limiter[m]
  BY DEF TypeOK

\* What a request at a step of a push holds.
LEMMA AtPush ==
  ASSUME TypeOK, NEW r \in Requests, requests[r].pc \in PushPcs
  PROVE  /\ requests[r] \in PushCalls
         /\ Node(r) = requests[r].node /\ Node(r) \in Nodes
         /\ requests[r].bundle \in Pushed
         /\ Category(requests[r].bundle) \in CategoryNames
         /\ limiter[Node(r)] \in Counters
         /\ \A k \in CategoryNames : strikes[Node(r)][k] \in Counters
         /\ requests[r].next \in 1..3
         /\ requests[r].sum \in Nat
<1>1. requests[r] \in PushCalls
  BY CallKinds
<1> QED
  BY <1>1, PushFields, CategoryTyped DEF TypeOK, Node

\* What is noted beside an unblock, and forgotten when it is over.
LEMMA BesideTyped ==
  ASSUME TypeOK
  PROVE  /\ \A r \in Requests :
               Forget(r) => beside' \subseteq Requests \X (CategoryNames \cup {"block"})
         /\ \A n \in Nodes, what \in CategoryNames \cup {"block"} :
               Beside(n, what) => beside' \subseteq Requests \X (CategoryNames \cup {"block"})
  BY DEF TypeOK, Forget, Beside, Unblocking

\* Each step of a request keeps the types.
LEMMA ArriveTyped ==
  ASSUME TypeOK, NEW r \in Requests, Arrive(r)
  PROVE  TypeOK'
<1>1. ASSUME NEW n \in Nodes, NEW b \in Pushed, StartPush(r, n, b)
      PROVE  TypeOK'
  <2>1. [pc |-> "soft", node |-> n, next |-> 1, sum |-> 0, bundle |-> b] \in Calls
    BY DEF Calls, PushCalls
  <2>2. requests' \in [Requests -> Calls]
    BY <1>1, <2>1, GotoTyped DEF StartPush
  <2>3. started' \in 0..MaxPushes
    BY <1>1, MaxPushesAssumption DEF StartPush, TypeOK
  <2> QED
    BY <1>1, <2>2, <2>3 DEF StartPush, TypeOK
<1>2. ASSUME NEW n \in Nodes, StartUnblock(r, n)
      PROVE  TypeOK'
  <2>1. [pc |-> "clear", node |-> n, next |-> 1] \in Calls
    BY DEF Calls, UnblockCalls
  <2>2. requests' \in [Requests -> Calls]
    BY <1>2, <2>1, GotoTyped DEF StartUnblock
  <2> QED
    BY <1>2, <2>2, BesideTyped DEF StartUnblock, TakeUp, TypeOK
<1> QED
  BY <1>1, <1>2 DEF Arrive

LEMMA ReadsTyped ==
  ASSUME TypeOK, NEW r \in Requests, ReadNext(r)
  PROVE  /\ TypeOK'
         /\ requests'[r].pc = requests[r].pc /\ requests'[r].node = requests[r].node
         /\ requests'[r].bundle = requests[r].bundle
         /\ requests'[r].next = requests[r].next + 1 /\ requests'[r].sum = Sum(r)
         /\ \A q \in Requests : q # r => requests'[q] = requests[q]
<1>1. requests[r].pc \in PushPcs
  BY DEF ReadNext, At, PushPcs
<1>2. requests[r] \in PushCalls /\ requests[r].next \in 1..3
  BY <1>1, AtPush
<1>3. requests[r].next + 1 \in 1..3
  BY <1>2 DEF ReadNext
<1>4. Sum(r) \in Nat
  BY <1>2, SumTyped
<1>5. Goto(r, Reading(requests[r], requests[r].pc, requests[r].next + 1, Sum(r)))
  BY DEF ReadNext
<1>6. /\ requests' \in [Requests -> Calls]
      /\ requests'[r].pc = requests[r].pc /\ requests'[r].node = requests[r].node
      /\ requests'[r].bundle = requests[r].bundle
      /\ requests'[r].next = requests[r].next + 1 /\ requests'[r].sum = Sum(r)
      /\ \A q \in Requests : q # r => requests'[q] = requests[q]
  BY <1>1, <1>2, <1>3, <1>4, <1>5, ReadTyped
<1> QED
  BY <1>6 DEF ReadNext, TypeOK

\* The steps that only decide where a push goes on.
LEMMA DecidesTyped ==
  ASSUME TypeOK, NEW r \in Requests,
         DecideLimit(r) \/ CheckExists(r) \/ PassAudit(r) \/ DecideBlock(r)
  PROVE  /\ TypeOK'
         /\ \/ requests'[r] = Idle
            \/ /\ requests'[r].pc \in {"exists", "incr", "setex", "block"}
               /\ requests'[r].node = requests[r].node
         /\ \A q \in Requests : q # r => requests'[q] = requests[q]
<1>1. requests[r].pc \in PushPcs
  BY DEF DecideLimit, CheckExists, PassAudit, DecideBlock, At, PushPcs
<1>2. requests[r] \in PushCalls
  BY <1>1, AtPush
<1>3. \/ Return(r)
      \/ \E pc \in {"exists", "incr", "setex", "block"} : Move(r, pc)
  BY DEF DecideLimit, CheckExists, PassAudit, DecideBlock
<1>4. CASE Return(r)
  BY <1>4, ReturnTyped DEF DecideLimit, CheckExists, PassAudit, DecideBlock, TypeOK
<1>5. ASSUME NEW pc \in {"exists", "incr", "setex", "block"}, Move(r, pc)
      PROVE  /\ TypeOK'
             /\ requests'[r].pc = pc /\ requests'[r].node = requests[r].node
             /\ \A q \in Requests : q # r => requests'[q] = requests[q]
  <2>1. pc \in PushPcs
    BY DEF PushPcs
  <2>2. /\ requests' \in [Requests -> Calls]
        /\ requests'[r].pc = pc /\ requests'[r].node = requests[r].node
        /\ \A q \in Requests : q # r => requests'[q] = requests[q]
    BY <1>2, <1>5, <2>1, MoveTyped
  <2> QED
    BY <2>2 DEF DecideLimit, CheckExists, PassAudit, DecideBlock, TypeOK
<1> QED
  BY <1>3, <1>4, <1>5

LEMMA SetLimiterTyped ==
  ASSUME TypeOK, NEW r \in Requests, SetLimiter(r)
  PROVE  /\ TypeOK'
         /\ requests'[r].pc = "audit" /\ requests'[r].node = requests[r].node
         /\ \A q \in Requests : q # r => requests'[q] = requests[q]
         /\ Node(r) \in Nodes
         /\ limiter'[Node(r)] = SetEx
         /\ \A m \in Nodes : m # Node(r) => limiter'[m] = limiter[m]
<1>1. requests[r].pc = "setex" /\ "setex" \in PushPcs /\ "audit" \in PushPcs
  BY DEF SetLimiter, At, PushPcs
<1>2. requests[r] \in PushCalls /\ Node(r) \in Nodes
  BY <1>1, AtPush
<1>3. /\ requests' \in [Requests -> Calls]
      /\ requests'[r].pc = "audit" /\ requests'[r].node = requests[r].node
      /\ \A q \in Requests : q # r => requests'[q] = requests[q]
  BY <1>1, <1>2, MoveTyped DEF SetLimiter
<1>4. /\ limiter' \in [Nodes -> Counters]
      /\ limiter'[Node(r)] = SetEx
      /\ \A m \in Nodes : m # Node(r) => limiter'[m] = limiter[m]
  BY <1>2, CountersTyped, LimiterTyped DEF SetLimiter
<1>5. admitted' \in [Nodes -> [all : Nat, limited : Nat]]
  BY <1>2, AdmitTyped DEF SetLimiter
<1> QED
  BY <1>2, <1>3, <1>4, <1>5 DEF SetLimiter, TypeOK

LEMMA IncrLimiterTyped ==
  ASSUME TypeOK, NEW r \in Requests, IncrLimiter(r)
  PROVE  /\ TypeOK'
         /\ Node(r) \in Nodes
         /\ limiter'[Node(r)] = Incr(limiter[Node(r)])
         /\ \A m \in Nodes : m # Node(r) => limiter'[m] = limiter[m]
         /\ \A q \in Requests : q # r => requests'[q] = requests[q]
         /\ \/ /\ WithinRate(limiter'[Node(r)].count)
               /\ Admit(Node(r), FALSE)
               /\ requests'[r].pc = IF FirstPush(limiter'[Node(r)].count) THEN "expire" ELSE "audit"
               /\ requests'[r].node = requests[r].node
            \/ /\ ~WithinRate(limiter'[Node(r)].count)
               /\ UNCHANGED admitted
               /\ requests'[r] = Idle
<1>1. requests[r].pc = "incr" /\ "incr" \in PushPcs /\ "audit" \in PushPcs /\ "expire" \in PushPcs
  BY DEF IncrLimiter, At, PushPcs
<1>2. requests[r] \in PushCalls /\ Node(r) \in Nodes /\ limiter[Node(r)] \in Counters
  BY <1>1, AtPush
<1>3. /\ limiter' \in [Nodes -> Counters]
      /\ limiter'[Node(r)] = Incr(limiter[Node(r)])
      /\ \A m \in Nodes : m # Node(r) => limiter'[m] = limiter[m]
  BY <1>2, CountersTyped, LimiterTyped DEF IncrLimiter
<1> DEFINE n == Node(r)
           pc == IF FirstPush(limiter'[Node(r)].count) THEN "expire" ELSE "audit"
<1>4. CASE WithinRate(limiter'[Node(r)].count)
  <2>1. Admit(Node(r), FALSE) /\ Move(r, pc) /\ pc \in PushPcs
    BY <1>1, <1>4 DEF IncrLimiter
  <2>2. /\ requests' \in [Requests -> Calls]
        /\ requests'[r].pc = pc /\ requests'[r].node = requests[r].node
        /\ \A q \in Requests : q # r => requests'[q] = requests[q]
    <3> HIDE DEF pc
    <3> QED
      BY <1>2, <2>1, MoveTyped
  <2>3. admitted' \in [Nodes -> [all : Nat, limited : Nat]]
    BY <1>2, <2>1, AdmitTyped
  <2> QED
    BY <1>2, <1>3, <1>4, <2>1, <2>2, <2>3 DEF IncrLimiter, TypeOK
<1>5. CASE ~WithinRate(limiter'[Node(r)].count)
  <2>1. Return(r) /\ UNCHANGED admitted
    BY <1>5 DEF IncrLimiter
  <2> QED
    BY <1>2, <1>3, <1>5, <2>1, ReturnTyped DEF IncrLimiter, TypeOK
<1> QED
  BY <1>4, <1>5

LEMMA ArmLimiterTyped ==
  ASSUME TypeOK, NEW r \in Requests, ArmLimiter(r)
  PROVE  /\ TypeOK'
         /\ requests'[r].pc = "audit" /\ requests'[r].node = requests[r].node
         /\ \A q \in Requests : q # r => requests'[q] = requests[q]
         /\ Node(r) \in Nodes
         /\ limiter'[Node(r)] = Expire(limiter[Node(r)])
         /\ \A m \in Nodes : m # Node(r) => limiter'[m] = limiter[m]
<1>1. requests[r].pc = "expire" /\ "expire" \in PushPcs /\ "audit" \in PushPcs
  BY DEF ArmLimiter, At, PushPcs
<1>2. requests[r] \in PushCalls /\ Node(r) \in Nodes /\ limiter[Node(r)] \in Counters
  BY <1>1, AtPush
<1>3. /\ requests' \in [Requests -> Calls]
      /\ requests'[r].pc = "audit" /\ requests'[r].node = requests[r].node
      /\ \A q \in Requests : q # r => requests'[q] = requests[q]
  BY <1>1, <1>2, MoveTyped DEF ArmLimiter
<1>4. /\ limiter' \in [Nodes -> Counters]
      /\ limiter'[Node(r)] = Expire(limiter[Node(r)])
      /\ \A m \in Nodes : m # Node(r) => limiter'[m] = limiter[m]
  BY <1>2, CountersTyped, LimiterTyped DEF ArmLimiter
<1> QED
  BY <1>2, <1>3, <1>4 DEF ArmLimiter, TypeOK

LEMMA RecordStrikeTyped ==
  ASSUME TypeOK, NEW r \in Requests, RecordStrike(r)
  PROVE  LET n == Node(r)
             k == Category(requests[r].bundle)
         IN  /\ TypeOK'
             /\ n \in Nodes /\ k \in CategoryNames
             /\ strikes'[n][k] = Incr(strikes[n][k])
             /\ \A m \in Nodes, j \in CategoryNames :
                   m # n \/ j # k => strikes'[m][j] = strikes[m][j]
             /\ requests'[r].pc = IF FirstStrike(strikes'[n][k].count) THEN "window" ELSE "hard"
             /\ requests'[r].node = requests[r].node
             /\ requests'[r].bundle = requests[r].bundle
             /\ requests'[r].next = 1 /\ requests'[r].sum = 0
             /\ \A q \in Requests : q # r => requests'[q] = requests[q]
<1> DEFINE n == Node(r)
           k == Category(requests[r].bundle)
           pc == IF FirstStrike(strikes'[n][k].count) THEN "window" ELSE "hard"
<1>1. requests[r].pc = "audit" /\ "audit" \in PushPcs /\ pc \in PushPcs
  BY DEF RecordStrike, At, PushPcs
<1>2. requests[r] \in PushCalls /\ n \in Nodes /\ k \in CategoryNames /\ strikes[n][k] \in Counters
  BY <1>1, AtPush
<1>3. strikes' = [strikes EXCEPT ![n][k] = Incr(strikes[n][k])]
  BY <1>2 DEF RecordStrike, TypeOK
<1>4. Goto(r, Reading(requests[r], pc, 1, 0))
  BY DEF RecordStrike
<1>5. Incr(strikes[n][k]) \in Counters
  BY <1>2, CountersTyped
<1>6. /\ strikes' \in [Nodes -> [CategoryNames -> Counters]]
      /\ strikes'[n][k] = Incr(strikes[n][k])
      /\ \A m \in Nodes, j \in CategoryNames :
            m # n \/ j # k => strikes'[m][j] = strikes[m][j]
  <2> HIDE DEF n, k
  <2> QED
    BY <1>2, <1>3, <1>5, StrikesTyped
<1>7. 1 \in 1..3 /\ 0 \in Nat
  OBVIOUS
<1>8. /\ requests' \in [Requests -> Calls]
      /\ requests'[r].pc = pc /\ requests'[r].node = requests[r].node
      /\ requests'[r].bundle = requests[r].bundle
      /\ requests'[r].next = 1 /\ requests'[r].sum = 0
      /\ \A q \in Requests : q # r => requests'[q] = requests[q]
  <2> HIDE DEF pc
  <2> QED
    BY <1>1, <1>2, <1>4, <1>7, ReadTyped
<1>9. beside' \subseteq Requests \X (CategoryNames \cup {"block"})
  BY <1>2, BesideTyped DEF RecordStrike
<1>10. TypeOK'
  BY <1>6, <1>8, <1>9 DEF RecordStrike, TakeUp, TypeOK
<1> QED
  BY <1>2, <1>6, <1>8, <1>10

LEMMA ArmStrikesTyped ==
  ASSUME TypeOK, NEW r \in Requests, ArmStrikes(r)
  PROVE  LET n == Node(r)
             k == Category(requests[r].bundle)
         IN  /\ TypeOK'
             /\ n \in Nodes /\ k \in CategoryNames
             /\ strikes'[n][k] = Expire(strikes[n][k])
             /\ \A m \in Nodes, j \in CategoryNames :
                   m # n \/ j # k => strikes'[m][j] = strikes[m][j]
             /\ requests'[r].pc = "hard" /\ requests'[r].node = requests[r].node
             /\ requests'[r].bundle = requests[r].bundle
             /\ requests'[r].next = requests[r].next /\ requests'[r].sum = requests[r].sum
             /\ \A q \in Requests : q # r => requests'[q] = requests[q]
<1> DEFINE n == Node(r)
           k == Category(requests[r].bundle)
<1>1. requests[r].pc = "window" /\ "window" \in PushPcs /\ "hard" \in PushPcs
  BY DEF ArmStrikes, At, PushPcs
<1>2. requests[r] \in PushCalls /\ n \in Nodes /\ k \in CategoryNames /\ strikes[n][k] \in Counters
  BY <1>1, AtPush
<1>3. strikes' = [strikes EXCEPT ![n][k] = Expire(strikes[n][k])]
  BY <1>2 DEF ArmStrikes, TypeOK
<1>4. Move(r, "hard")
  BY DEF ArmStrikes
<1>5. Expire(strikes[n][k]) \in Counters
  BY <1>2, CountersTyped
<1>6. /\ strikes' \in [Nodes -> [CategoryNames -> Counters]]
      /\ strikes'[n][k] = Expire(strikes[n][k])
      /\ \A m \in Nodes, j \in CategoryNames :
            m # n \/ j # k => strikes'[m][j] = strikes[m][j]
  <2> HIDE DEF n, k
  <2> QED
    BY <1>2, <1>3, <1>5, StrikesTyped
<1>7. /\ requests' \in [Requests -> Calls]
      /\ requests'[r].pc = "hard" /\ requests'[r].node = requests[r].node
      /\ requests'[r].bundle = requests[r].bundle
      /\ requests'[r].next = requests[r].next /\ requests'[r].sum = requests[r].sum
      /\ \A q \in Requests : q # r => requests'[q] = requests[q]
  BY <1>1, <1>2, <1>4, MoveTyped
<1>8. TypeOK'
  BY <1>6, <1>7 DEF ArmStrikes, TypeOK
<1> QED
  BY <1>2, <1>6, <1>7, <1>8

LEMMA ClearTyped ==
  ASSUME TypeOK, NEW r \in Requests, ClearNext(r)
  PROVE  LET n == Node(r)
             k == Categories[requests[r].next]
         IN  /\ TypeOK'
             /\ n \in Nodes /\ k \in CategoryNames
             /\ strikes'[n][k] = Absent
             /\ \A m \in Nodes, j \in CategoryNames :
                   m # n \/ j # k => strikes'[m][j] = strikes[m][j]
             /\ requests[r].next \in 1..3
             /\ \/ requests[r].next = 3 /\ requests'[r] = Idle
                \/ /\ requests[r].next < 3
                   /\ requests'[r].pc = "clear" /\ requests'[r].node = requests[r].node
                   /\ requests'[r].next = requests[r].next + 1
             /\ \A q \in Requests : q # r => requests'[q] = requests[q]
<1> DEFINE n == Node(r)
           k == Categories[requests[r].next]
           c == [requests[r] EXCEPT !.next = @ + 1]
<1>1. requests[r] \in UnblockCalls
  BY CallKinds DEF ClearNext
<1>2. requests[r].next \in 1..3 /\ n \in Nodes /\ k \in CategoryNames
  BY <1>1, CategoriesAre DEF UnblockCalls, Node
<1>3. strikes' = [strikes EXCEPT ![n][k] = Absent]
  BY DEF ClearNext, Node
<1>4. /\ strikes' \in [Nodes -> [CategoryNames -> Counters]]
      /\ strikes'[n][k] = Absent
      /\ \A m \in Nodes, j \in CategoryNames :
            m # n \/ j # k => strikes'[m][j] = strikes[m][j]
  <2>1. Absent \in Counters
    BY CountersTyped
  <2> HIDE DEF n, k
  <2> QED
    BY <1>2, <1>3, <2>1, StrikesTyped
<1>5. CASE requests[r].next < 3
  <2>1. Goto(r, c)
    BY <1>5 DEF ClearNext, LastToClear
  <2>2. c \in UnblockCalls /\ c.pc = "clear" /\ c.node = requests[r].node
        /\ c.next = requests[r].next + 1
    BY <1>1, <1>5, ClearGoesOn
  <2>3. c \in Calls
    BY <2>2 DEF Calls
  <2>4. /\ requests' \in [Requests -> Calls]
        /\ requests'[r] = c
        /\ \A q \in Requests : q # r => requests'[q] = requests[q]
    <3> HIDE DEF c
    <3> QED
      BY <2>1, <2>3, GotoTyped
  <2>5. TypeOK'
    BY <1>4, <1>5, <2>4 DEF ClearNext, LastToClear, TypeOK
  <2>6. /\ requests'[r].pc = "clear" /\ requests'[r].node = requests[r].node
        /\ requests'[r].next = requests[r].next + 1
    <3> HIDE DEF c
    <3> QED
      BY <2>2, <2>4
  <2> QED
    BY <1>2, <1>4, <1>5, <2>4, <2>5, <2>6
<1>6. CASE requests[r].next = 3
  <2>1. Return(r)
    BY <1>6 DEF ClearNext, LastToClear
  <2>2. /\ requests' \in [Requests -> Calls]
        /\ requests'[r] = Idle
        /\ \A q \in Requests : q # r => requests'[q] = requests[q]
    BY <2>1, ReturnTyped
  <2>3. TypeOK'
    BY <1>4, <1>6, <2>2, BesideTyped DEF ClearNext, LastToClear, TypeOK
  <2> QED
    BY <1>2, <1>4, <1>6, <2>2, <2>3
<1>7. requests[r].next < 3 \/ requests[r].next = 3
  BY <1>2
<1> QED
  BY <1>5, <1>6, <1>7

LEMMA BlockTyped ==
  ASSUME TypeOK, NEW r \in Requests, BlockNode(r)
  PROVE  /\ TypeOK'
         /\ requests'[r] = Idle
         /\ blocked'[Node(r)] = "auto"
         /\ \A m \in Nodes : m # Node(r) => blocked'[m] = blocked[m]
         /\ \A q \in Requests : q # r => requests'[q] = requests[q]
<1>1. requests[r].pc = "block" /\ "block" \in PushPcs
  BY DEF BlockNode, At, PushPcs
<1>2. Node(r) \in Nodes
  BY <1>1, AtPush
<1>3. /\ requests' \in [Requests -> Calls] /\ requests'[r] = Idle
      /\ \A q \in Requests : q # r => requests'[q] = requests[q]
  BY ReturnTyped DEF BlockNode
<1>4. /\ blocked' \in [Nodes -> {"no", "auto", "manual"}]
      /\ blocked'[Node(r)] = "auto"
      /\ \A m \in Nodes : m # Node(r) => blocked'[m] = blocked[m]
  BY <1>2 DEF BlockNode, TypeOK
<1> QED
  BY <1>2, <1>3, <1>4, BesideTyped DEF BlockNode, TypeOK

LEMMA FailTyped ==
  ASSUME TypeOK, NEW r \in Requests, Fail(r)
  PROVE  /\ TypeOK'
         /\ requests'[r] = Idle
         /\ \A q \in Requests : q # r => requests'[q] = requests[q]
<1>1. Owed(r) \subseteq Nodes \X (CategoryNames \cup {"limiter", "verdict"})
  <2>1. CASE At(r, "window")
    <3>1. Node(r) \in Nodes /\ Category(requests[r].bundle) \in CategoryNames
      BY <2>1, AtPush DEF At, PushPcs
    <3> QED
      BY <2>1, <3>1 DEF Owed
  <2>2. CASE At(r, "expire")
    <3>1. Node(r) \in Nodes
      BY <2>2, AtPush DEF At, PushPcs
    <3> QED
      BY <2>2, <3>1 DEF Owed, At
  <2>3. CASE ~At(r, "window") /\ ~At(r, "expire")
    BY <2>3 DEF Owed
  <2> QED
    BY <2>1, <2>2, <2>3
<1>2. /\ requests' \in [Requests -> Calls] /\ requests'[r] = Idle
      /\ \A q \in Requests : q # r => requests'[q] = requests[q]
  BY ReturnTyped DEF Fail
<1>3. Due(r) \subseteq Nodes \X (CategoryNames \cup {"limiter", "verdict"})
  <2>1. Node(r) \in Nodes
    BY CallKinds DEF Fail
  <2> QED
    BY <2>1 DEF Due
<1> QED
  BY <1>1, <1>2, <1>3, BesideTyped DEF Fail, TypeOK

\* What is not a step of a request.
LEMMA OutsideTyped ==
  ASSUME TypeOK, NEW n \in Nodes, AdminBlock(n) \/ Clock(n)
  PROVE  TypeOK' /\ UNCHANGED requests
<1>1. CASE AdminBlock(n)
  BY <1>1 DEF AdminBlock, TypeOK
<1>2. CASE LimiterExpires(n)
  <2>1. limiter' \in [Nodes -> Counters]
    BY <1>2, CountersTyped DEF LimiterExpires, TypeOK
  <2>2. admitted' \in [Nodes -> [all : Nat, limited : Nat]]
    BY <1>2 DEF LimiterExpires, TypeOK, NoneAdmitted
  <2> QED
    BY <1>2, <2>1, <2>2 DEF LimiterExpires, TypeOK
<1>3. ASSUME NEW category \in CategoryNames, StrikesExpire(n, category)
      PROVE  TypeOK' /\ UNCHANGED requests
  <2>1. strikes' \in [Nodes -> [CategoryNames -> Counters]]
    BY <1>3, CountersTyped, StrikesTyped DEF StrikesExpire
  <2> QED
    BY <1>3, <2>1 DEF StrikesExpire, TypeOK
<1> QED
  BY <1>1, <1>2, <1>3 DEF Clock

LEMMA NextTyped == TypeOK /\ [Next]_vars => TypeOK'
<1> SUFFICES ASSUME TypeOK, [Next]_vars PROVE TypeOK'
  OBVIOUS
<1>1. CASE UNCHANGED vars
  BY <1>1 DEF vars, TypeOK
<1>2. ASSUME NEW r \in Requests, Arrive(r) PROVE TypeOK'
  BY <1>2, ArriveTyped
<1>3. ASSUME NEW r \in Requests, Continue(r) PROVE TypeOK'
  BY <1>3, ReadsTyped, DecidesTyped, SetLimiterTyped, IncrLimiterTyped, ArmLimiterTyped,
     RecordStrikeTyped, ArmStrikesTyped, BlockTyped, ClearTyped DEF Continue, Command
<1>4. ASSUME NEW r \in Requests, Fail(r) PROVE TypeOK'
  BY <1>4, FailTyped
<1>5. ASSUME NEW n \in Nodes, AdminBlock(n) \/ Clock(n) PROVE TypeOK'
  BY <1>5, OutsideTyped
<1> QED
  BY <1>1, <1>2, <1>3, <1>4, <1>5 DEF Next

\* Every counter, flag and request of the gate has its type (get_current_node,
\* abuse.py, push_knowledge up to the queue).
THEOREM GateTyped == Spec => []TypeOK
  BY InitTyped, NextTyped, PTL DEF Spec

-----------------------------------------------------------------------------
(* Counters end.                                                           *)

\* The push counter and the strike counters alike.
KeyNames == CategoryNames \cup {"limiter"}
Counter(n, key) == IF key = "limiter" THEN limiter[n] ELSE strikes[n][key]
KeyEnds(n, key) == Ends(n, key, Counter(n, key))

LEMMA CountersEndKeywise == CountersEnd <=> \A n \in Nodes, key \in KeyNames : KeyEnds(n, key)
  BY CategoriesAre DEF CountersEnd, KeyNames, KeyEnds, Counter

\* The key a request owes depends on its call only.
LEMMA OwedSame ==
  ASSUME NEW q \in Requests, requests'[q] = requests[q]
  PROVE  Owed(q)' = Owed(q)
  BY DEF Owed, At, Node

LEMMA OwedNothing ==
  ASSUME NEW q \in Requests, requests[q].pc \notin {"window", "expire"}
  PROVE  Owed(q) = {}
  BY DEF Owed, At

\* A step that forgets no orphan and no request that has yet to arm the key,
\* and does not make an unarmed key, keeps what is said of it.
LEMMA EndsKept ==
  ASSUME NEW n, NEW key, KeyEnds(n, key),
         <<n, key>> \in orphans => <<n, key>> \in orphans',
         \A r \in Requests : <<n, key>> \in Owed(r)
                                => <<n, key>> \in Owed(r)' \/ Counter(n, key)'.armed,
         Exists(Counter(n, key))' /\ ~Counter(n, key)'.armed
             => Exists(Counter(n, key)) /\ ~Counter(n, key).armed
  PROVE  KeyEnds(n, key)'
  BY DEF KeyEnds, Ends, Arming

LEMMA KeyIsNoVerdict == \A key \in KeyNames : key # "verdict"
  BY CategoriesAre DEF KeyNames

LEMMA ArriveEnds ==
  ASSUME TypeOK, NEW r \in Requests, Arrive(r),
         NEW n \in Nodes, NEW key \in KeyNames, KeyEnds(n, key)
  PROVE  KeyEnds(n, key)'
<1>1. /\ requests[r].pc = "idle"
      /\ \A q \in Requests : q # r => requests'[q] = requests[q]
      /\ UNCHANGED <<strikes, limiter>>
      /\ <<n, key>> \in orphans => <<n, key>> \in orphans'
  BY KeyIsNoVerdict DEF Arrive, StartPush, StartUnblock, TakeUp, At, Goto, TypeOK
<1>2. Owed(r) = {} /\ \A q \in Requests : q # r => Owed(q)' = Owed(q)
  BY <1>1, OwedSame, OwedNothing
<1>3. Counter(n, key)' = Counter(n, key)
  BY <1>1 DEF Counter
<1> QED
  BY <1>1, <1>2, <1>3, EndsKept DEF Exists

LEMMA QuietEnds ==
  ASSUME TypeOK, NEW r \in Requests,
         \/ ReadNext(r) \/ DecideLimit(r) \/ CheckExists(r) \/ PassAudit(r)
         \/ DecideBlock(r) \/ BlockNode(r),
         NEW n \in Nodes, NEW key \in KeyNames, KeyEnds(n, key)
  PROVE  KeyEnds(n, key)'
<1>1. requests[r].pc \notin {"window", "expire"}
  BY DEF ReadNext, DecideLimit, CheckExists, PassAudit, DecideBlock, BlockNode, At
<1>2. \A q \in Requests : q # r => requests'[q] = requests[q]
  BY ReadsTyped, DecidesTyped, BlockTyped
<1>3. UNCHANGED <<strikes, limiter, orphans>>
  BY DEF ReadNext, DecideLimit, CheckExists, PassAudit, DecideBlock, BlockNode
<1>4. Owed(r) = {} /\ \A q \in Requests : q # r => Owed(q)' = Owed(q)
  BY <1>1, <1>2, OwedSame, OwedNothing
<1>5. Counter(n, key)' = Counter(n, key)
  BY <1>3 DEF Counter
<1> QED
  BY <1>3, <1>4, <1>5, EndsKept DEF Exists

LEMMA FailEnds ==
  ASSUME TypeOK, NEW r \in Requests, Fail(r),
         NEW n \in Nodes, NEW key \in KeyNames, KeyEnds(n, key)
  PROVE  KeyEnds(n, key)'
<1>1. \A q \in Requests : q # r => Owed(q)' = Owed(q)
  BY FailTyped, OwedSame
<1>2. orphans \cup Owed(r) \subseteq orphans' /\ Counter(n, key)' = Counter(n, key)
  BY DEF Fail, Counter
<1> QED
  BY <1>1, <1>2 DEF KeyEnds, Ends, Arming, Exists

\* The commands on the push counter.
LEMMA LimiterEnds ==
  ASSUME TypeOK, NEW r \in Requests, SetLimiter(r) \/ IncrLimiter(r) \/ ArmLimiter(r),
         NEW n \in Nodes, NEW key \in KeyNames, KeyEnds(n, key)
  PROVE  KeyEnds(n, key)'
<1>1. \A q \in Requests : q # r => requests'[q] = requests[q]
  BY SetLimiterTyped, IncrLimiterTyped, ArmLimiterTyped
<1>2. \A q \in Requests : q # r => Owed(q)' = Owed(q)
  BY <1>1, OwedSame
<1>3. UNCHANGED <<strikes, orphans>>
  BY DEF SetLimiter, IncrLimiter, ArmLimiter
<1>4. /\ Node(r) \in Nodes /\ limiter[Node(r)] \in Counters
      /\ \A m \in Nodes : m # Node(r) => limiter'[m] = limiter[m]
  <2>1. requests[r].pc \in PushPcs
    BY DEF SetLimiter, IncrLimiter, ArmLimiter, At, PushPcs
  <2> QED
    BY <2>1, AtPush, SetLimiterTyped, IncrLimiterTyped, ArmLimiterTyped
<1>5. Owed(r) \subseteq {<<Node(r), "limiter">>}
  BY DEF SetLimiter, IncrLimiter, ArmLimiter, Owed, At
<1>6. CASE n # Node(r) \/ key # "limiter"
  <2>1. Counter(n, key)' = Counter(n, key)
    BY <1>3, <1>4, <1>6 DEF Counter
  <2>2. <<n, key>> \notin Owed(r)
    BY <1>5, <1>6
  <2> QED
    BY <1>2, <1>3, <2>1, <2>2, EndsKept DEF Exists
<1>7. CASE n = Node(r) /\ key = "limiter"
  <2>1. Counter(n, key) = limiter[n] /\ Counter(n, key)' = limiter'[n]
    BY <1>7 DEF Counter
  <2>2. CASE SetLimiter(r)
    <3>1. limiter'[n].armed
      BY <1>7, <2>2, SetLimiterTyped, CountersTyped
    <3> QED
      BY <2>1, <3>1 DEF KeyEnds, Ends
  <2>3. CASE ArmLimiter(r)
    <3>1. limiter'[n] = Expire(limiter[n])
      BY <1>7, <2>3, ArmLimiterTyped
    <3>2. Exists(limiter'[n]) => limiter'[n].armed
      BY <1>4, <1>7, <3>1, CountersTyped DEF Exists
    <3> QED
      BY <2>1, <3>2 DEF KeyEnds, Ends, Exists
  <2>4. CASE IncrLimiter(r)
    <3>1. /\ limiter[n].count \in Nat
          /\ limiter'[n].count = limiter[n].count + 1
          /\ limiter'[n].armed = limiter[n].armed
      <4>1. limiter'[n] = Incr(limiter[n]) /\ limiter[n] \in Counters
        BY <1>4, <1>7, <2>4, IncrLimiterTyped
      <4> QED
        BY <4>1, CountersTyped
    <3>2. CASE limiter[n].count = 0
      <4>1. WithinRate(limiter'[n].count) /\ FirstPush(limiter'[n].count)
        BY <3>1, <3>2, LimitsAssumption DEF WithinRate, FirstPush
      <4>2. requests'[r].pc = "expire" /\ requests'[r].node = n
        BY <1>7, <2>4, <4>1, IncrLimiterTyped DEF Node
      <4>3. <<n, key>> \in Owed(r)'
        BY <1>7, <4>2 DEF Owed, At, Node
      <4> QED
        BY <4>3 DEF KeyEnds, Ends, Arming
    <3>3. CASE limiter[n].count # 0
      <4>1. Exists(limiter[n])
        BY <3>1, <3>3 DEF Exists
      <4>2. Owed(r) = {}
        BY <2>4, OwedNothing DEF IncrLimiter, At
      <4> QED
        BY <1>2, <1>3, <2>1, <3>1, <4>1, <4>2, EndsKept
    <3> QED
      BY <3>2, <3>3
  <2> QED
    BY <2>2, <2>3, <2>4
<1> QED
  BY <1>6, <1>7

\* The commands on the strike counters, the deletions of an unblock among them.
LEMMA StrikesEnds ==
  ASSUME TypeOK, NEW r \in Requests, RecordStrike(r) \/ ArmStrikes(r),
         NEW n \in Nodes, NEW key \in KeyNames, KeyEnds(n, key)
  PROVE  KeyEnds(n, key)'
<1> DEFINE k == Category(requests[r].bundle)
<1>1. \A q \in Requests : q # r => Owed(q)' = Owed(q)
  BY RecordStrikeTyped, ArmStrikesTyped, OwedSame
<1>2. UNCHANGED limiter /\ (<<n, key>> \in orphans => <<n, key>> \in orphans')
  BY KeyIsNoVerdict DEF RecordStrike, TakeUp, ArmStrikes
<1>3. /\ Node(r) \in Nodes /\ k \in CategoryNames /\ strikes[Node(r)][k] \in Counters
      /\ \A m \in Nodes, j \in CategoryNames :
            m # Node(r) \/ j # k => strikes'[m][j] = strikes[m][j]
  BY RecordStrikeTyped, ArmStrikesTyped DEF TypeOK
<1>4. Owed(r) \subseteq {<<Node(r), k>>}
  BY DEF RecordStrike, ArmStrikes, Owed, At
<1>5. k # "limiter"
  BY <1>3, CategoriesAre
<1>6. CASE n # Node(r) \/ key # k
  <2>1. Counter(n, key)' = Counter(n, key)
    BY <1>2, <1>3, <1>6 DEF Counter, KeyNames
  <2>2. <<n, key>> \notin Owed(r)
    BY <1>4, <1>6
  <2> QED
    BY <1>1, <1>2, <2>1, <2>2, EndsKept DEF Exists
<1>7. CASE n = Node(r) /\ key = k
  <2>1. Counter(n, key) = strikes[n][k] /\ Counter(n, key)' = strikes'[n][key]
    BY <1>5, <1>7 DEF Counter
  <2>2. CASE ArmStrikes(r)
    <3>1. strikes'[n][key] = Expire(strikes[n][key])
      BY <1>7, <2>2, ArmStrikesTyped
    <3>2. Exists(strikes'[n][key]) => strikes'[n][key].armed
      <4>1. strikes[n][key] \in Counters
        BY <1>3, <1>7
      <4> QED
        BY <3>1, <4>1, CountersTyped DEF Exists
    <3> QED
      BY <2>1, <3>2 DEF KeyEnds, Ends, Exists
  <2>3. CASE RecordStrike(r)
    <3>1. /\ strikes[n][key].count \in Nat
          /\ strikes'[n][key].count = strikes[n][key].count + 1
          /\ strikes'[n][key].armed = strikes[n][key].armed
      <4>1. strikes'[n][key] = Incr(strikes[n][key]) /\ strikes[n][key] \in Counters
        BY <1>3, <1>7, <2>3, RecordStrikeTyped
      <4> QED
        BY <4>1, CountersTyped
    <3>2. CASE strikes[n][key].count = 0
      <4>1. FirstStrike(strikes'[n][key].count)
        BY <3>1, <3>2 DEF FirstStrike
      <4>2. /\ requests'[r].pc = "window" /\ requests'[r].node = n
            /\ requests'[r].bundle = requests[r].bundle
        BY <1>7, <2>3, <4>1, RecordStrikeTyped DEF Node
      <4>3. <<n, key>> \in Owed(r)'
        BY <1>7, <4>2 DEF Owed, At, Node
      <4> QED
        BY <4>3 DEF KeyEnds, Ends, Arming
    <3>3. CASE strikes[n][key].count # 0
      <4>1. Exists(strikes[n][key])
        BY <3>1, <3>3 DEF Exists
      <4>2. Owed(r) = {}
        BY <2>3, OwedNothing DEF RecordStrike, At
      <4> QED
        BY <1>1, <1>2, <1>7, <2>1, <3>1, <4>1, <4>2, EndsKept
    <3> QED
      BY <3>2, <3>3
  <2> QED
    BY <2>2, <2>3
<1> QED
  BY <1>6, <1>7

LEMMA ClearEnds ==
  ASSUME TypeOK, NEW r \in Requests, ClearNext(r),
         NEW n \in Nodes, NEW key \in KeyNames, KeyEnds(n, key)
  PROVE  KeyEnds(n, key)'
<1> DEFINE k == Categories[requests[r].next]
<1>1. \A q \in Requests : q # r => Owed(q)' = Owed(q)
  BY ClearTyped, OwedSame
<1>2. UNCHANGED <<limiter, orphans>> /\ Owed(r) = {}
  BY OwedNothing DEF ClearNext, At
<1>3. /\ Node(r) \in Nodes /\ k \in CategoryNames /\ strikes'[Node(r)][k] = Absent
      /\ \A m \in Nodes, j \in CategoryNames :
            m # Node(r) \/ j # k => strikes'[m][j] = strikes[m][j]
  BY ClearTyped
<1>4. CASE n # Node(r) \/ key # k
  <2>1. Counter(n, key)' = Counter(n, key)
    BY <1>2, <1>3, <1>4 DEF Counter, KeyNames
  <2> QED
    BY <1>1, <1>2, <2>1, EndsKept DEF Exists
<1>5. CASE n = Node(r) /\ key = k
  <2>1. Counter(n, key)' = Absent
    BY <1>3, <1>5, CategoriesAre DEF Counter
  <2> QED
    BY <2>1, CountersTyped DEF KeyEnds, Ends
<1> QED
  BY <1>4, <1>5

LEMMA StrikeGone ==
  ASSUME TypeOK, NEW m \in Nodes, NEW c \in CategoryNames, StrikesExpire(m, c)
  PROVE  /\ strikes'[m][c] = Absent
         /\ \A i \in Nodes, j \in CategoryNames :
               i # m \/ j # c => strikes'[i][j] = strikes[i][j]
  BY DEF StrikesExpire, TypeOK

\* Admins and the clock.
LEMMA OutsideEnds ==
  ASSUME TypeOK, NEW m \in Nodes, AdminBlock(m) \/ Clock(m),
         NEW n \in Nodes, NEW key \in KeyNames, KeyEnds(n, key)
  PROVE  KeyEnds(n, key)'
<1>1. UNCHANGED <<requests, orphans>>
  BY DEF AdminBlock, Clock, LimiterExpires, StrikesExpire
<1>2. \A q \in Requests : Owed(q)' = Owed(q)
  BY <1>1, OwedSame
<1>3. Counter(n, key)' = Counter(n, key) \/ Counter(n, key)' = Absent
  <2>1. CASE AdminBlock(m)
    BY <2>1 DEF AdminBlock, Counter
  <2>2. CASE LimiterExpires(m)
    BY <2>2 DEF LimiterExpires, Counter, TypeOK
  <2>3. ASSUME NEW c \in CategoryNames, StrikesExpire(m, c)
        PROVE  Counter(n, key)' = Counter(n, key) \/ Counter(n, key)' = Absent
    <3>1. /\ strikes'[m][c] = Absent
          /\ \A i \in Nodes, j \in CategoryNames :
                i # m \/ j # c => strikes'[i][j] = strikes[i][j]
      BY <2>3, StrikeGone
    <3> QED
      BY <2>3, <3>1 DEF StrikesExpire, Counter, KeyNames
  <2> QED
    BY <2>1, <2>2, <2>3 DEF Clock
<1> QED
  BY <1>1, <1>2, <1>3, EndsKept, CountersTyped DEF Exists

\* No counter stays for ever, whatever else runs, fails or expires: TypeOK makes
\* the statement inductive (abuse.py: INCR and EXPIRE are two commands).
THEOREM CountersAllEnd == Spec => []CountersEnd
<1>1. Init => CountersEnd
  BY CountersTyped DEF Init, CountersEnd, Ends
<1>2. TypeOK /\ CountersEnd /\ [Next]_vars => CountersEnd'
  <2> SUFFICES ASSUME TypeOK, [Next]_vars,
                      \A n \in Nodes, key \in KeyNames : KeyEnds(n, key),
                      NEW n \in Nodes, NEW key \in KeyNames
               PROVE  KeyEnds(n, key)'
    <3>1. CountersEnd' <=> \A n \in Nodes, key \in KeyNames : KeyEnds(n, key)'
      BY CategoriesAre DEF CountersEnd, KeyNames, KeyEnds, Counter
    <3> QED
      BY <3>1, CountersEndKeywise
  <2>0. KeyEnds(n, key)
    OBVIOUS
  <2>1. CASE UNCHANGED vars
    BY <2>0, <2>1 DEF vars, KeyEnds, Ends, Arming, Owed, At, Node, Counter
  <2>2. ASSUME NEW r \in Requests, Arrive(r) PROVE KeyEnds(n, key)'
    BY <2>0, <2>2, ArriveEnds
  <2>3. ASSUME NEW r \in Requests, Continue(r) PROVE KeyEnds(n, key)'
    BY <2>0, <2>3, QuietEnds, LimiterEnds, StrikesEnds, ClearEnds DEF Continue, Command
  <2>4. ASSUME NEW r \in Requests, Fail(r) PROVE KeyEnds(n, key)'
    BY <2>0, <2>4, FailEnds
  <2>5. ASSUME NEW m \in Nodes, AdminBlock(m) \/ Clock(m) PROVE KeyEnds(n, key)'
    BY <2>0, <2>5, OutsideEnds
  <2> QED
    BY <2>1, <2>2, <2>3, <2>4, <2>5 DEF Next
<1> QED
  BY <1>1, <1>2, GateTyped, PTL DEF Spec

-----------------------------------------------------------------------------
(* What a window lets through.                                             *)

\* The requests about to send SETEX for the node: each has looked at its key
\* while there was none.
Late(n) == {r \in Requests : At(r, "setex") /\ Node(r) = n}

\* Pushes that k late requests may still make room for, and those that the
\* count of the key stands for.
Worth(k) == Rate * k
Used(count) == IF count < Rate THEN count ELSE Rate

\* The inductive invariant: a late request is yet to be admitted once, and yet to
\* make room for Rate pushes.
Capped(n) ==
    LET late == Cardinality(Late(n))
        all == Cardinality(Requests)
    IN  /\ ~Exists(limiter[n]) => admitted[n].all = 0 /\ admitted[n].limited = 0
        /\ admitted[n].limited + late <= all
        /\ Exists(limiter[n]) =>
              admitted[n].all + Worth(late) + Rate <= Worth(all) + Used(limiter[n].count)

LEMMA WorthAre ==
  /\ \A k \in Nat : Worth(k) \in Nat /\ Worth(k + 1) = Worth(k) + Rate
  /\ \A j, k \in Nat : j <= k => Worth(j) <= Worth(k)
<1>1. ASSUME NEW k \in Nat PROVE Worth(k) \in Nat /\ Worth(k + 1) = Worth(k) + Rate
  BY LimitsAssumption DEF Worth
<1>2. ASSUME NEW j \in Nat, NEW k \in Nat, j <= k PROVE Worth(j) <= Worth(k)
  BY <1>2, LimitsAssumption DEF Worth
<1> QED
  BY <1>1, <1>2

LEMMA SomeRequests == Cardinality(Requests) \in Nat
  BY RequestsAssumption, FS_CardinalityType

LEMMA CountLate ==
  ASSUME NEW L \in SUBSET Requests
  PROVE  /\ Cardinality(L) \in Nat /\ Cardinality(L) <= Cardinality(Requests)
         /\ \A M \in SUBSET L : Cardinality(M) \in Nat /\ Cardinality(M) <= Cardinality(L)
         /\ \A r \in L : Cardinality(L) = Cardinality(L \ {r}) + 1
         /\ \A r \in Requests \ L : Cardinality(L) + 1 <= Cardinality(Requests)
<1>1. IsFiniteSet(L) /\ Cardinality(L) \in Nat /\ Cardinality(L) <= Cardinality(Requests)
  BY RequestsAssumption, FS_Subset, FS_CardinalityType
<1>2. ASSUME NEW M \in SUBSET L
      PROVE  Cardinality(M) \in Nat /\ Cardinality(M) <= Cardinality(L)
  BY <1>1, FS_Subset, FS_CardinalityType
<1>3. ASSUME NEW r \in L
      PROVE  Cardinality(L) = Cardinality(L \ {r}) + 1
  <2>1. Cardinality(L \ {r}) = Cardinality(L) - 1
    BY <1>1, FS_RemoveElement
  <2> QED
    BY <1>1, <2>1
<1>4. ASSUME NEW r \in Requests \ L
      PROVE  Cardinality(L) + 1 <= Cardinality(Requests)
  <2>1. IsFiniteSet(Requests \ {r}) /\ Cardinality(Requests \ {r}) = Cardinality(Requests) - 1
    BY RequestsAssumption, FS_RemoveElement
  <2>2. L \subseteq Requests \ {r}
    OBVIOUS
  <2>3. Cardinality(L) <= Cardinality(Requests \ {r})
    BY <2>1, <2>2, FS_Subset
  <2> QED
    BY <1>1, <2>1, <2>3, SomeRequests
<1> QED
  BY <1>1, <1>2, <1>3, <1>4

LEMMA LateTyped ==
  ASSUME NEW n
  PROVE  Late(n) \in SUBSET Requests /\ Late(n)' \in SUBSET Requests
  BY DEF Late

\* What the counts are.
LEMMA TalliesTyped ==
  ASSUME TypeOK, NEW n \in Nodes
  PROVE  /\ admitted[n].all \in Nat /\ admitted[n].limited \in Nat
         /\ limiter[n].count \in Nat
         /\ Exists(limiter[n]) <=> limiter[n].count > 0
         /\ Used(limiter[n].count) \in Nat /\ Used(limiter[n].count) <= Rate
<1>1. limiter[n].count \in Nat /\ admitted[n].all \in Nat /\ admitted[n].limited \in Nat
  BY CountersTyped DEF TypeOK
<1> QED
  BY <1>1, LimitsAssumption DEF Exists, Used

\* A step that neither counts nor admits a push of the node, and after which no
\* more requests are late, unless the node has no key.
LEMMA CappedKept ==
  ASSUME TypeOK, NEW n \in Nodes, Capped(n),
         limiter'[n].count = limiter[n].count, admitted'[n] = admitted[n],
         Exists(limiter[n]) => Late(n)' \subseteq Late(n)
  PROVE  Capped(n)'
<1> DEFINE late == Cardinality(Late(n))
           late2 == Cardinality(Late(n)')
<1>1. late \in Nat /\ late2 \in Nat /\ late2 <= Cardinality(Requests)
  BY LateTyped, CountLate
<1>2. Exists(limiter'[n]) <=> Exists(limiter[n])
  BY DEF Exists
<1>3. CASE ~Exists(limiter[n])
  <2>1. admitted'[n].all = 0 /\ admitted'[n].limited = 0
    BY <1>3 DEF Capped
  <2>2. admitted'[n].limited + late2 <= Cardinality(Requests)
    <3> HIDE DEF late2
    <3> QED
      BY <1>1, <2>1
  <2> QED
    BY <1>2, <1>3, <2>1, <2>2 DEF Capped
<1>4. CASE Exists(limiter[n])
  <2>1. late2 <= late
    BY <1>4, LateTyped, CountLate
  <2>2. Worth(late2) <= Worth(late) /\ Worth(late) \in Nat /\ Worth(late2) \in Nat
    BY <1>1, <2>1, WorthAre
  <2>3. /\ admitted[n].limited + late <= Cardinality(Requests)
        /\ admitted[n].all + Worth(late) + Rate
              <= Worth(Cardinality(Requests)) + Used(limiter[n].count)
    BY <1>4 DEF Capped
  <2>4. /\ admitted[n].all \in Nat /\ admitted[n].limited \in Nat
        /\ Used(limiter[n].count) \in Nat
        /\ Worth(Cardinality(Requests)) \in Nat /\ Rate \in Nat /\ Cardinality(Requests) \in Nat
    BY TalliesTyped, WorthAre, SomeRequests, LimitsAssumption
  <2>5. /\ admitted[n].limited + late2 <= Cardinality(Requests)
        /\ admitted[n].all + Worth(late2) + Rate
              <= Worth(Cardinality(Requests)) + Used(limiter[n].count)
    <3> HIDE DEF late, late2
    <3> QED
      BY <1>1, <2>1, <2>2, <2>3, <2>4
  <2> QED
    BY <1>2, <1>4, <2>5 DEF Capped
<1> QED
  BY <1>3, <1>4

\* A step of a request that does not become late takes the others as they are.
LEMMA LateFewer ==
  ASSUME NEW n, NEW r \in Requests,
         requests'[r].pc # "setex" \/ requests'[r].node # n,
         \A q \in Requests : q # r => requests'[q] = requests[q]
  PROVE  Late(n)' = Late(n) \ {r}
  BY DEF Late, At, Node

\* The steps of a request that neither count nor admit.
LEMMA QuietCapped ==
  ASSUME TypeOK, NEW r \in Requests,
         \/ Arrive(r) \/ ReadNext(r) \/ DecideLimit(r) \/ PassAudit(r) \/ RecordStrike(r)
         \/ ArmStrikes(r) \/ DecideBlock(r) \/ BlockNode(r) \/ ClearNext(r) \/ Fail(r),
         NEW n \in Nodes, Capped(n)
  PROVE  Capped(n)'
<1>1. UNCHANGED <<limiter, admitted>>
  BY DEF Arrive, StartPush, StartUnblock, ReadNext, DecideLimit, PassAudit, RecordStrike,
         ArmStrikes, DecideBlock, BlockNode, ClearNext, Fail
<1>2. \A q \in Requests : q # r => requests'[q] = requests[q]
  BY ReadsTyped, DecidesTyped, RecordStrikeTyped, ArmStrikesTyped, BlockTyped, ClearTyped,
     FailTyped DEF Arrive, StartPush, StartUnblock, Goto, TypeOK
<1>3. requests'[r].pc # "setex"
  <2>1. CASE Arrive(r)
    BY <2>1 DEF Arrive, StartPush, StartUnblock, Goto, TypeOK
  <2>2. CASE ReadNext(r)
    BY <2>2, ReadsTyped DEF ReadNext, At
  <2>3. CASE DecideLimit(r)
    <3>1. \E pc \in {"exists", "incr"} : Move(r, pc)
      BY <2>3 DEF DecideLimit
    <3>2. requests[r] \in PushCalls /\ {"exists", "incr"} \subseteq PushPcs
      BY <2>3, CallKinds DEF DecideLimit, At, PushPcs
    <3> QED
      BY <3>1, <3>2, MoveTyped
  <2>4. CASE PassAudit(r) \/ BlockNode(r) \/ Fail(r)
    BY <2>4, ReturnTyped DEF PassAudit, BlockNode, Fail, Idle
  <2>5. CASE RecordStrike(r)
    BY <2>5, RecordStrikeTyped
  <2>6. CASE ArmStrikes(r)
    BY <2>6, ArmStrikesTyped
  <2>7. CASE DecideBlock(r)
    <3>1. Move(r, "block") \/ Return(r)
      BY <2>7 DEF DecideBlock
    <3>2. requests[r] \in PushCalls /\ "block" \in PushPcs
      BY <2>7, CallKinds DEF DecideBlock, At, PushPcs
    <3> QED
      BY <3>1, <3>2, MoveTyped, ReturnTyped DEF Idle
  <2>8. CASE ClearNext(r)
    BY <2>8, ClearTyped DEF Idle
  <2> QED
    BY <2>1, <2>2, <2>3, <2>4, <2>5, <2>6, <2>7, <2>8
<1>4. Late(n)' \subseteq Late(n)
  BY <1>2, <1>3, LateFewer
<1> QED
  BY <1>1, <1>4, CappedKept

LEMMA CheckCapped ==
  ASSUME TypeOK, NEW r \in Requests, CheckExists(r), NEW n \in Nodes, Capped(n)
  PROVE  Capped(n)'
<1>1. UNCHANGED <<limiter, admitted>>
  BY DEF CheckExists
<1>2. \A q \in Requests : q # r => requests'[q] = requests[q]
  BY DecidesTyped
<1>3. CASE Return(r)
  <2>1. requests'[r].pc # "setex"
    BY <1>3, ReturnTyped DEF Idle
  <2> QED
    BY <1>1, <1>2, <2>1, LateFewer, CappedKept
<1>4. CASE ~Exists(limiter[Node(r)]) /\ Move(r, "setex")
  <2>1. requests[r] \in PushCalls /\ "setex" \in PushPcs
    BY CallKinds DEF CheckExists, At, PushPcs
  <2>2. requests'[r].node = Node(r)
    BY <1>4, <2>1, MoveTyped DEF Node
  <2>3. Exists(limiter[n]) => Late(n)' \subseteq Late(n)
    BY <1>2, <1>4, <2>2, LateFewer
  <2> QED
    BY <1>1, <2>3, CappedKept
<1> QED
  BY <1>3, <1>4 DEF CheckExists, MayPass

LEMMA ArmCapped ==
  ASSUME TypeOK, NEW r \in Requests, ArmLimiter(r), NEW n \in Nodes, Capped(n)
  PROVE  Capped(n)'
<1>1. limiter'[n].count = limiter[n].count
  <2>1. CASE n = Node(r)
    <3>1. limiter'[n] = Expire(limiter[n]) /\ limiter[n] \in Counters
      BY <2>1, ArmLimiterTyped DEF TypeOK
    <3> QED
      BY <3>1, CountersTyped
  <2>2. CASE n # Node(r)
    BY <2>2, ArmLimiterTyped
  <2> QED
    BY <2>1, <2>2
<1>2. Late(n)' \subseteq Late(n)
  BY ArmLimiterTyped, LateFewer
<1> QED
  BY <1>1, <1>2, CappedKept DEF ArmLimiter

\* The SETEX of a late request: one admission more, one late request less.
LEMMA SetCapped ==
  ASSUME TypeOK, NEW r \in Requests, SetLimiter(r), NEW n \in Nodes, Capped(n)
  PROVE  Capped(n)'
<1>1. Late(n)' = Late(n) \ {r}
  BY SetLimiterTyped, LateFewer
<1>2. CASE n # Node(r)
  <2>1. limiter'[n] = limiter[n]
    BY <1>2, SetLimiterTyped
  <2>2. admitted'[n] = admitted[n]
    BY <1>2, SetLimiterTyped, AdmitTyped DEF SetLimiter
  <2> QED
    BY <1>1, <2>1, <2>2, CappedKept
<1>3. CASE n = Node(r)
  <2> DEFINE late == Cardinality(Late(n))
             late2 == Cardinality(Late(n)')
             R == Cardinality(Requests)
  <2>1. r \in Late(n)
    BY <1>3 DEF Late, SetLimiter
  <2>2. late2 \in Nat /\ late = late2 + 1 /\ late <= R /\ R \in Nat
    BY <1>1, <2>1, LateTyped, CountLate, SomeRequests
  <2>3. Worth(late) = Worth(late2) + Rate /\ Worth(late2) \in Nat
    BY <2>2, WorthAre
  <2>4. Worth(late) <= Worth(R) /\ Worth(R) \in Nat
    BY <2>2, WorthAre
  <2>5. /\ limiter'[n].count = 1 /\ Exists(limiter'[n])
        /\ admitted'[n].all = admitted[n].all + 1
        /\ admitted'[n].limited = admitted[n].limited + 1
    <3>1. limiter'[n] = SetEx
      BY <1>3, SetLimiterTyped
    <3>2. Admit(n, TRUE)
      BY <1>3 DEF SetLimiter
    <3> QED
      BY <3>1, <3>2, CountersTyped, AdmitTyped
  <2>6. Used(limiter'[n].count) = 1
    BY <2>5, LimitsAssumption DEF Used
  <2>7. /\ admitted[n].all \in Nat /\ admitted[n].limited \in Nat /\ Rate \in Nat
        /\ Used(limiter[n].count) \in Nat /\ Used(limiter[n].count) <= Rate
    BY TalliesTyped, LimitsAssumption
  <2>8. /\ ~Exists(limiter[n]) => admitted[n].all = 0 /\ admitted[n].limited = 0
        /\ admitted[n].limited + late <= R
        /\ Exists(limiter[n]) =>
              admitted[n].all + Worth(late) + Rate <= Worth(R) + Used(limiter[n].count)
    BY DEF Capped
  <2>9. /\ admitted'[n].limited + late2 <= R
        /\ admitted'[n].all + Worth(late2) + Rate <= Worth(R) + 1
    <3> HIDE DEF late, late2, R
    <3>1. CASE Exists(limiter[n])
      BY <3>1, <2>2, <2>3, <2>4, <2>5, <2>7, <2>8
    <3>2. CASE ~Exists(limiter[n])
      BY <3>2, <2>2, <2>3, <2>4, <2>5, <2>7, <2>8
    <3> QED
      BY <3>1, <3>2
  <2> QED
    BY <2>5, <2>6, <2>9 DEF Capped
<1> QED
  BY <1>2, <1>3

\* The INCR: at most Rate of them are admitted in a row.
LEMMA IncrCapped ==
  ASSUME TypeOK, NEW r \in Requests, IncrLimiter(r), NEW n \in Nodes, Capped(n)
  PROVE  Capped(n)'
<1>1. requests[r].pc = "incr" /\ requests'[r].pc # "setex"
  <2>1. requests[r].pc = "incr"
    BY DEF IncrLimiter, At
  <2>2. Idle.pc = "idle"
    BY DEF Idle
  <2>3. requests'[r].pc \in {"expire", "audit"} \/ requests'[r] = Idle
    BY IncrLimiterTyped
  <2> QED
    BY <2>1, <2>2, <2>3
<1>2. r \notin Late(n) /\ Late(n)' = Late(n)
  <2>1. r \notin Late(n)
    BY <1>1 DEF Late, At
  <2>2. \A q \in Requests : q # r => requests'[q] = requests[q]
    BY IncrLimiterTyped
  <2>3. Late(n)' = Late(n) \ {r}
    BY <1>1, <2>2, LateFewer
  <2> QED
    BY <2>1, <2>3
<1>3. CASE n # Node(r)
  <2>1. limiter'[n] = limiter[n] /\ admitted'[n] = admitted[n]
    BY <1>3, IncrLimiterTyped, AdmitTyped
  <2> QED
    BY <1>2, <2>1, CappedKept
<1>4. CASE n = Node(r)
  <2> DEFINE late == Cardinality(Late(n))
             R == Cardinality(Requests)
             count == limiter[n].count
  <2>1. late \in Nat /\ late + 1 <= R /\ R \in Nat
    BY <1>2, LateTyped, CountLate, SomeRequests
  <2>2. /\ Worth(late) \in Nat /\ Worth(R) \in Nat
        /\ Worth(late) + Rate <= Worth(R)
    <3>1. Worth(late + 1) = Worth(late) + Rate /\ Worth(late) \in Nat
      BY <2>1, WorthAre
    <3>2. late + 1 \in Nat
      BY <2>1
    <3>3. Worth(late + 1) <= Worth(R) /\ Worth(R) \in Nat
      <4> HIDE DEF late, R
      <4> QED
        BY <2>1, <3>2, WorthAre
    <3> QED
      BY <3>1, <3>3
  <2>3. /\ limiter'[n].count = count + 1
        /\ Exists(limiter'[n])
        /\ count \in Nat /\ Rate \in Nat /\ Rate >= 1
        /\ admitted[n].all \in Nat /\ admitted[n].limited \in Nat
        /\ Exists(limiter[n]) <=> count > 0
    <3>1. limiter'[n] = Incr(limiter[n]) /\ limiter[n] \in Counters
      BY <1>4, IncrLimiterTyped DEF TypeOK
    <3>2. limiter'[n].count = count + 1
      BY <3>1, CountersTyped
    <3>3. count \in Nat /\ admitted[n].all \in Nat /\ admitted[n].limited \in Nat
      BY TalliesTyped
    <3> QED
      BY <3>2, <3>3, LimitsAssumption DEF Exists
  <2>4. /\ admitted'[n].limited = admitted[n].limited
        /\ \/ admitted'[n].all = admitted[n].all + 1 /\ count + 1 <= Rate
           \/ admitted'[n].all = admitted[n].all /\ count + 1 > Rate
    <3>1. CASE WithinRate(limiter'[n].count) /\ Admit(n, FALSE)
      <4>1. admitted'[n].limited = admitted[n].limited /\ admitted'[n].all = admitted[n].all + 1
        BY <3>1, AdmitTyped
      <4> QED
        BY <2>3, <3>1, <4>1 DEF WithinRate
    <3>2. CASE ~WithinRate(limiter'[n].count) /\ UNCHANGED admitted
      BY <2>3, <3>2 DEF WithinRate
    <3> QED
      BY <1>4, <3>1, <3>2, IncrLimiterTyped
  <2>5. /\ ~Exists(limiter[n]) => admitted[n].all = 0 /\ admitted[n].limited = 0
        /\ admitted[n].limited + late <= R
        /\ Exists(limiter[n]) =>
              admitted[n].all + Worth(late) + Rate <= Worth(R) + Used(count)
    BY DEF Capped
  <2>6. /\ admitted'[n].limited + late <= R
        /\ admitted'[n].all + Worth(late) + Rate <= Worth(R) + Used(count + 1)
    <3>1. /\ Used(count) = IF count < Rate THEN count ELSE Rate
          /\ Used(count + 1) = IF count + 1 < Rate THEN count + 1 ELSE Rate
      BY DEF Used
    <3> HIDE DEF late, R, count
    <3>2. CASE Exists(limiter[n])
      BY <2>1, <2>2, <2>3, <2>4, <2>5, <3>1, <3>2
    <3>3. CASE ~Exists(limiter[n])
      BY <2>1, <2>2, <2>3, <2>4, <2>5, <3>1, <3>3
    <3> QED
      BY <3>2, <3>3
  <2> QED
    BY <1>2, <2>3, <2>6 DEF Capped
<1> QED
  BY <1>3, <1>4

LEMMA OutsideCapped ==
  ASSUME TypeOK, NEW m \in Nodes, AdminBlock(m) \/ Clock(m), NEW n \in Nodes, Capped(n)
  PROVE  Capped(n)'
<1>1. UNCHANGED requests /\ Late(n)' = Late(n)
  BY DEF AdminBlock, Clock, LimiterExpires, StrikesExpire, Late, At, Node
<1>2. CASE limiter'[n] = limiter[n] /\ admitted'[n] = admitted[n]
  BY <1>1, <1>2, CappedKept
<1>3. CASE limiter'[n] = Absent /\ admitted'[n] = NoneAdmitted
  <2>1. /\ Cardinality(Late(n)) \in Nat /\ Cardinality(Late(n)) <= Cardinality(Requests)
        /\ admitted'[n].all = 0 /\ admitted'[n].limited = 0 /\ ~Exists(limiter'[n])
    BY <1>3, LateTyped, CountLate, CountersTyped DEF NoneAdmitted
  <2> QED
    BY <1>1, <2>1 DEF Capped
<1> QED
  BY <1>2, <1>3 DEF AdminBlock, Clock, LimiterExpires, StrikesExpire, TypeOK

LEMMA GateCapped == Spec => [](TypeOK /\ \A n \in Nodes : Capped(n))
<1> DEFINE Inv == \A n \in Nodes : Capped(n)
<1>1. Init => Inv
  <2> SUFFICES ASSUME Init, NEW n \in Nodes PROVE Capped(n)
    OBVIOUS
  <2>1. TypeOK
    BY InitTyped
  <2>2. limiter[n] = Absent /\ admitted[n] = NoneAdmitted
    BY DEF Init
  <2>3. /\ Cardinality(Late(n)) \in Nat /\ Cardinality(Late(n)) <= Cardinality(Requests)
        /\ admitted[n].all = 0 /\ admitted[n].limited = 0 /\ ~Exists(limiter[n])
    BY <2>2, LateTyped, CountLate, CountersTyped DEF NoneAdmitted
  <2> QED
    BY <2>3 DEF Capped
<1>2. TypeOK /\ Inv /\ [Next]_vars => Inv'
  <2> SUFFICES ASSUME TypeOK, Inv, [Next]_vars, NEW n \in Nodes PROVE Capped(n)'
    OBVIOUS
  <2>0. Capped(n)
    OBVIOUS
  <2>1. CASE UNCHANGED vars
    BY <2>0, <2>1 DEF vars, Capped, Late, At, Node
  <2>2. ASSUME NEW r \in Requests, Arrive(r) \/ Continue(r) \/ Fail(r) PROVE Capped(n)'
    BY <2>0, <2>2, QuietCapped, CheckCapped, ArmCapped, SetCapped, IncrCapped
       DEF Continue, Command
  <2>3. ASSUME NEW m \in Nodes, AdminBlock(m) \/ Clock(m) PROVE Capped(n)'
    BY <2>0, <2>3, OutsideCapped
  <2> QED
    BY <2>1, <2>2, <2>3 DEF Next
<1> QED
  BY <1>1, <1>2, GateTyped, PTL DEF Spec

\* In one window the push of every request may get through by EXISTS and SETEX,
\* none twice (check_rate_limit of a limited node).
THEOREM LimitedFew == Spec => []LimitedCap
<1>1. TypeOK /\ (\A n \in Nodes : Capped(n)) => LimitedCap
  <2> SUFFICES ASSUME TypeOK, NEW n \in Nodes, Capped(n)
               PROVE  admitted[n].limited <= Cardinality(Requests)
    BY DEF LimitedCap
  <2>1. Cardinality(Late(n)) \in Nat
    BY LateTyped, CountLate
  <2>2. admitted[n].limited + Cardinality(Late(n)) <= Cardinality(Requests)
    BY DEF Capped
  <2> QED
    BY <2>1, <2>2, TalliesTyped, SomeRequests
<1> QED
  BY <1>1, GateCapped, PTL

\* In one window no more than Rate pushes per request get through, limited or
\* not (check_rate_limit).
THEOREM WindowIsCapped == Spec => []WindowCap
<1>1. TypeOK /\ (\A n \in Nodes : Capped(n)) => WindowCap
  <2> SUFFICES ASSUME TypeOK, NEW n \in Nodes, Capped(n)
               PROVE  admitted[n].all <= Rate * Cardinality(Requests)
    BY DEF WindowCap
  <2> DEFINE late == Cardinality(Late(n))
             R == Cardinality(Requests)
  <2>1. late \in Nat /\ R \in Nat
    BY LateTyped, CountLate, SomeRequests
  <2>2. Worth(late) \in Nat /\ Worth(R) \in Nat
    <3> HIDE DEF late, R
    <3> QED
      BY <2>1, WorthAre
  <2>3. CASE Exists(limiter[n])
    <3>1. admitted[n].all + Worth(late) + Rate <= Worth(R) + Used(limiter[n].count)
      BY <2>3 DEF Capped
    <3>2. admitted[n].all <= Worth(R)
      <4> HIDE DEF late, R
      <4> QED
        BY <2>2, <3>1, TalliesTyped, LimitsAssumption
    <3> QED
      BY <3>2 DEF Worth
  <2>4. CASE ~Exists(limiter[n])
    <3>1. admitted[n].all <= Worth(R)
      BY <2>2, <2>4 DEF Capped
    <3> QED
      BY <3>1 DEF Worth
  <2> QED
    BY <2>3, <2>4
<1> QED
  BY <1>1, GateCapped, PTL

-----------------------------------------------------------------------------
(* No abuser escapes.                                                      *)

\* The weighted strikes of the categories that come before the k-th.
Prefix(s, k) ==
    (IF k > 1 THEN s["syntax"].count ELSE 0) + (IF k > 2 THEN 3 * s["security"].count ELSE 0)

\* A striker that has read at least what the categories before the next hold, or
\* has read enough; an unblock with less than Hard before the next category.
Watches(r, n) ==
    /\ ~At(r, "idle") /\ Node(r) = n
    /\ \/ /\ At(r, "window") \/ At(r, "hard")
          /\ requests[r].sum >= Prefix(strikes[n], requests[r].next)
       \/ At(r, "block")
       \/ At(r, "clear") /\ Prefix(strikes[n], requests[r].next) < Hard

\* The inductive invariant: as long as a node has the strikes and no block, some
\* request is on the way to block it or to take its strikes away, or has died there.
Watched(n) ==
    blocked[n] = "no" /\ Weighted(n) >= Hard =>
        Abandoned(n) \/ \E r \in Requests : Watches(r, n)

\* Counts.
StrikeRows == [CategoryNames -> Counters]
Weigh(s) == s["syntax"].count + s["general"].count + 3 * s["security"].count

LEMMA WeightsTyped ==
  ASSUME NEW s \in StrikeRows
  PROVE  /\ s["syntax"].count \in Nat
         /\ s["security"].count \in Nat
         /\ s["general"].count \in Nat
         /\ Weigh(s) \in Nat
         /\ \A k \in 1..3 : Prefix(s, k) \in Nat
<1>1. s["syntax"] \in Counters /\ s["security"] \in Counters /\ s["general"] \in Counters
  BY CategoriesAre DEF StrikeRows
<1>2. s["syntax"].count \in Nat /\ s["security"].count \in Nat /\ s["general"].count \in Nat
  BY <1>1 DEF Counters
<1> QED
  BY <1>2 DEF Weigh, Prefix

\* No strike is added.
Eases(s, t) == \A k \in CategoryNames : t[k].count <= s[k].count

LEMMA WeightsEase ==
  ASSUME NEW s \in StrikeRows, NEW t \in StrikeRows, Eases(s, t)
  PROVE  /\ Weigh(t) <= Weigh(s)
         /\ \A k \in 1..3 : Prefix(t, k) <= Prefix(s, k)
<1>1. s["syntax"].count \in Nat /\ s["security"].count \in Nat /\ s["general"].count \in Nat
  BY WeightsTyped
<1>2. t["syntax"].count \in Nat /\ t["security"].count \in Nat /\ t["general"].count \in Nat
  BY WeightsTyped
<1>3. /\ t["syntax"].count <= s["syntax"].count
      /\ t["security"].count <= s["security"].count
      /\ t["general"].count <= s["general"].count
  BY CategoriesAre DEF Eases
<1> QED
  BY <1>1, <1>2, <1>3 DEF Weigh, Prefix

LEMMA RowsTyped ==
  ASSUME TypeOK, NEW n \in Nodes
  PROVE  strikes[n] \in StrikeRows /\ Weighted(n) = Weigh(strikes[n])
  BY DEF TypeOK, StrikeRows, Weighted, Weigh

LEMMA NextIs ==
  ASSUME TypeOK, NEW q \in Requests, NEW n \in Nodes, Watches(q, n)
  PROVE  /\ At(q, "window") \/ At(q, "hard") =>
              requests[q] \in PushCalls /\ requests[q].next \in 1..3 /\ requests[q].sum \in Nat
         /\ At(q, "clear") => requests[q].next \in 1..3
<1>1. At(q, "window") \/ At(q, "hard") => requests[q].pc \in PushPcs
  BY DEF At, PushPcs
<1>2. At(q, "clear") => requests[q] \in UnblockCalls
  BY CallKinds
<1> QED
  BY <1>1, <1>2, AtPush DEF UnblockCalls

LEMMA WatchKept ==
  ASSUME TypeOK, TypeOK', NEW n \in Nodes, Eases(strikes[n], strikes'[n]),
         NEW q \in Requests, requests'[q] = requests[q], Watches(q, n)
  PROVE  Watches(q, n)'
<1> DEFINE k == requests[q].next
           s == strikes[n]
           t == strikes'[n]
<1>1. s \in StrikeRows /\ t \in StrikeRows
  BY DEF TypeOK, StrikeRows
<1>2. ASSUME k \in 1..3
      PROVE  Prefix(s, k) \in Nat /\ Prefix(t, k) \in Nat /\ Prefix(t, k) <= Prefix(s, k)
  <2> HIDE DEF k, s, t
  <2>1. Eases(s, t)
    BY DEF s, t
  <2> QED
    BY <1>1, <1>2, <2>1, WeightsTyped, WeightsEase
<1>3. CASE (At(q, "window") \/ At(q, "hard")) /\ requests[q].sum >= Prefix(s, k)
  <2>1. requests[q].sum >= Prefix(t, k)
    <3>1. k \in 1..3 /\ requests[q].sum \in Nat
      BY <1>3, NextIs
    <3> HIDE DEF k, s, t
    <3> QED
      BY <1>2, <1>3, <3>1
  <2> QED
    BY <1>3, <2>1 DEF Watches, At, Node
<1>4. CASE At(q, "block")
  BY <1>4 DEF Watches, At, Node
<1>5. CASE At(q, "clear") /\ Prefix(s, k) < Hard
  <2>1. Prefix(t, k) < Hard
    <3>1. k \in 1..3
      BY <1>5, NextIs
    <3> HIDE DEF k, s, t
    <3> QED
      BY <1>2, <1>5, <3>1, LimitsAssumption
  <2> QED
    BY <1>5, <2>1 DEF Watches, At, Node
<1> QED
  BY <1>3, <1>4, <1>5 DEF Watches

\* A step that adds no strike of the node, does not unblock it, and after which
\* whoever takes it is no longer needed, goes on watching or has died.
LEMMA WatchedKept ==
  ASSUME TypeOK, TypeOK', NEW n \in Nodes, Watched(n), Eases(strikes[n], strikes'[n]),
         blocked'[n] = "no" => blocked[n] = "no",
         Abandoned(n) => Abandoned(n)',
         \A q \in Requests :
            \/ requests'[q] = requests[q]
            \/ Watches(q, n) => \/ Watches(q, n)' \/ Abandoned(n)'
                                \/ blocked'[n] # "no" \/ Weigh(strikes'[n]) < Hard
  PROVE  Watched(n)'
<1> SUFFICES ASSUME blocked'[n] = "no", Weighted(n)' >= Hard, ~Abandoned(n)'
             PROVE  \E q \in Requests : Watches(q, n)'
  BY DEF Watched
<1>1. /\ strikes[n] \in StrikeRows /\ strikes'[n] \in StrikeRows
      /\ Weighted(n) = Weigh(strikes[n]) /\ Weighted(n)' = Weigh(strikes'[n])
  BY RowsTyped DEF TypeOK, StrikeRows, Weighted, Weigh
<1>2. Weigh(strikes'[n]) <= Weigh(strikes[n])
  BY <1>1, WeightsEase
<1>3. Weigh(strikes'[n]) \in Nat /\ Weigh(strikes[n]) \in Nat /\ Hard \in Nat
  BY <1>1, WeightsTyped, LimitsAssumption
<1>4. Weighted(n) >= Hard /\ ~(Weigh(strikes'[n]) < Hard)
  BY <1>1, <1>2, <1>3
<1>5. PICK q \in Requests : Watches(q, n)
  BY <1>4 DEF Watched
<1>6. CASE requests'[q] = requests[q]
  BY <1>5, <1>6, WatchKept
<1>7. CASE requests'[q] # requests[q]
  BY <1>4, <1>5, <1>7
<1> QED
  BY <1>6, <1>7

LEMMA EasesSame ==
  ASSUME NEW s \in StrikeRows
  PROVE  Eases(s, s)
<1>1. ASSUME NEW k \in CategoryNames PROVE s[k].count <= s[k].count
  <2>1. s[k].count \in Nat
    BY DEF StrikeRows, Counters
  <2> QED
    BY <2>1
<1> QED
  BY <1>1 DEF Eases

\* Who has not struck or unblocked watches nothing.
LEMMA Bystanders ==
  ASSUME TypeOK, NEW r \in Requests, NEW n \in Nodes, Watched(n),
         \/ \E m \in Nodes, b \in Pushed : StartPush(r, m, b)
         \/ ReadNext(r) /\ At(r, "soft")
         \/ DecideLimit(r) \/ CheckExists(r) \/ SetLimiter(r)
         \/ IncrLimiter(r) \/ ArmLimiter(r) \/ PassAudit(r)
  PROVE  Watched(n)'
<1>1. UNCHANGED <<strikes, blocked, orphans>>
  BY DEF StartPush, ReadNext, DecideLimit, CheckExists, SetLimiter, IncrLimiter,
         ArmLimiter, PassAudit
<1>2. TypeOK' /\ \A q \in Requests : q # r => requests'[q] = requests[q]
  <2>1. CASE \E m \in Nodes, b \in Pushed : StartPush(r, m, b)
    BY <2>1, ArriveTyped DEF Arrive, StartPush, Goto, TypeOK
  <2> QED
    BY <2>1, ReadsTyped, DecidesTyped, SetLimiterTyped, IncrLimiterTyped, ArmLimiterTyped
<1>3. requests[r].pc \notin {"window", "hard", "block", "clear"}
  BY DEF StartPush, ReadNext, DecideLimit, CheckExists, SetLimiter, IncrLimiter,
         ArmLimiter, PassAudit, At
<1>4. ~Watches(r, n)
  BY <1>3 DEF Watches, At
<1>5. Eases(strikes[n], strikes'[n])
  BY <1>1, EasesSame, RowsTyped
<1> QED
  BY <1>1, <1>2, <1>4, <1>5, WatchedKept DEF Abandoned

\* should_block reads on: what it has read covers one category more.
LEMMA HardReads ==
  ASSUME TypeOK, NEW r \in Requests, NEW n \in Nodes, Watched(n), ReadNext(r), At(r, "hard")
  PROVE  Watched(n)'
<1>1. UNCHANGED <<strikes, blocked, orphans>> /\ TypeOK'
      /\ \A q \in Requests : q # r => requests'[q] = requests[q]
  BY ReadsTyped DEF ReadNext
<1>2. ASSUME Watches(r, n) PROVE Watches(r, n)'
  <2> DEFINE k == requests[r].next
             s == strikes[n]
  <2>1. /\ requests[r] \in PushCalls /\ k \in 1..3 /\ requests[r].sum \in Nat
        /\ requests[r].pc = "hard" /\ Node(r) = n
        /\ requests[r].sum >= Prefix(s, k)
    BY <1>2, NextIs DEF Watches, At
  <2>2. k = 1 \/ k = 2
    BY <2>1 DEF ReadNext
  <2>3. Sum(r) = requests[r].sum + (IF k = 2 THEN 3 * s["security"].count ELSE s["syntax"].count)
    <3>1. s[Categories[k]].count \in Nat
      BY <2>2, CategoriesAre, RowsTyped, WeightsTyped
    <3>2. /\ k = 1 => Weight("hard", Categories[k]) = 1
          /\ k = 2 => Weight("hard", Categories[k]) = 3
      BY CategoriesAre DEF Weight
    <3>3. Sum(r) = requests[r].sum + Weight("hard", Categories[k]) * s[Categories[k]].count
      BY <2>1 DEF Sum, Node
    <3> QED
      BY <2>1, <2>2, <3>1, <3>2, <3>3, CategoriesAre
  <2>4. s["syntax"].count \in Nat /\ s["security"].count \in Nat
    BY RowsTyped, WeightsTyped
  <2>5. Sum(r) >= Prefix(s, k + 1)
    <3> HIDE DEF s, k
    <3> QED
      BY <2>1, <2>2, <2>3, <2>4 DEF Prefix
  <2>6. /\ requests'[r].pc = "hard" /\ requests'[r].node = n
        /\ requests'[r].next = k + 1 /\ requests'[r].sum = Sum(r)
    BY <2>1, ReadsTyped DEF Node
  <2>7. strikes'[n] = s
    BY <1>1
  <2> QED
    BY <2>5, <2>6, <2>7 DEF Watches, At, Node
<1>3. Eases(strikes[n], strikes'[n])
  BY <1>1, EasesSame, RowsTyped
<1> QED
  BY <1>1, <1>2, <1>3, WatchedKept DEF Abandoned

\* Who strikes watches.
LEMMA StrikerWatches ==
  ASSUME TypeOK, NEW r \in Requests, NEW n \in Nodes, Watched(n), RecordStrike(r)
  PROVE  Watched(n)'
<1>1. /\ UNCHANGED blocked /\ TypeOK' /\ Node(r) \in Nodes
      /\ orphans' = orphans \ {<<Node(r), "verdict">>}
      /\ \A q \in Requests : q # r => requests'[q] = requests[q]
  BY RecordStrikeTyped DEF RecordStrike, TakeUp
<1>2. CASE n = Node(r)
  <2>1. /\ requests'[r].pc \in {"window", "hard"}
        /\ requests'[r].node = n
        /\ requests'[r].next = 1 /\ requests'[r].sum = 0
    BY <1>2, RecordStrikeTyped DEF Node
  <2>2. Prefix(strikes'[n], 1) = 0
    BY DEF Prefix
  <2>3. Watches(r, n)'
    BY <2>1, <2>2 DEF Watches, At, Node
  <2> QED
    BY <2>3 DEF Watched
<1>3. CASE n # Node(r)
  <2>1. ~Watches(r, n)
    BY <1>3 DEF Watches
  <2>2. strikes'[n] = strikes[n]
    BY <1>3 DEF RecordStrike, TypeOK
  <2>3. Eases(strikes[n], strikes'[n])
    BY <2>2, EasesSame, RowsTyped
  <2>4. Abandoned(n) => Abandoned(n)'
    BY <1>1, <1>3 DEF Abandoned
  <2> QED
    BY <1>1, <2>1, <2>3, <2>4, WatchedKept
<1> QED
  BY <1>2, <1>3

LEMMA ArmerWatches ==
  ASSUME TypeOK, NEW r \in Requests, NEW n \in Nodes, Watched(n), ArmStrikes(r)
  PROVE  Watched(n)'
<1> DEFINE k == Category(requests[r].bundle)
<1>1. /\ UNCHANGED <<blocked, orphans>> /\ TypeOK' /\ Node(r) \in Nodes /\ k \in CategoryNames
      /\ strikes'[Node(r)][k] = Expire(strikes[Node(r)][k])
      /\ \A m \in Nodes, j \in CategoryNames :
            m # Node(r) \/ j # k => strikes'[m][j] = strikes[m][j]
      /\ \A q \in Requests : q # r => requests'[q] = requests[q]
  BY ArmStrikesTyped DEF ArmStrikes
<1>2. \A j \in CategoryNames : strikes'[n][j].count = strikes[n][j].count
  <2> SUFFICES ASSUME NEW j \in CategoryNames
               PROVE  strikes'[n][j].count = strikes[n][j].count
    OBVIOUS
  <2>1. CASE n = Node(r) /\ j = k
    <3>1. strikes'[n][j] = Expire(strikes[n][j]) /\ strikes[n][j] \in Counters
      BY <1>1, <2>1 DEF TypeOK
    <3> QED
      BY <3>1, CountersTyped
  <2>2. CASE n # Node(r) \/ j # k
    BY <1>1, <2>2
  <2> QED
    BY <2>1, <2>2
<1>3. Eases(strikes[n], strikes'[n])
  <2>1. Eases(strikes[n], strikes[n])
    BY EasesSame, RowsTyped
  <2> QED
    BY <1>2, <2>1 DEF Eases
<1>4. ASSUME Watches(r, n) PROVE Watches(r, n)'
  <2>1. Node(r) = n /\ requests[r].sum >= Prefix(strikes[n], requests[r].next)
    BY <1>4 DEF Watches, ArmStrikes, At
  <2>2. Prefix(strikes'[n], requests[r].next) = Prefix(strikes[n], requests[r].next)
    BY <1>2, CategoriesAre DEF Prefix
  <2>3. /\ requests'[r].pc = "hard" /\ requests'[r].node = n
        /\ requests'[r].next = requests[r].next /\ requests'[r].sum = requests[r].sum
    BY <2>1, ArmStrikesTyped DEF Node
  <2> QED
    BY <2>1, <2>2, <2>3 DEF Watches, At, Node
<1> QED
  BY <1>1, <1>3, <1>4, WatchedKept DEF Abandoned

\* Whoever decides not to block has read all the strikes there are.
LEMMA DeciderWatches ==
  ASSUME TypeOK, NEW r \in Requests, NEW n \in Nodes, Watched(n), DecideBlock(r)
  PROVE  Watched(n)'
<1>1. UNCHANGED <<strikes, blocked, orphans>> /\ TypeOK'
      /\ \A q \in Requests : q # r => requests'[q] = requests[q]
  BY DecidesTyped DEF DecideBlock
<1>2. ASSUME Watches(r, n) PROVE Watches(r, n)' \/ Weigh(strikes'[n]) < Hard
  <2> DEFINE s == strikes[n]
  <2>1. /\ requests[r].next = 3 /\ requests[r].pc = "hard" /\ Node(r) = n
        /\ requests[r] \in PushCalls /\ requests[r].sum \in Nat
        /\ requests[r].sum >= Prefix(s, 3)
    BY <1>2, NextIs DEF Watches, DecideBlock, At
  <2>2. CASE Move(r, "block")
    <3>1. requests'[r].pc = "block" /\ requests'[r].node = n
      BY <2>1, <2>2, MoveTyped DEF Node, PushPcs
    <3> QED
      BY <3>1 DEF Watches, At, Node
  <2>3. CASE ~(Sum(r) >= Hard)
    <3>1. /\ s["syntax"].count \in Nat /\ s["security"].count \in Nat
          /\ s["general"].count \in Nat /\ Hard \in Nat
      BY RowsTyped, WeightsTyped, LimitsAssumption
    <3>2. Sum(r) = requests[r].sum + s["general"].count
      <4>1. Weight("hard", Categories[3]) = 1 /\ Categories[3] = "general"
        BY CategoriesAre DEF Weight
      <4>2. Sum(r) = requests[r].sum + Weight("hard", Categories[3]) * s["general"].count
        BY <2>1, <4>1 DEF Sum, Node
      <4> QED
        BY <3>1, <4>1, <4>2
    <3>3. Weigh(s) < Hard
      <4> HIDE DEF s
      <4> QED
        BY <2>1, <2>3, <3>1, <3>2 DEF Weigh, Prefix
    <3> QED
      BY <1>1, <3>3
  <2> QED
    BY <2>2, <2>3 DEF DecideBlock, ReachesHard
<1>3. Eases(strikes[n], strikes'[n])
  BY <1>1, EasesSame, RowsTyped
<1> QED
  BY <1>1, <1>2, <1>3, WatchedKept DEF Abandoned

LEMMA BlockerWatches ==
  ASSUME TypeOK, NEW r \in Requests, NEW n \in Nodes, Watched(n), BlockNode(r)
  PROVE  Watched(n)'
<1>1. UNCHANGED <<strikes, orphans>> /\ TypeOK'
      /\ \A q \in Requests : q # r => requests'[q] = requests[q]
  BY BlockTyped DEF BlockNode
<1>2. /\ n = Node(r) => blocked'[n] = "auto"
      /\ n # Node(r) => blocked'[n] = blocked[n]
  BY BlockTyped
<1>3. Watches(r, n) => n = Node(r)
  BY DEF Watches
<1>4. Eases(strikes[n], strikes'[n])
  BY <1>1, EasesSame, RowsTyped
<1> QED
  BY <1>1, <1>2, <1>3, <1>4, WatchedKept DEF Abandoned

\* An unblock watches the strikes it has still to delete.
LEMMA UnblockerWatches ==
  ASSUME TypeOK, NEW r \in Requests, NEW n \in Nodes, Watched(n),
         NEW m \in Nodes, StartUnblock(r, m)
  PROVE  Watched(n)'
<1>1. UNCHANGED strikes /\ TypeOK' /\ orphans' = orphans \ {<<m, "verdict">>}
      /\ \A q \in Requests : q # r => requests'[q] = requests[q]
  BY ArriveTyped DEF Arrive, StartUnblock, TakeUp, Goto, TypeOK
<1>2. CASE n = m
  <2>1. requests'[r].pc = "clear" /\ requests'[r].node = n /\ requests'[r].next = 1
    BY <1>2 DEF StartUnblock, Goto, TypeOK
  <2>2. Prefix(strikes'[n], 1) < Hard
    BY LimitsAssumption DEF Prefix
  <2> QED
    BY <2>1, <2>2 DEF Watched, Watches, At, Node
<1>3. CASE n # m
  <2>1. ~Watches(r, n) /\ blocked'[n] = blocked[n]
    BY <1>3 DEF Watches, StartUnblock, At, TypeOK
  <2>2. Eases(strikes[n], strikes'[n])
    BY <1>1, EasesSame, RowsTyped
  <2>3. Abandoned(n) => Abandoned(n)'
    BY <1>1, <1>3 DEF Abandoned
  <2> QED
    BY <1>1, <2>1, <2>2, <2>3, WatchedKept
<1> QED
  BY <1>2, <1>3

\* Who dies on the way leaves the node abandoned.
LEMMA DyingWatches ==
  ASSUME TypeOK, NEW r \in Requests, NEW n \in Nodes, Watched(n), Fail(r)
  PROVE  Watched(n)'
<1>1. /\ UNCHANGED <<strikes, blocked>> /\ orphans \cup Due(r) \subseteq orphans' /\ TypeOK'
      /\ \A q \in Requests : q # r => requests'[q] = requests[q]
  BY FailTyped DEF Fail
<1>2. Watches(r, n) => Abandoned(n)'
  BY <1>1 DEF Watches, At, Due, Abandoned
<1>3. Eases(strikes[n], strikes'[n])
  BY <1>1, EasesSame, RowsTyped
<1>4. Abandoned(n) => Abandoned(n)'
  BY <1>1 DEF Abandoned
<1> QED
  BY <1>1, <1>2, <1>3, <1>4, WatchedKept

\* One count goes, the others stay.
LEMMA EasesOne ==
  ASSUME NEW s \in StrikeRows, NEW t \in StrikeRows, NEW k \in CategoryNames, t[k] = Absent,
         \A j \in CategoryNames : j # k => t[j] = s[j]
  PROVE  Eases(s, t)
<1>1. ASSUME NEW j \in CategoryNames PROVE t[j].count <= s[j].count
  <2>1. s[j].count \in Nat /\ Absent.count = 0
    BY CountersTyped DEF StrikeRows
  <2> QED
    BY <2>1
<1> QED
  BY <1>1 DEF Eases

LEMMA ClearEases ==
  ASSUME TypeOK, NEW r \in Requests, NEW n \in Nodes, ClearNext(r)
  PROVE  Eases(strikes[n], strikes'[n])
<1> DEFINE k == Categories[requests[r].next]
<1>1. /\ TypeOK' /\ Node(r) \in Nodes /\ k \in CategoryNames
      /\ strikes'[Node(r)][k] = Absent
      /\ \A m \in Nodes, j \in CategoryNames :
            m # Node(r) \/ j # k => strikes'[m][j] = strikes[m][j]
  BY ClearTyped
<1>2. strikes[n] \in StrikeRows /\ strikes'[n] \in StrikeRows
  BY <1>1 DEF TypeOK, StrikeRows
<1>3. CASE n # Node(r)
  <2>1. \A j \in CategoryNames : strikes'[n][j] = strikes[n][j]
    BY <1>1, <1>3
  <2>2. Eases(strikes[n], strikes[n])
    BY <1>2, EasesSame
  <2> QED
    BY <2>1, <2>2 DEF Eases
<1>4. CASE n = Node(r)
  <2>1. strikes'[n][k] = Absent /\ \A j \in CategoryNames : j # k => strikes'[n][j] = strikes[n][j]
    BY <1>1, <1>4
  <2> HIDE DEF k
  <2> QED
    BY <1>1, <1>2, <2>1, EasesOne
<1> QED
  BY <1>3, <1>4

LEMMA OutsideEases ==
  ASSUME TypeOK, NEW m \in Nodes, AdminBlock(m) \/ Clock(m), NEW n \in Nodes
  PROVE  Eases(strikes[n], strikes'[n])
<1>1. TypeOK'
  BY OutsideTyped
<1>2. CASE strikes'[n] = strikes[n]
  BY <1>2, EasesSame, RowsTyped
<1>3. ASSUME NEW k \in CategoryNames, StrikesExpire(m, k), n = m
      PROVE  Eases(strikes[n], strikes'[n])
  <2>1. /\ strikes[n] \in StrikeRows /\ strikes'[n] \in StrikeRows
        /\ strikes'[n][k] = Absent
        /\ \A j \in CategoryNames : j # k => strikes'[n][j] = strikes[n][j]
    BY <1>1, <1>3, StrikeGone DEF TypeOK, StrikeRows
  <2> QED
    BY <2>1, EasesOne
<1> QED
  BY <1>2, <1>3 DEF AdminBlock, Clock, LimiterExpires, StrikesExpire, TypeOK

LEMMA ClearerWatches ==
  ASSUME TypeOK, NEW r \in Requests, NEW n \in Nodes, Watched(n), ClearNext(r)
  PROVE  Watched(n)'
<1> DEFINE i == requests[r].next
           k == Categories[i]
<1>1. /\ UNCHANGED <<blocked, orphans>> /\ TypeOK' /\ Node(r) \in Nodes /\ k \in CategoryNames
      /\ strikes'[Node(r)][k] = Absent
      /\ \A m \in Nodes, j \in CategoryNames :
            m # Node(r) \/ j # k => strikes'[m][j] = strikes[m][j]
      /\ \A q \in Requests : q # r => requests'[q] = requests[q]
  BY ClearTyped DEF ClearNext
<1>2. CASE n # Node(r)
  <2>1. ~Watches(r, n)
    BY <1>2 DEF Watches
  <2>2. Eases(strikes[n], strikes'[n])
    BY ClearEases
  <2> QED
    BY <1>1, <2>1, <2>2, WatchedKept DEF Abandoned
<1>3. CASE n = Node(r)
  <2> DEFINE s == strikes[n]
             t == strikes'[n]
  <2>1. /\ s \in StrikeRows /\ t \in StrikeRows
        /\ t[k] = Absent /\ \A j \in CategoryNames : j # k => t[j] = s[j]
    BY <1>1, <1>3 DEF TypeOK, StrikeRows
  <2>2. Eases(s, t)
    BY ClearEases
  <2>3. /\ s["syntax"].count \in Nat /\ s["security"].count \in Nat /\ s["general"].count \in Nat
        /\ Hard \in Nat \ {0} /\ Absent.count = 0
    BY <2>1, WeightsTyped, LimitsAssumption, CountersTyped
  <2>4. ASSUME Watches(r, n) PROVE Watches(r, n)' \/ Weigh(t) < Hard
    <3>1. Prefix(s, i) < Hard
      BY <2>4 DEF Watches, ClearNext, At
    <3>2. CASE i = 1
      <4>1. requests'[r].pc = "clear" /\ requests'[r].node = n /\ requests'[r].next = 2
        BY <1>3, <3>2, ClearTyped DEF Node
      <4>2. Prefix(t, 2) < Hard
        BY <2>1, <2>3, <3>2, CategoriesAre DEF Prefix
      <4> QED
        BY <4>1, <4>2 DEF Watches, At, Node
    <3>3. CASE i = 2
      <4>1. requests'[r].pc = "clear" /\ requests'[r].node = n /\ requests'[r].next = 3
        BY <1>3, <3>3, ClearTyped DEF Node
      <4>2. t["syntax"] = s["syntax"] /\ t["security"].count = 0
        BY <2>1, <2>3, <3>3, CategoriesAre
      <4>3. Prefix(t, 3) < Hard
        <5>1. s["syntax"].count < Hard
          BY <2>3, <3>1, <3>3 DEF Prefix
        <5> HIDE DEF s, t
        <5> QED
          BY <2>3, <4>2, <5>1 DEF Prefix
      <4> QED
        BY <4>1, <4>3 DEF Watches, At, Node
    <3>4. CASE i = 3
      <4>1. t["syntax"] = s["syntax"] /\ t["security"] = s["security"] /\ t["general"].count = 0
        BY <2>1, <2>3, <3>4, CategoriesAre
      <4>2. s["syntax"].count + 3 * s["security"].count < Hard
        BY <2>3, <3>1, <3>4 DEF Prefix
      <4>3. Weigh(t) < Hard
        <5> HIDE DEF s, t
        <5> QED
          BY <2>3, <4>1, <4>2 DEF Weigh
      <4> QED
        BY <4>3
    <3> QED
      BY <3>2, <3>3, <3>4, ClearTyped
  <2> QED
    BY <1>1, <2>2, <2>4, WatchedKept DEF Abandoned
<1> QED
  BY <1>2, <1>3

LEMMA OutsideWatched ==
  ASSUME TypeOK, NEW m \in Nodes, AdminBlock(m) \/ Clock(m), NEW n \in Nodes, Watched(n)
  PROVE  Watched(n)'
<1>1. UNCHANGED <<requests, orphans>> /\ TypeOK'
  BY OutsideTyped DEF AdminBlock, Clock, LimiterExpires, StrikesExpire
<1>2. blocked'[n] = "no" => blocked[n] = "no"
  BY DEF AdminBlock, Clock, LimiterExpires, StrikesExpire, TypeOK
<1>3. Eases(strikes[n], strikes'[n])
  BY OutsideEases
<1> QED
  BY <1>1, <1>2, <1>3, WatchedKept DEF Abandoned

\* A node whose weighted strikes reach the hard limit is blocked as soon as nothing
\* runs, unless a request died on the way (record_strike, should_block, block_node,
\* clear_strikes).  The invariant names who is still on the way.
THEOREM NobodyEscapes == Spec => []NoEscape
<1> DEFINE Inv == \A n \in Nodes : Watched(n)
<1>1. Init => Inv
  <2> SUFFICES ASSUME Init, NEW n \in Nodes PROVE ~(Weighted(n) >= Hard)
    BY DEF Watched
  <2>1. Weighted(n) = 0
    BY CategoriesAre DEF Init, Weighted, Absent
  <2> QED
    BY <2>1, LimitsAssumption
<1>2. TypeOK /\ Inv /\ [Next]_vars => Inv'
  <2> SUFFICES ASSUME TypeOK, Inv, [Next]_vars, NEW n \in Nodes PROVE Watched(n)'
    OBVIOUS
  <2>0. Watched(n)
    OBVIOUS
  <2>1. CASE UNCHANGED vars
    BY <2>0, <2>1 DEF vars, Watched, Weighted, Watches, Abandoned, At, Node
  <2>2. ASSUME NEW r \in Requests, Arrive(r) PROVE Watched(n)'
    BY <2>0, <2>2, Bystanders, UnblockerWatches DEF Arrive
  <2>3. ASSUME NEW r \in Requests, Continue(r) PROVE Watched(n)'
    <3>1. ReadNext(r) => At(r, "soft") \/ At(r, "hard")
      BY DEF ReadNext
    <3> QED
      BY <2>0, <2>3, <3>1, Bystanders, HardReads, StrikerWatches, ArmerWatches, DeciderWatches,
         BlockerWatches, ClearerWatches DEF Continue, Command
  <2>4. ASSUME NEW r \in Requests, Fail(r) PROVE Watched(n)'
    BY <2>0, <2>4, DyingWatches
  <2>5. ASSUME NEW m \in Nodes, AdminBlock(m) \/ Clock(m) PROVE Watched(n)'
    BY <2>0, <2>5, OutsideWatched
  <2> QED
    BY <2>1, <2>2, <2>3, <2>4, <2>5 DEF Next
<1>3. Inv => NoEscape
  <2> SUFFICES ASSUME Inv, Quiet, NEW n \in Nodes, Weighted(n) >= Hard, blocked[n] = "no",
                      ~Abandoned(n)
               PROVE  FALSE
    BY DEF NoEscape
  <2>1. PICK r \in Requests : Watches(r, n)
    BY DEF Watched
  <2> QED
    BY <2>1 DEF Watches, Quiet
<1> QED
  BY <1>1, <1>2, <1>3, GateTyped, PTL DEF Spec

-----------------------------------------------------------------------------
(* What an unblock leaves behind.                                          *)

\* The inductive invariant: an automatic block came in beside the unblock, and so
\* did a strike of a category that it has deleted.
Settled(r) ==
    At(r, "clear") =>
        /\ blocked[Node(r)] = "auto" => <<r, "block">> \in beside
        /\ \A i \in 1..3 :
              i < requests[r].next /\ Exists(strikes[Node(r)][Categories[i]])
                  => <<r, Categories[i]>> \in beside

\* An unblock that waits: what comes in beside it is noted.
LEMMA SettledKept ==
  ASSUME TypeOK, NEW r \in Requests, Settled(r), requests'[r] = requests[r],
         \A what : <<r, what>> \in beside => <<r, what>> \in beside',
         At(r, "clear") =>
            /\ blocked'[Node(r)] = "auto" =>
                  blocked[Node(r)] = "auto" \/ <<r, "block">> \in beside'
            /\ \A c \in CategoryNames :
                  Exists(strikes'[Node(r)][c]) =>
                      Exists(strikes[Node(r)][c]) \/ <<r, c>> \in beside'
  PROVE  Settled(r)'
<1>1. \A i \in 1..3 : Categories[i] \in CategoryNames
  BY DEF CategoryNames
<1> QED
  BY <1>1 DEF Settled, At, Node

\* Counters that ease do not come into being.
LEMMA EasedExist ==
  ASSUME TypeOK, TypeOK', NEW n \in Nodes, Eases(strikes[n], strikes'[n]),
         NEW c \in CategoryNames, Exists(strikes'[n][c])
  PROVE  Exists(strikes[n][c])
<1>1. strikes[n][c].count \in Nat /\ strikes'[n][c].count \in Nat
  BY CountersTyped DEF TypeOK
<1> QED
  BY <1>1 DEF Eases, Exists

\* What another request does beside an unblock of n.
LEMMA OthersNoted ==
  ASSUME TypeOK, NEW q \in Requests, Arrive(q) \/ Continue(q) \/ Fail(q),
         NEW r \in Requests \ {q}, At(r, "clear"), NEW n \in Nodes, Node(r) = n
  PROVE  /\ \A what : <<r, what>> \in beside => <<r, what>> \in beside'
         /\ blocked'[n] = "auto" => blocked[n] = "auto" \/ <<r, "block">> \in beside'
         /\ \A c \in CategoryNames :
               Exists(strikes'[n][c]) => Exists(strikes[n][c]) \/ <<r, c>> \in beside'
<1>0. \A what : <<r, what>> \in beside => <<r, what>> \in beside'
  BY DEF Arrive, StartPush, StartUnblock, Forget, Continue, Command, ReadNext, DecideLimit,
         CheckExists, SetLimiter, IncrLimiter, ArmLimiter, PassAudit, RecordStrike, Beside,
         ArmStrikes, DecideBlock, BlockNode, ClearNext, Fail
<1>1. CASE Arrive(q)
  BY <1>0, <1>1 DEF Arrive, StartPush, StartUnblock, TypeOK
<1>2. CASE \/ ReadNext(q) \/ DecideLimit(q) \/ CheckExists(q) \/ PassAudit(q) \/ DecideBlock(q)
           \/ SetLimiter(q) \/ IncrLimiter(q) \/ ArmLimiter(q) \/ Fail(q)
  BY <1>0, <1>2 DEF ReadNext, DecideLimit, CheckExists, PassAudit, DecideBlock, SetLimiter,
                    IncrLimiter, ArmLimiter, Fail
<1>3. CASE RecordStrike(q)
  <2> DEFINE m == Node(q)
             k == Category(requests[q].bundle)
  <2>1. \A j \in CategoryNames : m # n \/ j # k => strikes'[n][j] = strikes[n][j]
    BY <1>3, RecordStrikeTyped
  <2>2. m = n => <<r, k>> \in beside'
    BY <1>3 DEF RecordStrike, Beside, Unblocking
  <2>3. UNCHANGED blocked
    BY <1>3 DEF RecordStrike
  <2> HIDE DEF m, k
  <2> QED
    BY <1>0, <2>1, <2>2, <2>3
<1>4. CASE ArmStrikes(q)
  <2> DEFINE m == Node(q)
             k == Category(requests[q].bundle)
  <2>1. \A j \in CategoryNames : m # n \/ j # k => strikes'[n][j] = strikes[n][j]
    BY <1>4, ArmStrikesTyped
  <2>2. k \in CategoryNames /\ strikes'[m][k] = Expire(strikes[m][k])
    BY <1>4, ArmStrikesTyped
  <2>3. \A j \in CategoryNames : strikes[n][j] \in Counters
    BY DEF TypeOK
  <2>4. m = n => strikes'[n][k].count = strikes[n][k].count
    BY <2>2, <2>3, CountersTyped
  <2>5. UNCHANGED blocked
    BY <1>4 DEF ArmStrikes
  <2> HIDE DEF m, k
  <2> QED
    BY <1>0, <2>1, <2>4, <2>5 DEF Exists
<1>5. CASE BlockNode(q)
  <2>1. Node(q) # n => blocked'[n] = blocked[n]
    BY <1>5, BlockTyped
  <2>2. Node(q) = n => <<r, "block">> \in beside'
    BY <1>5 DEF BlockNode, Beside, Unblocking
  <2>3. UNCHANGED strikes
    BY <1>5 DEF BlockNode
  <2> QED
    BY <1>0, <2>1, <2>2, <2>3
<1>6. CASE ClearNext(q)
  <2>1. UNCHANGED blocked /\ TypeOK'
    BY <1>6, ClearTyped DEF ClearNext
  <2>2. Eases(strikes[n], strikes'[n])
    BY <1>6, ClearEases
  <2> QED
    BY <1>0, <2>1, <2>2, EasedExist
<1> QED
  BY <1>1, <1>2, <1>3, <1>4, <1>5, <1>6 DEF Continue, Command

\* A step of a request moves no other.
LEMMA StepOfOne ==
  ASSUME TypeOK, NEW q \in Requests, Arrive(q) \/ Continue(q) \/ Fail(q)
  PROVE  \A r \in Requests : r # q => requests'[r] = requests[r]
<1>1. \E c : requests' = [requests EXCEPT ![q] = c]
  BY DEF Arrive, StartPush, StartUnblock, Continue, Command, ReadNext, DecideLimit, CheckExists,
         SetLimiter, IncrLimiter, ArmLimiter, PassAudit, RecordStrike, ArmStrikes, DecideBlock,
         BlockNode, ClearNext, Fail, Goto, Move, Return
<1> QED
  BY <1>1 DEF TypeOK

\* Only an unblock clears.
LEMMA OnlyUnblocksClear ==
  ASSUME TypeOK, NEW r \in Requests, Arrive(r) \/ Continue(r) \/ Fail(r), At(r, "clear")'
  PROVE  ClearNext(r) \/ \E n \in Nodes : StartUnblock(r, n)
<1>1. ASSUME NEW n \in Nodes, NEW b \in Pushed, StartPush(r, n, b) PROVE ~At(r, "clear")'
  BY <1>1 DEF StartPush, Goto, At, TypeOK
<1>2. ASSUME ReadNext(r) PROVE ~At(r, "clear")'
  <2>1. requests'[r].pc \in {"soft", "hard"}
    BY <1>2, ReadsTyped DEF ReadNext, At
  <2> QED
    BY <2>1 DEF At
<1>3. ASSUME DecideLimit(r) \/ CheckExists(r) \/ PassAudit(r) \/ DecideBlock(r)
      PROVE  ~At(r, "clear")'
  BY <1>3, DecidesTyped DEF At, Idle
<1>4. ASSUME SetLimiter(r) \/ IncrLimiter(r) \/ ArmLimiter(r) PROVE ~At(r, "clear")'
  <2>1. SetLimiter(r) \/ ArmLimiter(r) => requests'[r].pc = "audit"
    BY SetLimiterTyped, ArmLimiterTyped
  <2>2. ASSUME IncrLimiter(r) PROVE requests'[r].pc # "clear"
    <3>1. \/ requests'[r] = Idle
          \/ requests'[r].pc =
                IF FirstPush(limiter'[Node(r)].count) THEN "expire" ELSE "audit"
      BY <2>2, IncrLimiterTyped
    <3> QED
      BY <3>1 DEF Idle
  <2>3. requests'[r].pc # "clear"
    BY <1>4, <2>1, <2>2
  <2> QED
    BY <2>3 DEF At
<1>5. ASSUME RecordStrike(r) \/ ArmStrikes(r) PROVE ~At(r, "clear")'
  BY <1>5, RecordStrikeTyped, ArmStrikesTyped DEF At
<1>6. ASSUME BlockNode(r) \/ Fail(r) PROVE ~At(r, "clear")'
  BY <1>6, BlockTyped, FailTyped DEF At, Idle
<1> QED
  BY <1>1, <1>2, <1>3, <1>4, <1>5, <1>6 DEF Arrive, Continue, Command

\* One category more is deleted, and after the last all are.
LEMMA ClearingSettles ==
  ASSUME TypeOK, NEW r \in Requests, Settled(r), ClearNext(r), NEW n \in Nodes, Node(r) = n
  PROVE  /\ Settled(r)'
         /\ requests'[r] = Idle =>
               /\ blocked'[n] = "auto" => <<r, "block">> \in beside
               /\ \A c \in CategoryNames : Exists(strikes'[n][c]) => <<r, c>> \in beside
<1> DEFINE i == requests[r].next
           k == Categories[i]
<1>1. /\ UNCHANGED blocked /\ TypeOK' /\ i \in 1..3 /\ At(r, "clear")
      /\ strikes'[n][k] = Absent
      /\ \A j \in CategoryNames : j # k => strikes'[n][j] = strikes[n][j]
  BY ClearTyped DEF ClearNext
<1>2. blocked'[n] = "auto" => <<r, "block">> \in beside
  BY <1>1 DEF Settled
<1>3. ASSUME NEW j \in 1..3, j <= i, Exists(strikes'[n][Categories[j]])
      PROVE  <<r, Categories[j]>> \in beside
  <2>1. Categories[j] # k
    BY <1>1, <1>3, CountersTyped
  <2>2. Categories[j] \in CategoryNames /\ j < i
    BY <1>1, <1>3, <2>1 DEF CategoryNames
  <2>3. Exists(strikes[n][Categories[j]])
    BY <1>1, <1>3, <2>1, <2>2
  <2> QED
    BY <1>1, <2>2, <2>3 DEF Settled
<1>4. CASE i = 3 /\ requests'[r] = Idle
  <2>1. ASSUME NEW c \in CategoryNames, Exists(strikes'[n][c]) PROVE <<r, c>> \in beside
    <3>1. PICK j \in 1..3 : c = Categories[j]
      BY DEF CategoryNames
    <3> QED
      BY <1>3, <1>4, <2>1, <3>1
  <2>2. Settled(r)'
    BY <1>4 DEF Settled, At, Idle
  <2> QED
    BY <1>2, <2>1, <2>2
<1>5. CASE /\ i < 3 /\ requests'[r].pc = "clear"
           /\ requests'[r].node = requests[r].node /\ requests'[r].next = i + 1
  <2>1. UNCHANGED beside
    BY <1>5 DEF ClearNext, LastToClear
  <2>2. \A j \in 1..3 : j < i + 1 => j <= i
    BY <1>1
  <2>3. Settled(r)'
    BY <1>2, <1>3, <1>5, <2>1, <2>2 DEF Settled, Node
  <2> QED
    BY <1>5, <2>3 DEF Idle
<1> QED
  BY <1>4, <1>5, ClearTyped

\* "Unblock a federation node and clear its strikes": no strike and no automatic
\* block outlives an unblock but what pushes of the node have done while it ran,
\* whatever pushes, other unblocks, admins, expiries and failures interleave
\* (unblock_node, clear_strikes).
THEOREM UnblocksSettle == Spec => UnblockSettles
<1> DEFINE Inv == \A r \in Requests : Settled(r)
<1>1. Init => Inv
  BY DEF Init, Settled, At, Idle
<1>2. TypeOK /\ Inv /\ [Next]_vars => Inv'
  <2> SUFFICES ASSUME TypeOK, Inv, [Next]_vars, NEW r \in Requests PROVE Settled(r)'
    OBVIOUS
  <2>0. Settled(r) /\ (At(r, "clear") => Node(r) \in Nodes)
    BY CallKinds DEF At
  <2>1. CASE UNCHANGED vars
    BY <2>0, <2>1 DEF vars, Settled, At, Node
  <2>2. ASSUME NEW q \in Requests \ {r}, Arrive(q) \/ Continue(q) \/ Fail(q)
        PROVE  Settled(r)'
    <3>1. requests'[r] = requests[r]
      BY <2>2, StepOfOne
    <3>2. CASE At(r, "clear")
      BY <2>0, <2>2, <3>1, <3>2, OthersNoted, SettledKept
    <3>3. CASE ~At(r, "clear")
      BY <3>1, <3>3 DEF Settled, At
    <3> QED
      BY <3>2, <3>3
  <2>3. ASSUME Arrive(r) \/ Continue(r) \/ Fail(r) PROVE Settled(r)'
    <3>1. CASE ~At(r, "clear")'
      BY <3>1 DEF Settled
    <3>2. CASE ClearNext(r)
      BY <2>0, <3>2, ClearTyped, ClearingSettles
    <3>3. ASSUME NEW n \in Nodes, StartUnblock(r, n) PROVE Settled(r)'
      <4>1. requests'[r].next = 1 /\ requests'[r].node = n /\ blocked'[n] = "no"
        BY <3>3 DEF StartUnblock, Goto, TypeOK
      <4> QED
        BY <4>1 DEF Settled, Node
    <3> QED
      BY <2>3, <3>1, <3>2, <3>3, OnlyUnblocksClear
  <2>4. ASSUME NEW m \in Nodes, AdminBlock(m) \/ Clock(m) PROVE Settled(r)'
    <3>1. TypeOK' /\ requests'[r] = requests[r] /\ UNCHANGED beside
      BY <2>4, OutsideTyped DEF AdminBlock, Clock, LimiterExpires, StrikesExpire
    <3>2. At(r, "clear") /\ blocked'[Node(r)] = "auto" => blocked[Node(r)] = "auto"
      BY <2>0, <2>4 DEF AdminBlock, Clock, LimiterExpires, StrikesExpire, TypeOK
    <3>3. At(r, "clear") => Eases(strikes[Node(r)], strikes'[Node(r)])
      BY <2>0, <2>4, OutsideEases
    <3>4. At(r, "clear") => \A c \in CategoryNames :
             Exists(strikes'[Node(r)][c]) => Exists(strikes[Node(r)][c])
      BY <2>0, <3>1, <3>3, EasedExist
    <3> QED
      BY <2>0, <3>1, <3>2, <3>4, SettledKept
  <2> QED
    BY <2>1, <2>2, <2>3, <2>4 DEF Next
<1>3. TypeOK /\ Inv /\ [Next]_vars
        => [\A r \in Requests, n \in Nodes :
               Unblocked(r, n) =>
                   /\ blocked'[n] = "auto" => <<r, "block">> \in beside
                   /\ \A c \in CategoryNames :
                         Exists(strikes'[n][c]) => <<r, c>> \in beside]_vars
  BY ClearingSettles DEF Unblocked
<1> QED
  BY <1>1, <1>2, <1>3, GateTyped, PTL DEF Spec, UnblockSettles

=============================================================================
