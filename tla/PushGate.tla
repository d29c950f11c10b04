------------------------------ MODULE PushGate ------------------------------
(***************************************************************************)
(* The way of a push up to the audit queue: `get_current_node` turns away  *)
(* blocked nodes, `abuse.check_rate_limit` counts pushes, the pre-audit    *)
(* passes or fails the bundle, and a failure is a strike that may block    *)
(* the node.  Admins block and unblock nodes meanwhile.                    *)
(*                                                                         *)
(* The counters live in Valkey: every command is atomic, and nothing holds *)
(* between two of them.  A key that exists has a count; it goes away only  *)
(* if somebody has armed its time-to-live.  Time itself is not modelled: a *)
(* time-to-live may run out at any moment, so `Expire` is an action.       *)
(***************************************************************************)
EXTENDS PreAudit, FiniteSets

CONSTANTS
    Nodes,
    Requests,   \* concurrently running API requests
    Pushed,     \* the bundles the nodes push
    Soft,       \* settings.strike_soft_limit
    Hard,       \* settings.strike_hard_limit
    Rate,       \* pushes a normal node has in one window (60)
    MaxPushes,  \* bound: how many pushes are made in a behaviour
    Failures    \* TRUE: a request may die at any await

ASSUME LimitsAssumption == Soft \in Nat \ {0} /\ Hard \in Nat \ {0} /\ Rate \in Nat \ {0}
ASSUME PushedAssumption == Pushed \subseteq Bundles
ASSUME RequestsAssumption == IsFiniteSet(Requests)
ASSUME MaxPushesAssumption == MaxPushes \in Nat
ASSUME FailuresAssumption == Failures \in BOOLEAN

VARIABLES
    strikes,    \* keys libris:strikes:<category>:<node>
    limiter,    \* keys libris:ratelimit:<node>
    blocked,    \* federation_nodes.is_blocked and block_reason: "no", "auto", "manual"
    requests,   \* where each running request stands, and its local variables
    started,    \* pushes made so far
    admitted,   \* history: pushes let through since the limiter key last ran out
    orphans,    \* history: what requests that died have left undone, see Owed and Due
    beside      \* history: what pushes of its node have done beside an unblock

vars == <<strikes, limiter, blocked, requests, started, admitted, orphans, beside>>

-----------------------------------------------------------------------------
(* Counters of Valkey.                                                     *)

\* No key is count 0; `armed` says that it has a time-to-live.
Counters == [count : Nat, armed : BOOLEAN]
Absent == [count |-> 0, armed |-> FALSE]
Exists(c) == c.count > 0

Incr(c) == [c EXCEPT !.count = @ + 1]
Expire(c) == [c EXCEPT !.armed = Exists(c)]
SetEx == [count |-> 1, armed |-> TRUE]

\* The categories in the order get_all_strikes reads and clear_strikes deletes.
Categories == <<"syntax", "security", "general">>
CategoryNames == {Categories[i] : i \in 1..3}

\* The category push_knowledge files a failed bundle under.
Category(b) == IF ~run_pre_audit(b).heuristic_ok THEN "security" ELSE "syntax"

-----------------------------------------------------------------------------
(* Requests.                                                               *)

Idle == [pc |-> "idle"]

\* A push: `next` is the category to read next, `sum` what was read so far.
PushCalls == [pc : {"soft", "exists", "setex", "incr", "expire", "audit",
                    "strike", "window", "hard", "block"},
              node : Nodes, next : 1..3, sum : Nat, bundle : Pushed]

\* An unblock: `next` is the category to delete next.
UnblockCalls == [pc : {"clear"}, node : Nodes, next : 1..3]
Calls == {Idle} \cup PushCalls \cup UnblockCalls

NoneAdmitted == [all |-> 0, limited |-> 0]

Init ==
    /\ strikes = [n \in Nodes |-> [c \in CategoryNames |-> Absent]]
    /\ limiter = [n \in Nodes |-> Absent]
    /\ blocked = [n \in Nodes |-> "no"]
    /\ requests = [r \in Requests |-> Idle]
    /\ started = 0
    /\ admitted = [n \in Nodes |-> NoneAdmitted]
    /\ orphans = {}
    /\ beside = {}

At(r, pc) == requests[r].pc = pc
Goto(r, call) == requests' = [requests EXCEPT ![r] = call]
Move(r, pc) == Goto(r, [requests[r] EXCEPT !.pc = pc])
Return(r) == Goto(r, Idle)
Node(r) == requests[r].node

-----------------------------------------------------------------------------
(* get_current_node and check_rate_limit                                   *)

StartPush(r, n, b) ==
    /\ At(r, "idle")
    /\ blocked[n] = "no"
    /\ started < MaxPushes
    /\ started' = started + 1
    /\ Goto(r, [pc |-> "soft", node |-> n, next |-> 1, sum |-> 0, bundle |-> b])
    /\ UNCHANGED <<strikes, limiter, blocked, admitted, orphans, beside>>

\* should_rate_limit adds the categories up, should_block weighs security 3x.
Weight(pc, category) == IF pc = "hard" /\ category = "security" THEN 3 ELSE 1

\* The sum after one more GET.
Sum(r) ==
    LET c == requests[r]
        category == Categories[c.next]
    IN  c.sum + Weight(c.pc, category) * strikes[c.node][category].count

\* The call, about to read the category `next`.
Reading(c, pc, next, sum) == [c EXCEPT !.pc = pc, !.next = next, !.sum = sum]

ReadNext(r) ==
    /\ At(r, "soft") \/ At(r, "hard")
    /\ requests[r].next < 3
    /\ Goto(r, Reading(requests[r], requests[r].pc, requests[r].next + 1, Sum(r)))
    /\ UNCHANGED <<strikes, limiter, blocked, started, admitted, orphans, beside>>

\* The last GET, and the comparison made on the three of them.
DecideLimit(r) ==
    /\ At(r, "soft")
    /\ requests[r].next = 3
    /\ Move(r, IF Sum(r) >= Soft THEN "exists" ELSE "incr")
    /\ UNCHANGED <<strikes, limiter, blocked, started, admitted, orphans, beside>>

Admit(n, limited) ==
    admitted' = [admitted EXCEPT ![n].all = @ + 1,
                                 ![n].limited = IF limited THEN @ + 1 ELSE @]

\* Mutant: the window of a limited node is not looked at.
MayPassAlways(n) == TRUE

\* A limited node passes only while no window is open.
MayPass(n) == ~Exists(limiter[n])

CheckExists(r) ==
    /\ At(r, "exists")
    /\ IF MayPass(Node(r)) THEN Move(r, "setex") ELSE Return(r)
    /\ UNCHANGED <<strikes, limiter, blocked, started, admitted, orphans, beside>>

SetLimiter(r) ==
    /\ At(r, "setex")
    /\ limiter' = [limiter EXCEPT ![Node(r)] = SetEx]
    /\ Admit(Node(r), TRUE)
    /\ Move(r, "audit")
    /\ UNCHANGED <<strikes, blocked, started, orphans, beside>>

\* Mutant: off by one.
WithinRateOrNext(count) == count <= Rate + 1

WithinRate(count) == count <= Rate

\* Mutant: no count is ever 0 after an INCR.
FirstPushIsZero(count) == count = 0

FirstPush(count) == count = 1

IncrLimiter(r) ==
    /\ At(r, "incr")
    /\ limiter' = [limiter EXCEPT ![Node(r)] = Incr(@)]
    /\ LET count == limiter'[Node(r)].count
       IN  IF WithinRate(count)
           THEN /\ Admit(Node(r), FALSE)
                /\ Move(r, IF FirstPush(count) THEN "expire" ELSE "audit")
           ELSE UNCHANGED admitted /\ Return(r)
    /\ UNCHANGED <<strikes, blocked, started, orphans, beside>>

ArmLimiter(r) ==
    /\ At(r, "expire")
    /\ limiter' = [limiter EXCEPT ![Node(r)] = Expire(@)]
    /\ Move(r, "audit")
    /\ UNCHANGED <<strikes, blocked, started, admitted, orphans, beside>>

-----------------------------------------------------------------------------
(* The outcome of the pre-audit, which itself awaits nothing.              *)

\* Mutant: a failed bundle may pass.
PassAuditAnyway(r) ==
    /\ At(r, "audit")
    /\ Return(r)
    /\ UNCHANGED <<strikes, limiter, blocked, started, admitted, orphans, beside>>

\* The bundle is queued: AuditReview takes over (see Hub).
PassAudit(r) ==
    /\ At(r, "audit")
    /\ run_pre_audit(requests[r].bundle).passed
    /\ Return(r)
    /\ UNCHANGED <<strikes, limiter, blocked, started, admitted, orphans, beside>>

\* History: a request takes up what one that died has left undone for the node.
TakeUp(n) == orphans' = orphans \ {<<n, "verdict">>}

\* History: the unblocks of n that run now see `what` come in beside them.
Unblocking(n) == {r \in Requests : At(r, "clear") /\ Node(r) = n}
Beside(n, what) == beside' = beside \cup (Unblocking(n) \X {what})
Forget(r) == beside' = {x \in beside : x[1] # r}

\* Mutant: the window is armed from the second strike on.
FirstStrikeIsSecond(count) == count = 2

FirstStrike(count) == count = 1

\* record_strike: INCR, and EXPIRE for the first.
RecordStrike(r) ==
    /\ At(r, "audit")
    /\ ~run_pre_audit(requests[r].bundle).passed
    /\ LET n == Node(r)
           category == Category(requests[r].bundle)
       IN  /\ strikes' = [strikes EXCEPT ![n][category] = Incr(@)]
           /\ Goto(r, Reading(requests[r],
                              IF FirstStrike(strikes'[n][category].count)
                              THEN "window" ELSE "hard", 1, 0))
           /\ TakeUp(n)
           /\ Beside(n, category)
    /\ UNCHANGED <<limiter, blocked, started, admitted>>

ArmStrikes(r) ==
    /\ At(r, "window")
    /\ LET category == Category(requests[r].bundle)
       IN  strikes' = [strikes EXCEPT ![Node(r)][category] = Expire(@)]
    /\ Move(r, "hard")
    /\ UNCHANGED <<limiter, blocked, started, admitted, orphans, beside>>

\* Mutant: blocked only above the limit.
ReachesHardAbove(sum) == sum > Hard

ReachesHard(sum) == sum >= Hard

\* The last GET of should_block.  The push ends with a "rejected" line of the
\* sync log.
DecideBlock(r) ==
    /\ At(r, "hard")
    /\ requests[r].next = 3
    /\ IF ReachesHard(Sum(r)) THEN Move(r, "block") ELSE Return(r)
    /\ UNCHANGED <<strikes, limiter, blocked, started, admitted, orphans, beside>>

BlockNode(r) ==
    /\ At(r, "block")
    /\ blocked' = [blocked EXCEPT ![Node(r)] = "auto"]
    /\ Beside(Node(r), "block")
    /\ Return(r)
    /\ UNCHANGED <<strikes, limiter, started, admitted, orphans>>

-----------------------------------------------------------------------------
(* POST /v1/admin/nodes/{id}/block and /unblock                            *)

\* One UPDATE: a request that has no second step takes no slot of Requests.
AdminBlock(n) ==
    /\ blocked' = [blocked EXCEPT ![n] = "manual"]
    /\ UNCHANGED <<strikes, limiter, requests, started, admitted, orphans, beside>>

StartUnblock(r, n) ==
    /\ At(r, "idle")
    /\ blocked' = [blocked EXCEPT ![n] = "no"]
    /\ Goto(r, [pc |-> "clear", node |-> n, next |-> 1])
    /\ TakeUp(n)
    /\ Forget(r)
    /\ UNCHANGED <<strikes, limiter, started, admitted>>

\* Mutants: only the first category is deleted; the loop runs too far.
LastToClearEarly == 1
LastToClearLate == 4

LastToClear == 3

\* clear_strikes: one DEL per category.
ClearNext(r) ==
    /\ At(r, "clear")
    /\ LET c == requests[r]
       IN  /\ strikes' = [strikes EXCEPT ![c.node][Categories[c.next]] = Absent]
           /\ IF c.next < LastToClear
              THEN Goto(r, [c EXCEPT !.next = @ + 1]) /\ UNCHANGED beside
              ELSE Return(r) /\ Forget(r)
    /\ UNCHANGED <<limiter, blocked, started, admitted, orphans>>

-----------------------------------------------------------------------------

\* A time-to-live runs out.
StrikesExpire(n, category) ==
    /\ strikes[n][category].armed
    /\ strikes' = [strikes EXCEPT ![n][category] = Absent]
    /\ UNCHANGED <<limiter, blocked, requests, started, admitted, orphans, beside>>

LimiterExpires(n) ==
    /\ limiter[n].armed
    /\ limiter' = [limiter EXCEPT ![n] = Absent]
    /\ admitted' = [admitted EXCEPT ![n] = NoneAdmitted]
    /\ UNCHANGED <<strikes, blocked, requests, started, orphans, beside>>

\* The key that a request has to arm next.
Owed(r) ==
    CASE At(r, "window") -> {<<Node(r), Category(requests[r].bundle)>>}
      [] At(r, "expire") -> {<<Node(r), "limiter">>}
      [] OTHER -> {}

\* A request that has recorded a strike has to look at their sum, one that has
\* unblocked the node has to delete them.
Due(r) ==
    IF requests[r].pc \in {"window", "hard", "block", "clear"}
    THEN {<<Node(r), "verdict">>} ELSE {}

\* Valkey or the database fails one request; a crash ends all of them.
Fail(r) ==
    /\ Failures
    /\ ~At(r, "idle")
    /\ orphans' = orphans \cup Owed(r) \cup Due(r)
    /\ Return(r)
    /\ Forget(r)
    /\ UNCHANGED <<strikes, limiter, blocked, started, admitted>>

\* One command of a request that has not passed the gate.
Command(r) ==
    \/ ReadNext(r) \/ DecideLimit(r) \/ CheckExists(r) \/ SetLimiter(r)
    \/ IncrLimiter(r) \/ ArmLimiter(r) \/ RecordStrike(r) \/ ArmStrikes(r)
    \/ DecideBlock(r) \/ BlockNode(r) \/ ClearNext(r)

Continue(r) == Command(r) \/ PassAudit(r)

Arrive(r) ==
    \/ \E n \in Nodes, b \in Pushed : StartPush(r, n, b)
    \/ \E n \in Nodes : StartUnblock(r, n)

Clock(n) ==
    \/ LimiterExpires(n)
    \/ \E category \in CategoryNames : StrikesExpire(n, category)

Next ==
    \/ \E r \in Requests : Arrive(r) \/ Continue(r) \/ Fail(r)
    \/ \E n \in Nodes : AdminBlock(n) \/ Clock(n)

Spec == Init /\ [][Next]_vars

\* The event loop resumes every coroutine, and an armed time-to-live runs out.
\* No admin has to do anything.
FairSpec ==
    /\ Spec
    /\ \A r \in Requests : WF_vars(Continue(r))
    /\ \A n \in Nodes : WF_vars(LimiterExpires(n))
    /\ \A n \in Nodes, category \in CategoryNames : WF_vars(StrikesExpire(n, category))

-----------------------------------------------------------------------------
(* Properties.                                                             *)

\* Every counter, flag and request has its type.
TypeOK ==
    /\ strikes \in [Nodes -> [CategoryNames -> Counters]]
    /\ limiter \in [Nodes -> Counters]
    /\ blocked \in [Nodes -> {"no", "auto", "manual"}]
    /\ requests \in [Requests -> Calls]
    /\ started \in 0..MaxPushes
    /\ admitted \in [Nodes -> [all : Nat, limited : Nat]]
    /\ orphans \subseteq Nodes \X (CategoryNames \cup {"limiter", "verdict"})
    /\ beside \subseteq Requests \X (CategoryNames \cup {"block"})

\* No abuser escapes: once no request is running, a node whose weighted strikes
\* reach the hard limit is blocked, although strikes, reads, blocks and unblocks of
\* several requests interleave command by command; unless a request died between a
\* strike and the block, or within an unblock, and nobody has struck or unblocked since.
Quiet == \A r \in Requests : At(r, "idle")
Weighted(n) ==
    strikes[n]["syntax"].count + strikes[n]["general"].count + 3 * strikes[n]["security"].count
Abandoned(n) == <<n, "verdict">> \in orphans
NoEscape ==
    Quiet => \A n \in Nodes :
        Weighted(n) >= Hard => blocked[n] # "no" \/ Abandoned(n)

\* "Rate-limited nodes: 1 push per hour": EXISTS and SETEX are two commands, so in
\* one window every request that looks before the first SETEX passes, but no other.
LimitedCap == \A n \in Nodes : admitted[n].limited <= Cardinality(Requests)

\* "Normal nodes: 60 pushes per hour": a late SETEX sets the count back to 1, so a
\* window lets through Rate pushes for every request that may be late; with one
\* request at a time exactly Rate, also for a node limited during part of it.
WindowCap == \A n \in Nodes : admitted[n].all <= Rate * Cardinality(Requests)

\* No counter is for ever: one that has no time-to-live gets it from a request
\* that is about to arm it, unless that request died between INCR and EXPIRE,
\* however strikes, deletions, expiries and late EXPIREs of others interleave.
Arming(n, key) == \E r \in Requests : <<n, key>> \in Owed(r)
Ends(n, key, c) == Exists(c) /\ ~c.armed => Arming(n, key) \/ <<n, key>> \in orphans
CountersEnd ==
    \A n \in Nodes :
        /\ Ends(n, "limiter", limiter[n])
        /\ \A category \in CategoryNames : Ends(n, category, strikes[n][category])

\* "Unblock a federation node and clear its strikes": when an unblock returns, no
\* automatic block stands for strikes that it has cleared.
Unblocked(r, n) == At(r, "clear") /\ ClearNext(r) /\ Node(r) = n /\ requests'[r] = Idle
UnblockFrees ==
    [][\A r \in Requests, n \in Nodes :
          Unblocked(r, n) => (blocked'[n] = "auto" => Weighted(n)' >= Hard)]_vars

\* Nothing outlives an unblock but what pushes of the node have done while it ran:
\* a strike that is left when it returns is of a category struck beside it, and an
\* automatic block was set beside it, after the flag was reset.  Older strikes and
\* blocks are gone, whatever other pushes, unblocks, expiries and deaths interleave
\* with the reset and the three deletions.
UnblockSettles ==
    [][\A r \in Requests, n \in Nodes :
          Unblocked(r, n) =>
              /\ blocked'[n] = "auto" => <<r, "block">> \in beside
              /\ \A c \in CategoryNames : Exists(strikes'[n][c]) => <<r, c>> \in beside]_vars

\* Every window ends: strikes and push counts do not stay for ever, unless a request
\* died between INCR and EXPIRE.
StrikesLapse ==
    \A n \in Nodes, c \in CategoryNames :
        Exists(strikes[n][c]) ~> ~Exists(strikes[n][c]) \/ <<n, c>> \in orphans
WindowCloses ==
    \A n \in Nodes : Exists(limiter[n]) ~> ~Exists(limiter[n]) \/ <<n, "limiter">> \in orphans

=============================================================================
