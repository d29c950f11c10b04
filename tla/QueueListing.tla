---------------------------- MODULE QueueListing ----------------------------
(***************************************************************************)
(* GET /v1/admin/audit/queue?status=pending: an admin walks through the    *)
(* pages of the pending entries while nodes push and other reviews decide. *)
(*                                                                         *)
(* `list_audit_entries` counts the entries and then reads one page, newest *)
(* first, by its offset: two queries, and nothing ties one page to the     *)
(* next.  An entry is ordered by `created_at` alone, which the model's     *)
(* default sets before the INSERT is committed; two entries may share one, *)
(* and each query puts them in an order of its own.  The admin is          *)
(* external: the walk ends with a page that is not full, or that reaches   *)
(* `total`.                                                                *)
(***************************************************************************)
EXTENDS Integers, FiniteSets

CONSTANTS
    Entries,    \* audit entry ids
    PerPage     \* per_page of the walk

ASSUME PerPageAssumption == PerPage \in Nat \ {0}

VARIABLES
    created,    \* created_at of the entries that have one
    committed,  \* entries whose INSERT is committed
    decided,    \* entries that have left status "pending"
    walk,       \* where the admin stands: next step, page, total, and if the page was full
    shown,      \* entries shown by the walk so far
    stayed,     \* history: entries that have matched since the walk began
    departed,   \* history: how many entries were decided during the walk
    late        \* history: how many were committed after the last count

walkVars == <<walk, shown, stayed, departed, late>>
vars == <<created, committed, decided, walkVars>>

Stamped == DOMAIN created
Pending == committed \ decided

Walking == walk.pc \in {"count", "rows"}

Init ==
    /\ created = [e \in {} |-> 0]
    /\ committed = {}
    /\ decided = {}
    /\ walk = [pc |-> "idle", page |-> 1, total |-> 0, full |-> FALSE]
    /\ shown = {}
    /\ stayed = {}
    /\ departed = 0
    /\ late = 0

-----------------------------------------------------------------------------
(* Pushes and reviews; see AuditReview.                                    *)

\* _utcnow: later than every time taken, or the same microsecond as the latest.
Now ==
    {t \in {created[d] : d \in Stamped} \cup {Cardinality(Stamped) + 1} :
        \A d \in Stamped : created[d] <= t}

TakeTime(e) ==
    \E t \in Now :
        created' = [d \in Stamped \cup {e} |-> IF d = e THEN t ELSE created[d]]

\* Mutant: an entry is stamped again.
StampAgain(e) ==
    /\ e \notin committed
    /\ TakeTime(e)
    /\ UNCHANGED <<committed, decided, walkVars>>

\* create_audit_entry takes the time, then commits.  Nothing makes it unique.
Stamp(e) ==
    /\ e \notin Stamped
    /\ TakeTime(e)
    /\ UNCHANGED <<committed, decided, walkVars>>

Insert(e) ==
    /\ e \in Stamped \ committed
    /\ committed' = committed \cup {e}
    /\ late' = IF walk.pc = "rows" THEN late + 1 ELSE late
    /\ UNCHANGED <<created, decided, walk, shown, stayed, departed>>

Decide(e) ==
    /\ e \in Pending
    /\ decided' = decided \cup {e}
    /\ departed' = IF Walking THEN departed + 1 ELSE departed
    /\ stayed' = IF Walking THEN stayed \ {e} ELSE stayed
    /\ UNCHANGED <<created, committed, walk, shown, late>>

-----------------------------------------------------------------------------
(* The walk.                                                               *)

StartWalk ==
    /\ ~Walking
    /\ walk' = [pc |-> "count", page |-> 1, total |-> 0, full |-> FALSE]
    /\ shown' = {}
    /\ stayed' = Pending
    /\ departed' = 0
    /\ late' = 0
    /\ UNCHANGED <<created, committed, decided>>

CountEntries ==
    /\ walk.pc = "count"
    /\ walk' = [walk EXCEPT !.pc = "rows", !.total = Cardinality(Pending)]
    /\ late' = 0
    /\ UNCHANGED <<created, committed, decided, shown, stayed, departed>>

\* Mutant: pages counted from zero.
OffsetFromZero(page) == page * PerPage

Offset(page) == (page - 1) * PerPage

\* The first `count` entries by created_at DESC: ties are in no particular order.
Firsts(count) ==
    {S \in SUBSET Pending :
        /\ Cardinality(S) = IF count < Cardinality(Pending) THEN count ELSE Cardinality(Pending)
        /\ \A d \in S, e \in Pending \ S : created[d] >= created[e]}

\* OFFSET and LIMIT: what follows the first, of one order of the entries.
Rows(page) ==
    LET Cut == {c \in Firsts(Offset(page)) \X Firsts(Offset(page) + PerPage) : c[1] \subseteq c[2]}
    IN  {c[2] \ c[1] : c \in Cut}

\* The admin has seen as many pages as there are entries.
Reached(page, total) == page * PerPage >= total

ReadRows ==
    /\ walk.pc = "rows"
    /\ \E rows \in Rows(walk.page) :
          LET full == Cardinality(rows) = PerPage
          IN  /\ shown' = shown \cup rows
              /\ walk' = IF full /\ ~Reached(walk.page, walk.total)
                         THEN [walk EXCEPT !.pc = "count", !.page = @ + 1]
                         ELSE [walk EXCEPT !.pc = "done", !.full = full]
    /\ UNCHANGED <<created, committed, decided, stayed, departed, late>>

Next ==
    \/ \E e \in Entries : Stamp(e) \/ Insert(e) \/ Decide(e)
    \/ StartWalk
    \/ CountEntries
    \/ ReadRows

Spec == Init /\ [][Next]_vars

-----------------------------------------------------------------------------
(* Properties.                                                             *)

\* Every set, page and counter has its type.
TypeOK ==
    /\ Stamped \subseteq Entries
    /\ created \in [Stamped -> 1 .. Cardinality(Stamped)]
    /\ committed \subseteq Stamped
    /\ decided \subseteq committed
    /\ walk \in [pc : {"idle", "count", "rows", "done"}, page : Nat \ {0}, total : Nat,
                 full : BOOLEAN]
    /\ shown \subseteq committed
    /\ stayed \subseteq committed
    /\ departed \in Nat
    /\ late \in Nat

\* A walk overlooks as many of the entries that were pending all along as were
\* decided while it went on, and, if it relied on `total`, as were committed
\* after the count: entries that arrive otherwise are only shown twice.  Entries
\* that share their created_at are not promised anything: two queries may order
\* them differently, and one of them is then on no page.
Tied(e) == \E d \in Stamped \ {e} : created[d] = created[e]
Overlooked == {e \in stayed \ shown : ~Tied(e)}
OverlookedAreDeparted ==
    walk.pc = "done" =>
        Cardinality(Overlooked) <= departed + (IF walk.full THEN late ELSE 0)

=============================================================================
