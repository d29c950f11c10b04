------------------------- MODULE QueueListingProofs -------------------------
(***************************************************************************)
(* What a walk through the pages can overlook, for any number of entries   *)
(* and any page size, whether or not entries share their created_at.       *)
(*                                                                         *)
(* The argument counts ranks.  An entry that shares its time with no other *)
(* has one rank, in whatever order a query puts the others; a decision     *)
(* moves the ranks below it up by one, a commit moves ranks down.  So only *)
(* a decision can bring such an entry, not shown by the walk, into the     *)
(* ranks that the walk has left behind, and one at most.                   *)
(***************************************************************************)
EXTENDS QueueListing, FiniteSetTheorems, TLAPS

-----------------------------------------------------------------------------
(* Ranks, for any finite set of entries with times.                        *)

Above(P, t, e) == {d \in P : t[d] >= t[e]}
Place(P, t, e) == Cardinality(Above(P, t, e))

Timed(P, t) ==
    /\ IsFiniteSet(P)
    /\ \A e \in P : t[e] \in Nat

\* No other entry has the time of `e`.
Alone(P, t, e) == \A d \in P : t[d] = t[e] => d = e

\* A listing of n entries has its ranks between 1 and n.
LEMMA PlaceRange ==
  ASSUME NEW P, NEW t, Timed(P, t), NEW e \in P
  PROVE  /\ IsFiniteSet(Above(P, t, e))
         /\ Place(P, t, e) \in 1 .. Cardinality(P)
<1>1. Above(P, t, e) \in SUBSET P /\ e \in Above(P, t, e)
  BY DEF Above, Timed
<1>2. /\ IsFiniteSet(Above(P, t, e))
      /\ Cardinality(Above(P, t, e)) <= Cardinality(P)
  BY <1>1, FS_Subset DEF Timed
<1>3. Cardinality(Above(P, t, e)) # 0
  BY <1>1, <1>2, FS_EmptySet
<1>4. Cardinality(Above(P, t, e)) \in Nat /\ Cardinality(P) \in Nat
  BY <1>2, FS_CardinalityType DEF Timed
<1> QED
  BY <1>2, <1>3, <1>4 DEF Place

\* Entries with other times have other ranks.
LEMMA PlaceDiffers ==
  ASSUME NEW P, NEW t, Timed(P, t), NEW d \in P, NEW e \in P, Alone(P, t, e),
         Place(P, t, d) = Place(P, t, e)
  PROVE  d = e
<1>1. ASSUME NEW x \in P, NEW y \in P, t[x] > t[y]
      PROVE  Place(P, t, x) # Place(P, t, y)
  <2>1. Above(P, t, x) \in SUBSET Above(P, t, y)
    BY <1>1 DEF Above, Timed
  <2>2. y \in Above(P, t, y) /\ y \notin Above(P, t, x)
    BY <1>1 DEF Above, Timed
  <2> QED
    BY <2>1, <2>2, PlaceRange, FS_Subset DEF Place
<1>2. t[d] = t[e] \/ t[d] > t[e] \/ t[e] > t[d]
  BY DEF Timed
<1> QED
  BY <1>1, <1>2 DEF Alone

\* The entries with one rank and a time of their own are one at most.
LEMMA OneOfRank ==
  ASSUME NEW P, NEW t, Timed(P, t), NEW k,
         NEW S \in SUBSET P, \A e \in S : Alone(P, t, e) /\ Place(P, t, e) = k
  PROVE  IsFiniteSet(S) /\ Cardinality(S) \in {0, 1}
<1>1. CASE S = {}
  BY <1>1, FS_EmptySet
<1>2. CASE S # {}
  <2>1. PICK e \in S : TRUE
    BY <1>2
  <2>2. S = {e}
    BY PlaceDiffers
  <2> QED
    BY <2>2, FS_Singleton
<1> QED
  BY <1>1, <1>2

\* The first `count` entries, in an order by time that may put ties either way.
First(P, t, count, S) ==
    /\ S \in SUBSET P
    /\ Cardinality(S) = IF count < Cardinality(P) THEN count ELSE Cardinality(P)
    /\ \A d \in S, e \in P \ S : t[d] >= t[e]

\* Whatever the order, an entry with a time of its own is among the first `count`
\* if and only if its rank is.
LEMMA FirstByRank ==
  ASSUME NEW P, NEW t, Timed(P, t), NEW count \in Nat, NEW S, First(P, t, count, S),
         NEW e \in P, Alone(P, t, e)
  PROVE  e \in S <=> Place(P, t, e) <= count
<1>1. /\ IsFiniteSet(S) /\ Cardinality(S) \in Nat /\ Cardinality(S) <= count
      /\ IsFiniteSet(P) /\ Cardinality(P) \in Nat
  BY FS_Subset, FS_CardinalityType DEF First, Timed
<1>2. IsFiniteSet(Above(P, t, e)) /\ Place(P, t, e) \in 1 .. Cardinality(P)
  BY PlaceRange
<1>3. ASSUME e \in S PROVE Place(P, t, e) <= count
  <2>1. Above(P, t, e) \in SUBSET S
    <3> SUFFICES ASSUME NEW d \in P, t[d] >= t[e], d \notin S PROVE FALSE
      BY DEF Above
    <3>1. t[e] >= t[d]
      BY <1>3 DEF First
    <3>2. t[d] = t[e]
      BY <3>1 DEF Timed
    <3> QED
      BY <1>3, <3>2 DEF Alone
  <2>2. Cardinality(Above(P, t, e)) <= Cardinality(S)
    BY <1>1, <2>1, FS_Subset
  <2> QED
    BY <1>1, <1>2, <2>2 DEF Place
<1>4. ASSUME e \notin S PROVE ~(Place(P, t, e) <= count)
  <2>1. S \in SUBSET Above(P, t, e) /\ e \in Above(P, t, e)
    BY <1>4 DEF Above, First, Timed
  <2>2. Cardinality(S) < Cardinality(Above(P, t, e))
    <3>1. /\ Cardinality(S) <= Cardinality(Above(P, t, e))
          /\ Cardinality(S) = Cardinality(Above(P, t, e)) => S = Above(P, t, e)
      BY <1>2, <2>1, FS_Subset
    <3> QED
      BY <1>1, <1>2, <1>4, <2>1, <3>1 DEF Place
  <2> QED
    BY <1>1, <1>2, <2>2 DEF Place, First
<1> QED
  BY <1>3, <1>4

\* An entry that leaves moves another up by one at most, never down.
LEMMA PlaceAfterLeaving ==
  ASSUME NEW P, NEW t, Timed(P, t), NEW d \in P, NEW e \in P \ {d}
  PROVE  /\ Place(P \ {d}, t, e) <= Place(P, t, e)
         /\ Place(P, t, e) <= Place(P \ {d}, t, e) + 1
<1>1. Above(P \ {d}, t, e) = Above(P, t, e) \ {d}
  BY DEF Above
<1>2. IsFiniteSet(Above(P, t, e))
  BY PlaceRange
<1> DEFINE A == Above(P, t, e)
<1>3. Cardinality(A) \in Nat
  BY <1>2, FS_CardinalityType
<1>4. Cardinality(A \ {d}) = Cardinality(A) - 1 \/ Cardinality(A \ {d}) = Cardinality(A)
  BY <1>2, FS_RemoveElement
<1>5. Place(P \ {d}, t, e) = Cardinality(A \ {d}) /\ Place(P, t, e) = Cardinality(A)
  BY <1>1 DEF Place
<1> HIDE DEF A
<1> QED
  BY <1>3, <1>4, <1>5

\* An entry that joins moves no other up.
LEMMA PlaceAfterJoining ==
  ASSUME NEW P, NEW t, NEW d, Timed(P \cup {d}, t), NEW e \in P
  PROVE  Place(P, t, e) <= Place(P \cup {d}, t, e)
<1>1. Above(P, t, e) \in SUBSET Above(P \cup {d}, t, e)
  BY DEF Above
<1>2. IsFiniteSet(Above(P \cup {d}, t, e))
  BY PlaceRange
<1> QED
  BY <1>1, <1>2, FS_Subset DEF Place

-----------------------------------------------------------------------------
(* The invariant.                                                          *)

Rank(e) == Place(Pending, created, e)

\* What has stayed and was not shown, although the walk is past its rank.
Behind == {e \in Overlooked : Rank(e) <= Offset(walk.page)}

WalkOK ==
    /\ stayed \subseteq Pending
    /\ Cardinality(Behind) <= departed
    /\ walk.pc = "rows" => Cardinality(Pending) <= walk.total + late

ListingInv ==
    /\ TypeOK
    /\ IsFiniteSet(Stamped)
    /\ Walking => WalkOK
    /\ OverlookedAreDeparted

\* The pending entries have times, and those that are not tied one of their own.
LEMMA TimedSubset ==
  ASSUME NEW S, IsFiniteSet(S), NEW P \in SUBSET S, NEW t \in [S -> 1 .. Cardinality(S)]
  PROVE  Timed(P, t)
<1>1. IsFiniteSet(P)
  BY FS_Subset
<1>2. Cardinality(S) \in Nat
  BY FS_CardinalityType
<1> QED
  BY <1>1, <1>2 DEF Timed

LEMMA PendingTimed ==
  ASSUME TypeOK, IsFiniteSet(Stamped)
  PROVE  /\ Timed(Pending, created)
         /\ Pending \subseteq Stamped
         /\ \A e \in Pending : Rank(e) \in Nat
         /\ \A e \in Pending : ~Tied(e) => Alone(Pending, created, e)
<1>1. Pending \in SUBSET Stamped
  BY DEF TypeOK, Pending
<1>2. Timed(Pending, created)
  BY <1>1, TimedSubset DEF TypeOK
<1>3. \A e \in Pending : Rank(e) \in Nat
  BY <1>2, PlaceRange DEF Rank
<1>4. \A e \in Pending : ~Tied(e) => Alone(Pending, created, e)
  BY <1>1 DEF Tied, Alone
<1> QED
  BY <1>1, <1>2, <1>3, <1>4

\* The same of the next state.
LEMMA PendingTimedNext ==
  ASSUME TypeOK', IsFiniteSet(Stamped')
  PROVE  /\ Timed(Pending', created')
         /\ \A e : Rank(e)' = Place(Pending', created', e)
         /\ \A e \in Pending' : Rank(e)' \in Nat
<1>1. Pending' \in SUBSET Stamped'
  BY DEF TypeOK, Pending
<1>2. Timed(Pending', created')
  BY <1>1, TimedSubset DEF TypeOK
<1>3. \A e : Rank(e)' = Place(Pending', created', e)
  BY DEF Rank, Place, Above
<1> QED
  BY <1>1, <1>2, <1>3, PlaceRange

\* The offset of a page is a number, and the next page starts where it ends.
LEMMA OffsetNext ==
  ASSUME NEW page \in Nat \ {0}
  PROVE  /\ Offset(page) \in Nat
         /\ Offset(page + 1) = Offset(page) + PerPage
         /\ page * PerPage = Offset(page) + PerPage
<1>1. PICK i \in Nat : page = i + 1
  <2>1. page - 1 \in Nat /\ page = (page - 1) + 1
    OBVIOUS
  <2> QED
    BY <2>1
<1>2. (i + 1) * PerPage = i * PerPage + PerPage /\ i * PerPage \in Nat
  BY PerPageAssumption
<1>3. page - 1 = i /\ page + 1 - 1 = i + 1
  BY <1>1
<1> QED
  BY <1>1, <1>2, <1>3 DEF Offset

\* The sets that are counted are finite.
LEMMA CountedFinite ==
  ASSUME TypeOK, IsFiniteSet(Stamped)
  PROVE  /\ IsFiniteSet(Pending) /\ IsFiniteSet(stayed)
         /\ IsFiniteSet(Overlooked) /\ IsFiniteSet(Behind)
         /\ Cardinality(Pending) \in Nat /\ Cardinality(Behind) \in Nat
<1>1. /\ Pending \in SUBSET Stamped /\ stayed \in SUBSET Stamped
      /\ Overlooked \in SUBSET Stamped /\ Behind \in SUBSET Stamped
  BY DEF TypeOK, Pending, Behind, Overlooked
<1> QED
  BY <1>1, FS_Subset, FS_CardinalityType

-----------------------------------------------------------------------------
(* Pushes and reviews.                                                     *)

LEMMA StampKeeps ==
  ASSUME ListingInv, NEW e \in Entries, Stamp(e)
  PROVE  ListingInv'
<1> DEFINE n == Cardinality(Stamped)
<1>0. TypeOK /\ IsFiniteSet(Stamped) /\ n \in Nat /\ UNCHANGED <<committed, decided, walkVars>>
  BY FS_CardinalityType DEF ListingInv, Stamp
<1>1. PICK t \in Now : created' = [d \in Stamped \cup {e} |-> IF d = e THEN t ELSE created[d]]
  BY DEF Stamp, TakeTime
<1>2. /\ Stamped' = Stamped \cup {e} /\ e \notin Stamped
      /\ \A d \in Stamped : created'[d] = created[d]
  BY <1>1 DEF Stamp, Stamped
<1>3. IsFiniteSet(Stamped') /\ Cardinality(Stamped') = n + 1
  BY <1>0, <1>2, FS_AddElement
<1>4. created' \in [Stamped' -> 1 .. n + 1]
  <2>1. t \in 1 .. n + 1 /\ \A d \in Stamped : created[d] \in 1 .. n + 1
    BY <1>0 DEF Now, TypeOK
  <2> QED
    BY <1>1, <1>2, <2>1
<1>5. TypeOK'
  BY <1>0, <1>2, <1>3, <1>4 DEF TypeOK, walkVars, Stamp
<1>6. Pending' = Pending /\ Pending \subseteq Stamped
  BY <1>0, PendingTimed DEF Pending
<1>7. \A d \in Pending : Rank(d)' = Rank(d)
  BY <1>2, <1>6 DEF Rank, Place, Above
<1>8. ASSUME Walking PROVE WalkOK'
  <2>0. WalkOK /\ stayed \subseteq Pending
    BY <1>8 DEF ListingInv, WalkOK
  <2>1. Behind' \in SUBSET Behind
    <3> SUFFICES ASSUME NEW d \in Behind' PROVE d \in Behind
      OBVIOUS
    <3>1. d \in stayed \ shown /\ ~Tied(d)' /\ Rank(d)' <= Offset(walk.page) /\ d \in Pending
      BY <1>0, <2>0 DEF Behind, Overlooked, Offset, walkVars
    <3>2. ~Tied(d)
      BY <1>2, <1>6, <3>1 DEF Tied
    <3> QED
      BY <1>7, <3>1, <3>2 DEF Behind, Overlooked
  <2>2. Cardinality(Behind') <= departed'
    <3>1. Cardinality(Behind') <= Cardinality(Behind) /\ IsFiniteSet(Behind')
      BY <1>0, <2>1, CountedFinite, FS_Subset
    <3> QED
      BY <1>0, <2>0, <3>1, CountedFinite, FS_CardinalityType DEF WalkOK, TypeOK, walkVars
  <2> QED
    BY <1>0, <1>6, <2>0, <2>2 DEF WalkOK, walkVars
<1>9. OverlookedAreDeparted'
  <2> SUFFICES ASSUME walk.pc = "done" PROVE OverlookedAreDeparted'
    BY <1>0 DEF OverlookedAreDeparted, walkVars
  <2>1. Overlooked' \in SUBSET Overlooked
    <3>1. stayed \subseteq Stamped
      BY <1>0 DEF TypeOK
    <3> QED
      BY <1>0, <1>2, <3>1 DEF Overlooked, Tied, walkVars
  <2>2. Cardinality(Overlooked') <= Cardinality(Overlooked) /\ IsFiniteSet(Overlooked')
    BY <1>0, <2>1, CountedFinite, FS_Subset
  <2>3. Cardinality(Overlooked) \in Nat /\ Cardinality(Overlooked') \in Nat
    BY <1>0, <2>2, CountedFinite, FS_CardinalityType
  <2>4. departed + (IF walk.full THEN late ELSE 0) \in Nat
    BY <1>0 DEF TypeOK
  <2> QED
    BY <1>0, <2>2, <2>3, <2>4 DEF ListingInv, OverlookedAreDeparted, walkVars
<1> QED
  BY <1>0, <1>3, <1>5, <1>8, <1>9 DEF ListingInv, Walking, walkVars

LEMMA InsertKeeps ==
  ASSUME ListingInv, NEW e \in Entries, Insert(e)
  PROVE  ListingInv'
<1>0. /\ TypeOK /\ IsFiniteSet(Stamped) /\ e \in Stamped \ committed
      /\ committed' = committed \cup {e}
      /\ late' = IF walk.pc = "rows" THEN late + 1 ELSE late
      /\ UNCHANGED <<created, decided, walk, shown, stayed, departed>>
  BY DEF ListingInv, Insert
<1>1. Pending' = Pending \cup {e} /\ e \notin Pending
  BY <1>0 DEF Pending, TypeOK
<1>2. TypeOK' /\ IsFiniteSet(Stamped')
  BY <1>0 DEF TypeOK, Stamped
<1>3. \A d \in Pending : /\ Rank(d) \in Nat /\ Rank(d)' \in Nat
                        /\ Rank(d)' >= Rank(d)
  <2> TAKE d \in Pending
  <2>1. /\ Timed(Pending \cup {e}, created) /\ created' = created
        /\ Rank(d) = Place(Pending, created, d) /\ Rank(d) \in Nat
        /\ Rank(d)' = Place(Pending \cup {e}, created, d) /\ Rank(d)' \in Nat
    BY <1>0, <1>1, <1>2, PendingTimed, PendingTimedNext DEF Rank
  <2>2. Place(Pending, created, d) <= Place(Pending \cup {e}, created, d)
    BY <2>1, PlaceAfterJoining
  <2> QED
    BY <2>1, <2>2
<1>4. Walking => WalkOK'
  <2> SUFFICES ASSUME Walking PROVE WalkOK'
    OBVIOUS
  <2>0. WalkOK /\ stayed' \subseteq Pending'
    BY <1>0, <1>1 DEF ListingInv, WalkOK
  <2>1. Behind' \in SUBSET Behind
    <3> SUFFICES ASSUME NEW d \in Behind' PROVE d \in Behind
      OBVIOUS
    <3>1. d \in Overlooked /\ Rank(d)' <= Offset(walk.page) /\ d \in Pending
      BY <1>0, <2>0 DEF Behind, Overlooked, Tied, Stamped, Offset, WalkOK
    <3>2. Rank(d)' >= Rank(d) /\ Rank(d) \in Nat /\ Rank(d)' \in Nat
      BY <1>3, <3>1
    <3>3. Offset(walk.page) \in Nat
      BY <1>0, OffsetNext DEF TypeOK
    <3> QED
      BY <3>1, <3>2, <3>3 DEF Behind
  <2>2. Cardinality(Behind') <= departed'
    <3>1. Cardinality(Behind') <= Cardinality(Behind) /\ IsFiniteSet(Behind')
      BY <1>0, <2>1, CountedFinite, FS_Subset
    <3> QED
      BY <1>0, <2>0, <3>1, CountedFinite, FS_CardinalityType DEF WalkOK, TypeOK
  <2>3. walk'.pc = "rows" => Cardinality(Pending') <= walk'.total + late'
    <3>1. Cardinality(Pending') = Cardinality(Pending) + 1
      BY <1>0, <1>1, CountedFinite, FS_AddElement
    <3> QED
      BY <1>0, <2>0, <3>1, CountedFinite DEF WalkOK, TypeOK
  <2> QED
    BY <2>0, <2>2, <2>3 DEF WalkOK
<1>5. OverlookedAreDeparted'
  BY <1>0 DEF ListingInv, OverlookedAreDeparted, Overlooked, Tied, Stamped
<1> QED
  BY <1>0, <1>2, <1>4, <1>5 DEF ListingInv, Walking

LEMMA DecideKeeps ==
  ASSUME ListingInv, NEW e \in Entries, Decide(e)
  PROVE  ListingInv'
<1>0. /\ TypeOK /\ IsFiniteSet(Stamped) /\ e \in Pending
      /\ decided' = decided \cup {e}
      /\ departed' = IF Walking THEN departed + 1 ELSE departed
      /\ stayed' = IF Walking THEN stayed \ {e} ELSE stayed
      /\ UNCHANGED <<created, committed, walk, shown, late>>
  BY DEF ListingInv, Decide
<1>1. Pending' = Pending \ {e}
  BY <1>0 DEF Pending
<1>2. TypeOK' /\ IsFiniteSet(Stamped')
  BY <1>0 DEF TypeOK, Stamped, Pending
<1>3. \A d \in Pending' : /\ d \in Pending /\ Rank(d) \in Nat /\ Rank(d)' \in Nat
                         /\ Rank(d) <= Rank(d)' + 1
  <2> TAKE d \in Pending'
  <2>1. /\ Timed(Pending, created) /\ d \in Pending \ {e}
        /\ Rank(d) = Place(Pending, created, d) /\ Rank(d) \in Nat
        /\ Rank(d)' = Place(Pending \ {e}, created, d) /\ Rank(d)' \in Nat
    BY <1>0, <1>1, <1>2, PendingTimed, PendingTimedNext DEF Rank
  <2>2. Place(Pending, created, d) <= Place(Pending \ {e}, created, d) + 1
    BY <1>0, <2>1, PlaceAfterLeaving
  <2> QED
    BY <2>1, <2>2
<1>4. ASSUME Walking PROVE WalkOK'
  <2>0. WalkOK /\ stayed' \subseteq Pending'
    BY <1>0, <1>1, <1>4 DEF ListingInv, WalkOK
  <2> DEFINE k == Offset(walk.page)
             Next1 == {d \in Pending : ~Tied(d) /\ Rank(d) = k + 1}
  <2>1. k \in Nat
    BY <1>0, OffsetNext DEF TypeOK
  <2>2. IsFiniteSet(Next1) /\ Cardinality(Next1) \in {0, 1}
    <3>1. \A d \in Next1 : Alone(Pending, created, d) /\ Place(Pending, created, d) = k + 1
      BY <1>0, PendingTimed DEF Rank
    <3>2. Timed(Pending, created) /\ Next1 \in SUBSET Pending
      BY <1>0, PendingTimed
    <3> HIDE DEF Next1, k
    <3> QED
      BY <3>1, <3>2, OneOfRank
  <2>3. Behind' \in SUBSET (Behind \cup Next1)
    <3> SUFFICES ASSUME NEW d \in Behind' PROVE d \in Behind \cup Next1
      OBVIOUS
    <3>1. d \in Overlooked /\ ~Tied(d) /\ d \in Pending' /\ Rank(d)' <= k
      BY <1>0, <1>4, <2>0 DEF Behind, Overlooked, Tied, Stamped, Offset
    <3>2. Rank(d) <= k \/ Rank(d) = k + 1
      BY <1>3, <2>1, <3>1
    <3> QED
      BY <1>3, <2>1, <3>1, <3>2 DEF Behind
  <2>4. Cardinality(Behind') <= departed'
    <3> HIDE DEF Next1
    <3>1. /\ IsFiniteSet(Behind \cup Next1)
          /\ Cardinality(Behind \cup Next1) =
                Cardinality(Behind) + Cardinality(Next1) - Cardinality(Behind \cap Next1)
      BY <1>0, <2>2, CountedFinite, FS_Union
    <3>2. Cardinality(Behind \cap Next1) \in Nat
      <4>1. (Behind \cap Next1) \in SUBSET Next1
        OBVIOUS
      <4> QED
        BY <2>2, <4>1, FS_Subset, FS_CardinalityType
    <3>3. /\ Cardinality(Behind') <= Cardinality(Behind \cup Next1)
          /\ Cardinality(Behind') \in Nat
      BY <2>3, <3>1, FS_Subset, FS_CardinalityType
    <3>4. Cardinality(Behind) \in Nat /\ departed \in Nat /\ departed' = departed + 1
      BY <1>0, <1>4, CountedFinite DEF TypeOK
    <3> QED
      BY <2>0, <2>2, <3>1, <3>2, <3>3, <3>4 DEF WalkOK
  <2>5. walk'.pc = "rows" => Cardinality(Pending') <= walk'.total + late'
    <3>1. Cardinality(Pending') = Cardinality(Pending) - 1
      BY <1>0, <1>1, CountedFinite, FS_RemoveElement
    <3> QED
      BY <1>0, <2>0, <3>1, CountedFinite DEF WalkOK, TypeOK
  <2> QED
    BY <2>0, <2>4, <2>5 DEF WalkOK
<1>5. OverlookedAreDeparted'
  BY <1>0 DEF ListingInv, OverlookedAreDeparted, Overlooked, Tied, Stamped, Walking
<1> QED
  BY <1>0, <1>2, <1>4, <1>5 DEF ListingInv, Walking

-----------------------------------------------------------------------------
(* The walk.                                                               *)

LEMMA StartKeeps ==
  ASSUME ListingInv, StartWalk
  PROVE  ListingInv'
<1>0. /\ TypeOK /\ IsFiniteSet(Stamped)
      /\ walk' = [pc |-> "count", page |-> 1, total |-> 0, full |-> FALSE]
      /\ shown' = {} /\ stayed' = Pending /\ departed' = 0 /\ late' = 0
      /\ UNCHANGED <<created, committed, decided>>
  BY DEF ListingInv, StartWalk
<1>1. TypeOK' /\ IsFiniteSet(Stamped') /\ Pending' = Pending
  BY <1>0 DEF TypeOK, Stamped, Pending
<1>2. Behind' = {}
  <2>1. Offset(1) = 0
    BY PerPageAssumption DEF Offset
  <2>2. \A d \in Pending : Rank(d)' >= 1
    BY <1>1, PendingTimedNext, PlaceRange DEF Rank
  <2>3. \A d \in Pending : Rank(d)' \in Nat
    BY <1>1, PendingTimedNext
  <2>4. \A d \in Pending : ~(Rank(d)' <= Offset(1))
    BY <2>1, <2>2, <2>3
  <2>5. Offset(walk.page)' = Offset(1)
    BY <1>0 DEF Offset
  <2> QED
    BY <1>0, <2>4, <2>5 DEF Behind, Overlooked
<1>3. WalkOK'
  BY <1>0, <1>1, <1>2, FS_EmptySet DEF WalkOK
<1> QED
  BY <1>0, <1>1, <1>3 DEF ListingInv, OverlookedAreDeparted

LEMMA CountKeeps ==
  ASSUME ListingInv, CountEntries
  PROVE  ListingInv'
<1>0. /\ TypeOK /\ IsFiniteSet(Stamped) /\ WalkOK
      /\ walk.pc = "count" /\ walk' = [walk EXCEPT !.pc = "rows", !.total = Cardinality(Pending)]
      /\ late' = 0
      /\ UNCHANGED <<created, committed, decided, shown, stayed, departed>>
  BY DEF ListingInv, CountEntries, Walking
<1>1. Cardinality(Pending) \in Nat
  BY <1>0, CountedFinite
<1>2. walk'.page = walk.page /\ walk'.pc = "rows" /\ walk'.total = Cardinality(Pending)
  BY <1>0 DEF TypeOK
<1>3. TypeOK' /\ IsFiniteSet(Stamped') /\ Pending' = Pending
  BY <1>0, <1>1 DEF TypeOK, Stamped, Pending
<1>4. Behind' = Behind
  <2>1. \A d : Rank(d)' = Rank(d)
    BY <1>0, <1>3 DEF Rank, Place, Above
  <2> QED
    BY <1>0, <1>2, <2>1 DEF Behind, Overlooked, Tied, Stamped, Offset
<1>5. WalkOK'
  BY <1>0, <1>1, <1>2, <1>3, <1>4 DEF WalkOK
<1> QED
  BY <1>2, <1>3, <1>5 DEF ListingInv, OverlookedAreDeparted

\* A page is what two sets of first entries leave between them.
LEMMA RowsBetween ==
  ASSUME NEW page, NEW rows \in Rows(page)
  PROVE  \E A, B : /\ First(Pending, created, Offset(page), A)
                   /\ First(Pending, created, Offset(page) + PerPage, B)
                   /\ A \in SUBSET B /\ rows = B \ A
  BY DEF Rows, Firsts, First

\* A page is read: either the walk goes on behind it, or it ends and nothing is
\* left but what it had overlooked before and, behind a full page, `late` entries.
LEMMA ReadKeeps ==
  ASSUME ListingInv, ReadRows
  PROVE  ListingInv'
<1> DEFINE m == Offset(walk.page)
           n == Cardinality(Pending)
<1>a. PICK rows \in Rows(walk.page) :
        LET full == Cardinality(rows) = PerPage
        IN  /\ shown' = shown \cup rows
            /\ walk' = IF full /\ ~Reached(walk.page, walk.total)
                       THEN [walk EXCEPT !.pc = "count", !.page = @ + 1]
                       ELSE [walk EXCEPT !.pc = "done", !.full = full]
  BY DEF ReadRows
<1> DEFINE full == Cardinality(rows) = PerPage
           goes == full /\ ~Reached(walk.page, walk.total)
<1>0. /\ TypeOK /\ IsFiniteSet(Stamped) /\ WalkOK /\ walk.pc = "rows"
      /\ shown' = shown \cup rows
      /\ walk' = IF goes THEN [walk EXCEPT !.pc = "count", !.page = @ + 1]
                 ELSE [walk EXCEPT !.pc = "done", !.full = full]
      /\ UNCHANGED <<created, committed, decided, stayed, departed, late>>
  BY <1>a DEF ListingInv, ReadRows, Walking
<1>b. PICK A, B : /\ First(Pending, created, m, A)
                  /\ First(Pending, created, m + PerPage, B)
                  /\ A \in SUBSET B /\ rows = B \ A
  BY RowsBetween
<1>1. /\ walk.page \in Nat \ {0} /\ walk.total \in Nat
      /\ m \in Nat /\ Offset(walk.page + 1) = m + PerPage /\ walk.page * PerPage = m + PerPage
      /\ PerPage \in Nat
  BY <1>0, OffsetNext, PerPageAssumption DEF TypeOK
<1>2. /\ Timed(Pending, created) /\ Pending' = Pending /\ IsFiniteSet(Pending) /\ n \in Nat
      /\ \A d : Rank(d)' = Rank(d) /\ Tied(d)' = Tied(d)
      /\ \A d \in Pending : Rank(d) \in Nat
      /\ \A d \in Pending : ~Tied(d) => Alone(Pending, created, d)
  BY <1>0, PendingTimed, CountedFinite DEF Pending, Rank, Place, Above, Tied, Stamped
<1>3. /\ IF goes THEN walk'.pc = "count" /\ walk'.page = walk.page + 1
         ELSE walk'.pc = "done" /\ walk'.full = full
      /\ walk' \in [pc : {"idle", "count", "rows", "done"}, page : Nat \ {0}, total : Nat,
                    full : BOOLEAN]
  <2>1. walk \in [pc : {"idle", "count", "rows", "done"}, page : Nat \ {0}, total : Nat,
                  full : BOOLEAN]
    BY <1>0 DEF TypeOK
  <2>2. walk.page + 1 \in Nat \ {0} /\ full \in BOOLEAN
    BY <1>1
  <2> HIDE DEF full, goes
  <2> QED
    BY <1>0, <2>1, <2>2
<1>4. TypeOK' /\ IsFiniteSet(Stamped')
  <2>1. rows \subseteq committed
    BY <1>b DEF First, Pending
  <2> QED
    BY <1>0, <1>3, <2>1 DEF TypeOK, Stamped
<1>5. ASSUME NEW d \in Overlooked' PROVE d \in Overlooked /\ d \in Pending /\ d \notin rows
  BY <1>0, <1>2 DEF Overlooked, WalkOK
<1>6. ASSUME NEW d \in Overlooked' PROVE Rank(d) <= m \/ d \notin B
  <2>1. d \in Pending /\ d \notin rows /\ Alone(Pending, created, d)
    BY <1>2, <1>5 DEF Overlooked
  <2>2. d \in A => Rank(d) <= m
    BY <1>1, <1>2, <1>b, <2>1, FirstByRank DEF Rank
  <2> QED
    BY <1>b, <2>1, <2>2
<1>7. ASSUME goes PROVE ListingInv'
  <2>1. Behind' \in SUBSET Behind
    <3> SUFFICES ASSUME NEW d \in Behind' PROVE d \in Behind
      OBVIOUS
    <3>1. d \in Overlooked' /\ Rank(d) <= m + PerPage
      BY <1>1, <1>2, <1>3, <1>7 DEF Behind, Offset
    <3>2. d \in Pending /\ d \in Overlooked /\ Alone(Pending, created, d)
      BY <1>2, <1>5, <3>1 DEF Overlooked
    <3>3. d \in B
      BY <1>1, <1>2, <1>b, <3>1, <3>2, FirstByRank DEF Rank
    <3> QED
      BY <1>6, <3>1, <3>2, <3>3 DEF Behind
  <2>2. Cardinality(Behind') <= departed'
    <3>1. Cardinality(Behind') <= Cardinality(Behind) /\ IsFiniteSet(Behind')
      BY <1>0, <2>1, CountedFinite, FS_Subset
    <3> QED
      BY <1>0, <3>1, CountedFinite, FS_CardinalityType DEF WalkOK, TypeOK
  <2> QED
    BY <1>0, <1>2, <1>3, <1>4, <1>7, <2>2 DEF ListingInv, WalkOK, OverlookedAreDeparted
<1>8. ASSUME ~goes PROVE ListingInv'
  <2> DEFINE beyond == Pending \ B
  <2>1. Overlooked' \in SUBSET (Behind \cup beyond)
    BY <1>5, <1>6 DEF Behind
  <2>2. /\ IsFiniteSet(A) /\ IsFiniteSet(B) /\ IsFiniteSet(beyond)
        /\ Cardinality(A) \in Nat /\ Cardinality(B) \in Nat /\ Cardinality(beyond) \in Nat
        /\ A \in SUBSET B /\ B \in SUBSET Pending
    BY <1>2, <1>b, FS_Subset, FS_CardinalityType DEF First
  <2>3. /\ Cardinality(beyond) = n - Cardinality(B)
        /\ Cardinality(rows) = Cardinality(B) - Cardinality(A)
    <3>1. Pending \cap B = B /\ B \cap A = A
      BY <2>2
    <3> QED
      BY <1>2, <1>b, <2>2, <3>1, FS_Difference
  <2>4. /\ Cardinality(A) = IF m < n THEN m ELSE n
        /\ Cardinality(B) = IF m + PerPage < n THEN m + PerPage ELSE n
    BY <1>b DEF First
  <2>5. Cardinality(beyond) <= IF full THEN late ELSE 0
    <3> HIDE DEF m, n, beyond
    <3>1. CASE n <= m + PerPage
      BY <1>0, <1>1, <1>2, <2>3, <2>4, <3>1 DEF TypeOK
    <3>2. CASE n > m + PerPage
      <4>1. full
        BY <1>1, <1>2, <2>3, <2>4, <3>2
      <4>2. walk.total <= m + PerPage /\ n <= walk.total + late /\ late \in Nat
        BY <1>0, <1>1, <1>8, <4>1 DEF Reached, WalkOK, TypeOK, n
      <4> QED
        BY <1>1, <1>2, <2>3, <2>4, <3>2, <4>1, <4>2
    <3> QED
      BY <1>1, <1>2, <3>1, <3>2
  <2>6. Cardinality(Overlooked') <= departed + (IF full THEN late ELSE 0)
    <3> HIDE DEF beyond, full
    <3>1. /\ IsFiniteSet(Behind) /\ Cardinality(Behind) \in Nat /\ Cardinality(Behind) <= departed
          /\ departed \in Nat /\ late \in Nat
      BY <1>0, CountedFinite DEF WalkOK, TypeOK
    <3>2. /\ IsFiniteSet(Behind \cup beyond)
          /\ Cardinality(Behind \cup beyond) =
                Cardinality(Behind) + Cardinality(beyond) - Cardinality(Behind \cap beyond)
      BY <2>2, <3>1, FS_Union
    <3>3. Cardinality(Behind \cap beyond) \in Nat
      <4>1. (Behind \cap beyond) \in SUBSET beyond
        OBVIOUS
      <4> QED
        BY <2>2, <4>1, FS_Subset, FS_CardinalityType
    <3>4. /\ Cardinality(Overlooked') <= Cardinality(Behind \cup beyond)
          /\ Cardinality(Overlooked') \in Nat
      BY <2>1, <3>2, FS_Subset, FS_CardinalityType
    <3> QED
      BY <2>2, <2>5, <3>1, <3>2, <3>3, <3>4
  <2>7. OverlookedAreDeparted'
    BY <1>0, <1>3, <1>8, <2>6 DEF OverlookedAreDeparted
  <2>8. ~Walking'
    BY <1>3, <1>8 DEF Walking
  <2> QED
    BY <1>4, <2>7, <2>8 DEF ListingInv
<1> QED
  BY <1>7, <1>8

-----------------------------------------------------------------------------
(* Theorems.                                                               *)

LEMMA ListingInit == Init => ListingInv
<1> SUFFICES ASSUME Init PROVE ListingInv
  OBVIOUS
<1>1. Stamped = {} /\ IsFiniteSet(Stamped)
  BY FS_EmptySet DEF Init, Stamped
<1>2. TypeOK
  BY <1>1 DEF Init, TypeOK, Stamped
<1> QED
  BY <1>1, <1>2 DEF Init, ListingInv, Walking, OverlookedAreDeparted

LEMMA ListingStep == ListingInv /\ [Next]_vars => ListingInv'
<1> SUFFICES ASSUME ListingInv, [Next]_vars PROVE ListingInv'
  OBVIOUS
<1>1. CASE UNCHANGED vars
  BY <1>1 DEF ListingInv, TypeOK, Stamped, Walking, WalkOK, Behind, Pending, Rank, Place, Above,
              Overlooked, Tied, Offset, OverlookedAreDeparted, vars, walkVars
<1> QED
  BY <1>1, StampKeeps, InsertKeeps, DecideKeeps, StartKeeps, CountKeeps, ReadKeeps DEF Next

LEMMA ListingInvariant == Spec => []ListingInv
  BY ListingInit, ListingStep, PTL DEF Spec

\* Times, sets and counters of a listing are typed (AuditEntry.created_at,
\* list_audit_entries).
THEOREM ListingTyped == Spec => []TypeOK
<1>1. ListingInv => TypeOK
  BY DEF ListingInv
<1> QED
  BY <1>1, ListingInvariant, PTL

\* A walk overlooks no more of the entries that were pending all along than were
\* decided meanwhile or, if it relied on `total`, committed after the last count
\* (the two queries of list_audit_entries), apart from entries that share their created_at.
THEOREM OverlookedFew == Spec => []OverlookedAreDeparted
<1>1. ListingInv => OverlookedAreDeparted
  BY DEF ListingInv
<1> QED
  BY <1>1, ListingInvariant, PTL

=============================================================================
