--------------------------- MODULE ServiceProofs ---------------------------
(***************************************************************************)
(* Theorems about the registry checkout of Service, for any number of      *)
(* admins, servers and commits.  They rest on what git's lock gives: one   *)
(* writer at a time, which goes forward, and one clone at a time.          *)
(***************************************************************************)
EXTENDS Service, TLAPS

\* A sync that writes holds the lock and moves the files forward.
WriterOK(s) ==
    At(s, "write") =>
        /\ locked
        /\ head <= syncs[s].target
        /\ \A f \in Servers : files[f] <= syncs[s].target

\* A clone in progress is in an empty directory.
ClonerOK(s) == At(s, "cloning") => repo /\ head = 0 /\ ~locked

\* What a pull merges into has a commit.
MergerOK(s) == At(s, "merge") => head > 0

OneAt(pc) == \A s, t \in Syncers : At(s, pc) /\ At(t, pc) => s = t

CheckoutInv ==
    /\ TypeOK
    /\ \A s \in Syncers : WriterOK(s) /\ ClonerOK(s) /\ MergerOK(s)
    /\ OneAt("write") /\ OneAt("cloning")
    /\ ~repo => head = 0 /\ ~locked
    /\ CheckoutIsWhole

-----------------------------------------------------------------------------

\* What a sync carries is told apart by `pc`.
LEMMA TargetTyped ==
  ASSUME TypeOK, NEW s \in Syncers, At(s, "merge") \/ At(s, "write")
  PROVE  /\ syncs[s] \in [pc : {"merge", "write"}, target : Commits]
         /\ syncs[s].target \in Commits
<1>1. syncs[s] \in Syncs /\ syncs[s].pc \in {"merge", "write"}
  BY DEF TypeOK, At
<1>2. syncs[s] \in [pc : {"merge", "write"}, target : Commits]
  BY <1>1 DEF Syncs
<1>3. \A x \in [pc : {"merge", "write"}, target : Commits] : x.target \in Commits
  OBVIOUS
<1> QED
  BY <1>2, <1>3

LEMMA InitInv == Init => CheckoutInv
<1> SUFFICES ASSUME Init PROVE CheckoutInv
  OBVIOUS
<1>1. syncs \in [Syncers -> Syncs] /\ \A s \in Syncers : At(s, "idle")
  BY DEF Init, Idle, Syncs, At
<1>2. /\ 1 \in Commits /\ 0 \in 0 .. MaxVersion
      /\ NoFiles \in [Servers -> 0 .. MaxVersion]
  BY VersionAssumption DEF Commits, NoFiles
<1>3. TypeOK
  BY <1>1, <1>2 DEF Init, TypeOK
<1>4. \A s \in Syncers : WriterOK(s) /\ ClonerOK(s) /\ MergerOK(s)
  BY <1>1 DEF WriterOK, ClonerOK, MergerOK, At
<1>5. OneAt("write") /\ OneAt("cloning")
  BY <1>1 DEF OneAt, At
<1>6. ~locked /\ head = 0 /\ CheckoutIsWhole
  BY DEF Init, CheckoutIsWhole, NoFiles
<1> QED
  BY <1>3, <1>4, <1>5, <1>6 DEF CheckoutInv

\* A sync that goes on to a place without a target, and changes nothing else,
\* keeps the invariant.
LEMMA MoveKeeps ==
  ASSUME CheckoutInv, NEW s \in Syncers, NEW call \in Syncs,
         call.pc \notin {"write", "cloning"}, call.pc = "merge" => head > 0,
         Goto(s, call), UNCHANGED <<upstream, checkout>>,
         phase' \in {"down", "tables", "schema", "serving"},
         tables' \in BOOLEAN, schema' \in BOOLEAN
  PROVE  CheckoutInv'
<1>0. syncs \in [Syncers -> Syncs]
  BY DEF CheckoutInv, TypeOK
<1>1. /\ syncs' \in [Syncers -> Syncs]
      /\ syncs'[s] = call
      /\ \A q \in Syncers \ {s} : syncs'[q] = syncs[q]
  BY <1>0 DEF Goto
<1>2. TypeOK'
  BY <1>1 DEF CheckoutInv, TypeOK, checkout
<1>3. \A q \in Syncers : At(q, "write")' \/ At(q, "cloning")' => syncs'[q] = syncs[q]
  BY <1>1 DEF At
<1>4. ASSUME NEW q \in Syncers PROVE WriterOK(q)' /\ ClonerOK(q)' /\ MergerOK(q)'
  BY <1>1, <1>3 DEF CheckoutInv, WriterOK, ClonerOK, MergerOK, At, checkout
<1>5. OneAt("write")' /\ OneAt("cloning")'
  BY <1>3 DEF CheckoutInv, OneAt, At
<1> QED
  BY <1>2, <1>4, <1>5 DEF CheckoutInv, CheckoutIsWhole, checkout

\* So does a step that moves no sync and leaves the checkout.
LEMMA StillKeeps ==
  ASSUME CheckoutInv, UNCHANGED <<syncs, checkout>>,
         phase' \in {"down", "tables", "schema", "serving"},
         tables' \in BOOLEAN, schema' \in BOOLEAN, upstream' \in Commits
  PROVE  CheckoutInv'
  BY DEF CheckoutInv, TypeOK, WriterOK, ClonerOK, MergerOK, OneAt, At, CheckoutIsWhole, checkout

LEMMA Places ==
  \A pc \in {"idle", "choose", "clone", "cloning", "pull", "parse"} : [pc |-> pc] \in Syncs
  BY DEF Syncs

LEMMA NextInv ==
  ASSUME CheckoutInv, [Next]_vars
  PROVE  CheckoutInv'
<1>0. TypeOK /\ syncs \in [Syncers -> Syncs] /\ files \in [Servers -> 0 .. MaxVersion]
  BY DEF CheckoutInv, TypeOK
<1>1. CASE UNCHANGED vars
  BY <1>0, <1>1, StillKeeps DEF vars, process, TypeOK
<1>2. CASE Boot \/ InitDb \/ InitDbFails
  BY <1>0, <1>2, StillKeeps DEF Boot, InitDb, InitDbFails, TypeOK
<1>3. CASE Publish
  BY <1>0, <1>3, StillKeeps, VersionAssumption DEF Publish, process, TypeOK, Commits
<1>4. CASE InitSchema \/ InitSchemaFails
  <2>1. /\ Goto("periodic", [pc |-> "choose"]) /\ UNCHANGED <<tables, upstream, checkout>>
        /\ phase' = "serving" /\ schema' \in BOOLEAN
    BY <1>0, <1>4 DEF InitSchema, InitSchemaFails, Serve, Enter, TypeOK
  <2>2. "periodic" \in Syncers
    BY DEF Syncers
  <2> QED
    BY <1>0, <2>1, <2>2, Places, MoveKeeps DEF TypeOK
<1>5. CASE Crash
  <2>1. \A s \in Syncers : syncs'[s] = Idle
    BY <1>5 DEF Crash
  <2>2. syncs' \in [Syncers -> Syncs]
    BY <1>5, Places DEF Crash, Idle
  <2> QED
    BY <1>0, <1>5, <2>1, <2>2
    DEF Crash, CheckoutInv, TypeOK, WriterOK, ClonerOK, MergerOK, OneAt, At, CheckoutIsWhole,
        Idle, checkout
<1>6. ASSUME NEW s \in Syncers,
             \/ BeginSync(s) \/ Choose(s) \/ NoGit(s) \/ UpToDate(s) \/ GitRefused(s)
             \/ Timeout(s) \/ Parse(s)
      PROVE  CheckoutInv'
  <2>1. \E pc \in {"idle", "choose", "clone", "pull", "parse"} : Goto(s, [pc |-> pc])
    BY <1>6 DEF BeginSync, Choose, NoGit, UpToDate, GitRefused, Timeout, Parse, Enter, Idle
  <2>2. UNCHANGED <<process, upstream, checkout>>
    BY <1>6 DEF BeginSync, Choose, NoGit, UpToDate, GitRefused, Timeout, Parse
  <2> QED
    BY <1>0, <2>1, <2>2, Places, MoveKeeps DEF TypeOK, process
<1>7. ASSUME NEW s \in Syncers, Fetched(s)
      PROVE  CheckoutInv'
  <2>1. [pc |-> "merge", target |-> upstream] \in Syncs
    BY <1>0 DEF TypeOK, Syncs
  <2> QED
    BY <1>0, <1>7, <2>1, MoveKeeps DEF Fetched, TypeOK, process
<1>8. ASSUME NEW s \in Syncers, StartClone(s)
      PROVE  CheckoutInv'
  <2>1. /\ syncs' \in [Syncers -> Syncs]
        /\ syncs'[s] = [pc |-> "cloning"]
        /\ \A q \in Syncers \ {s} : syncs'[q] = syncs[q]
    BY <1>0, <1>8, Places DEF StartClone, Enter, Goto
  <2>2. \A q \in Syncers : ~At(q, "cloning") /\ ~At(q, "write")
    BY <1>8 DEF StartClone, CheckoutInv, ClonerOK, WriterOK
  <2> QED
    BY <1>0, <1>8, <2>1, <2>2
    DEF StartClone, CheckoutInv, TypeOK, WriterOK, ClonerOK, MergerOK, OneAt, At, CheckoutIsWhole,
        process
<1>9. ASSUME NEW s \in Syncers, Cloned(s)
      PROVE  CheckoutInv'
  <2>1. [pc |-> "write", target |-> upstream] \in Syncs
    BY <1>0 DEF TypeOK, Syncs
  <2>2. /\ syncs' \in [Syncers -> Syncs]
        /\ syncs'[s] = [pc |-> "write", target |-> upstream]
        /\ \A q \in Syncers \ {s} : syncs'[q] = syncs[q]
    BY <1>0, <1>9, <2>1 DEF Cloned, Goto
  <2>3. /\ \A q \in Syncers \ {s} : ~At(q, "cloning") /\ ~At(q, "write")
        /\ \A f \in Servers : files[f] = 0
        /\ repo
    BY <1>9 DEF Cloned, CheckoutInv, ClonerOK, WriterOK, OneAt, CheckoutIsWhole
  <2>4. upstream \in 1 .. MaxVersion
    BY <1>0 DEF TypeOK, Commits
  <2> QED
    BY <1>0, <1>9, <2>2, <2>3, <2>4, VersionAssumption
    DEF Cloned, CheckoutInv, TypeOK, WriterOK, ClonerOK, MergerOK, OneAt, At, CheckoutIsWhole,
        process
<1>10. ASSUME NEW s \in Syncers, CloneFails(s)
       PROVE  CheckoutInv'
  <2>1. /\ syncs' \in [Syncers -> Syncs]
        /\ syncs'[s] = [pc |-> "parse"]
        /\ \A q \in Syncers \ {s} : syncs'[q] = syncs[q]
    BY <1>0, <1>10, Places DEF CloneFails, Enter, Goto
  <2>2. /\ \A q \in Syncers \ {s} : ~At(q, "cloning") /\ ~At(q, "write")
        /\ head = 0 /\ ~locked
    BY <1>10 DEF CloneFails, CheckoutInv, ClonerOK, WriterOK, OneAt
  <2>3. \A q \in Syncers : ~At(q, "cloning")' /\ ~At(q, "write")'
    BY <2>1, <2>2 DEF At
  <2>4. \A q \in Syncers : MergerOK(q)'
    BY <1>10, <2>1 DEF CloneFails, CheckoutInv, MergerOK, At
  <2>5. TypeOK' /\ CheckoutIsWhole'
    BY <1>10, <2>1 DEF CloneFails, CheckoutInv, TypeOK, CheckoutIsWhole, process
  <2> QED
    BY <1>10, <2>2, <2>3, <2>4, <2>5
    DEF CloneFails, CheckoutInv, WriterOK, ClonerOK, OneAt
<1>11. ASSUME NEW s \in Syncers, StartMerge(s)
       PROVE  CheckoutInv'
  <2>1. syncs[s].target \in Commits /\ [syncs[s] EXCEPT !.pc = "write"] \in Syncs
    BY <1>0, <1>11, TargetTyped DEF StartMerge, Syncs
  <2>2. /\ syncs' \in [Syncers -> Syncs]
        /\ syncs'[s].pc = "write" /\ syncs'[s].target = syncs[s].target
        /\ \A q \in Syncers \ {s} : syncs'[q] = syncs[q]
    BY <1>0, <1>11, <2>1, TargetTyped DEF StartMerge, Goto
  <2>3. /\ \A q \in Syncers \ {s} : ~At(q, "cloning") /\ ~At(q, "write")
        /\ \A f \in Servers : files[f] = head
        /\ repo /\ head < syncs[s].target
    <3>1. head \in 0 .. MaxVersion /\ head > 0 /\ syncs[s].target \in 1 .. MaxVersion
      BY <1>0, <1>11, <2>1 DEF StartMerge, CheckoutInv, MergerOK, TypeOK, Commits
    <3>2. \A q \in Syncers : ~At(q, "cloning") /\ ~At(q, "write")
      BY <1>11, <3>1, VersionAssumption DEF StartMerge, CheckoutInv, ClonerOK, WriterOK
    <3>3. head < syncs[s].target
      BY <1>11, <3>1, VersionAssumption DEF StartMerge
    <3> QED
      BY <1>11, <3>1, <3>2, <3>3, VersionAssumption
      DEF StartMerge, CheckoutInv, CheckoutIsWhole
  <2> QED
    BY <1>0, <1>11, <2>1, <2>2, <2>3, VersionAssumption
    DEF StartMerge, CheckoutInv, TypeOK, WriterOK, ClonerOK, MergerOK, OneAt, At, CheckoutIsWhole,
        process, Commits
<1>12. ASSUME NEW s \in Syncers, NEW f \in Servers, WriteFile(s, f)
       PROVE  CheckoutInv'
  <2>1. syncs[s].target \in 1 .. MaxVersion /\ locked
    BY <1>0, <1>12, TargetTyped DEF WriteFile, CheckoutInv, WriterOK, Commits
  <2>2. files' \in [Servers -> 0 .. MaxVersion]
    BY <1>0, <1>12, <2>1, VersionAssumption DEF WriteFile
  <2>3. ASSUME NEW q \in Syncers PROVE WriterOK(q)'
    <3>1. At(q, "write") => q = s
      BY <1>12 DEF WriteFile, CheckoutInv, OneAt
    <3> QED
      BY <1>0, <1>12, <2>1, <3>1, VersionAssumption
      DEF WriteFile, CheckoutInv, WriterOK, At
  <2> QED
    BY <1>12, <2>1, <2>2, <2>3
    DEF WriteFile, CheckoutInv, TypeOK, ClonerOK, MergerOK, OneAt, At, CheckoutIsWhole, process
<1>13. ASSUME NEW s \in Syncers, GitDone(s)
       PROVE  CheckoutInv'
  <2>1. /\ syncs' \in [Syncers -> Syncs]
        /\ syncs'[s] = [pc |-> "parse"]
        /\ \A q \in Syncers \ {s} : syncs'[q] = syncs[q]
    BY <1>0, <1>13, Places DEF GitDone, Enter, Goto
  <2>2. /\ \A q \in Syncers \ {s} : ~At(q, "cloning") /\ ~At(q, "write")
        /\ repo /\ syncs[s].target \in 1 .. MaxVersion
    BY <1>0, <1>13, TargetTyped DEF GitDone, CheckoutInv, ClonerOK, WriterOK, OneAt, Commits
  <2>3. \A q \in Syncers : ~At(q, "cloning")' /\ ~At(q, "write")'
    BY <2>1, <2>2 DEF At
  <2>4. head' \in 1 .. MaxVersion /\ ~locked' /\ repo' /\ \A f \in Servers : files'[f] = head'
    BY <1>13, <2>2 DEF GitDone
  <2>5. \A q \in Syncers : MergerOK(q)'
    BY <2>4, VersionAssumption DEF MergerOK
  <2>6. TypeOK'
    <3>1. head' \in 0 .. MaxVersion
      BY <2>4, VersionAssumption
    <3>2. locked' \in BOOLEAN
      BY <1>13 DEF GitDone
    <3> QED
      BY <1>0, <1>13, <2>1, <3>1, <3>2 DEF GitDone, TypeOK, process
  <2>7. CheckoutIsWhole'
    BY <2>4 DEF CheckoutIsWhole
  <2> QED
    BY <2>3, <2>4, <2>5, <2>6, <2>7 DEF CheckoutInv, WriterOK, ClonerOK, OneAt
<1> QED
  BY <1>1, <1>2, <1>3, <1>4, <1>5, <1>6, <1>7, <1>8, <1>9, <1>10, <1>11, <1>12, <1>13
  DEF Next, Start, Continue

LEMMA CheckoutInvariant == Spec => []CheckoutInv
  BY InitInv, NextInv, PTL DEF Spec

-----------------------------------------------------------------------------

\* Start-up and registry sync are typed for all constants.
THEOREM ServiceTyped == Spec => []TypeOK
<1>1. CheckoutInv => TypeOK
  BY DEF CheckoutInv
<1> QED
  BY <1>1, CheckoutInvariant, PTL

\* Unless the lock is held or was left behind, the files are those of one commit,
\* for any number of overlapping, failing and killed syncs (sync_registry).
THEOREM CheckoutWhole == Spec => []CheckoutIsWhole
<1>1. CheckoutInv => CheckoutIsWhole
  BY DEF CheckoutInv
<1> QED
  BY <1>1, CheckoutInvariant, PTL

\* No sync takes a file away or puts an older one in its place (sync_registry).
THEOREM CacheOnlyAdvances == Spec => CacheAdvances
<1>1. ASSUME CheckoutInv, Next, NEW f \in Servers
      PROVE  files'[f] >= files[f]
  <2>1. files \in [Servers -> 0 .. MaxVersion]
    BY <1>1 DEF CheckoutInv, TypeOK
  <2>2. ASSUME NEW s \in Syncers, NEW g \in Servers, WriteFile(s, g)
        PROVE  files'[f] >= files[f]
    <3>1. files[g] <= syncs[s].target /\ syncs[s].target \in 1 .. MaxVersion
      BY <1>1, <2>2, TargetTyped DEF WriteFile, CheckoutInv, WriterOK, Commits
    <3> QED
      BY <2>1, <2>2, <3>1, VersionAssumption DEF WriteFile
  <2>3. ASSUME files' = files
        PROVE  files'[f] >= files[f]
    BY <2>1, <2>3, VersionAssumption
  <2> QED
    BY <1>1, <2>2, <2>3
    DEF Next, Start, Boot, InitDb, InitDbFails, InitSchema, InitSchemaFails, Serve,
        Crash, Publish, BeginSync, Continue, Choose, NoGit, StartClone, Cloned, CloneFails,
        Fetched, StartMerge, UpToDate, GitDone, GitRefused, Timeout, Parse, checkout
<1>2. CheckoutInv /\ [Next]_vars => [\A f \in Servers : files'[f] >= files[f]]_vars
  BY <1>1
<1> QED
  BY <1>2, CheckoutInvariant, PTL DEF Spec, CacheAdvances

=============================================================================
