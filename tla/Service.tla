------------------------------ MODULE Service ------------------------------
(***************************************************************************)
(* The process around the hub: its start, and the registry of servers,     *)
(* which is a git checkout in a persistent volume.                         *)
(*                                                                         *)
(* sync_registry runs in a thread, for the periodic task and for every     *)
(* admin who asks for it, so several of them run git in one directory.     *)
(* What git does there is external: it takes index.lock while it writes    *)
(* the work tree, it refuses a pull when the lock is taken or nothing is   *)
(* checked out, and killed it leaves behind what it has written.           *)
(***************************************************************************)
EXTENDS Integers

CONSTANTS
    Admins,          \* concurrent POST /registry/sync
    Servers,         \* the files of the registry, one per server
    MaxVersion,      \* bounds the commits of the registry
    AdminKeyLength   \* len(settings.libris_admin_key)

ASSUME VersionAssumption == MaxVersion \in Nat \ {0}

VARIABLES
    phase,      \* how far the process has started
    tables,     \* the tables exist in PostgreSQL
    schema,     \* the constraint and the indexes exist in Neo4j
    upstream,   \* latest commit of the registry
    repo,       \* .git exists
    head,       \* the commit HEAD names, 0 when it names none
    locked,     \* index.lock exists
    files,      \* server -> the commit its file in the work tree is from, 0: no file
    syncs       \* where each sync stands

process == <<phase, tables, schema>>
checkout == <<repo, head, locked, files>>
vars == <<process, upstream, checkout, syncs>>

-----------------------------------------------------------------------------

Syncers == Admins \cup {"periodic"}
Commits == 1 .. MaxVersion
Idle == [pc |-> "idle"]
Syncs == [pc : {"idle", "choose", "clone", "cloning", "pull", "parse"}]
             \cup [pc : {"merge", "write"}, target : Commits]

At(s, pc) == syncs[s].pc = pc
Goto(s, sync) == syncs' = [syncs EXCEPT ![s] = sync]
Enter(s, pc) == Goto(s, [pc |-> pc])

NoFiles == [f \in Servers |-> 0]

Init ==
    /\ phase = "down"
    /\ tables = FALSE /\ schema = FALSE
    /\ upstream = 1
    /\ repo = FALSE /\ head = 0 /\ locked = FALSE /\ files = NoFiles
    /\ syncs = [s \in Syncers |-> Idle]

-----------------------------------------------------------------------------
(* lifespan.  The container is restarted whenever the process ends.        *)

MinAdminKeyLen == 32

\* assert_secrets_configured, which raises before anything is touched.
Boot ==
    /\ phase = "down"
    /\ AdminKeyLength >= MinAdminKeyLen
    /\ phase' = "tables"
    /\ UNCHANGED <<tables, schema, upstream, checkout, syncs>>

InitDb ==
    /\ phase = "tables"
    /\ tables' = TRUE
    /\ phase' = "schema"
    /\ UNCHANGED <<schema, upstream, checkout, syncs>>

InitDbFails ==
    /\ phase = "tables"
    /\ phase' = "down"
    /\ UNCHANGED <<tables, schema, upstream, checkout, syncs>>

\* create_task and yield: the periodic task starts with a sync.
Serve ==
    /\ phase' = "serving"
    /\ Enter("periodic", "choose")
    /\ UNCHANGED <<tables, upstream, checkout>>

\* Mutant: the exception ends the process.
InitSchemaRequired ==
    /\ phase = "schema"
    /\ phase' = "down"
    /\ UNCHANGED <<tables, schema, upstream, checkout, syncs>>

\* init_schema.  An exception is logged, and the hub serves without the
\* schema, or with the part of it that came before the exception.
InitSchema == phase = "schema" /\ schema' = TRUE /\ Serve
InitSchemaFails == phase = "schema" /\ schema' \in {schema, TRUE} /\ Serve

\* The process ends, and with it every git it has started.  Before it serves,
\* InitDbFails stands for this: there is nothing to leave half done.
Crash ==
    /\ phase = "serving"
    /\ phase' = "down"
    /\ syncs' = [s \in Syncers |-> Idle]
    /\ UNCHANGED <<tables, schema, upstream, checkout>>

-----------------------------------------------------------------------------
(* sync_registry, from the periodic task after its sleep or for an admin.  *)

BeginSync(s) ==
    /\ phase = "serving"
    /\ At(s, "idle")
    /\ Enter(s, "choose")
    /\ UNCHANGED <<process, upstream, checkout>>

\* Mutant: what is there is not pulled.
ChooseCached(s) ==
    /\ At(s, "choose")
    /\ Enter(s, IF repo THEN "parse" ELSE "clone")
    /\ UNCHANGED <<process, upstream, checkout>>

\* if (CACHE_DIR / ".git").exists()
Choose(s) ==
    /\ At(s, "choose")
    /\ Enter(s, IF repo THEN "pull" ELSE "clone")
    /\ UNCHANGED <<process, upstream, checkout>>

\* No git runs: no URL is configured, and the sync returns an empty list, or the
\* directory cannot be made or git not be started, and the exception leaves it.
NoGit(s) ==
    /\ At(s, "choose")
    /\ Goto(s, Idle)
    /\ UNCHANGED <<process, upstream, checkout>>

\* git clone makes .git, fetches, names HEAD, and writes the work tree.
StartClone(s) ==
    /\ At(s, "clone")
    /\ ~repo
    /\ repo' = TRUE
    /\ Enter(s, "cloning")
    /\ UNCHANGED <<process, upstream, head, locked, files>>

Cloned(s) ==
    /\ At(s, "cloning")
    /\ head' = upstream /\ locked' = TRUE
    /\ Goto(s, [pc |-> "write", target |-> upstream])
    /\ UNCHANGED <<process, upstream, repo, files>>

\* A clone that fails by itself removes what it made.
CloneFails(s) ==
    /\ At(s, "cloning")
    /\ repo' = FALSE
    /\ Enter(s, "parse")
    /\ UNCHANGED <<process, upstream, head, locked, files>>

\* git pull --ff-only: fetch, then fast-forward.
Fetched(s) ==
    /\ At(s, "pull")
    /\ head > 0
    /\ Goto(s, [pc |-> "merge", target |-> upstream])
    /\ UNCHANGED <<process, upstream, checkout>>

StartMerge(s) ==
    /\ At(s, "merge")
    /\ ~locked /\ syncs[s].target > head
    /\ locked' = TRUE
    /\ Goto(s, [syncs[s] EXCEPT !.pc = "write"])
    /\ UNCHANGED <<process, upstream, repo, head, files>>

UpToDate(s) ==
    /\ At(s, "merge")
    /\ syncs[s].target <= head
    /\ Enter(s, "parse")
    /\ UNCHANGED <<process, upstream, checkout>>

WriteFile(s, f) ==
    /\ At(s, "write")
    /\ files[f] # syncs[s].target
    /\ files' = [files EXCEPT ![f] = syncs[s].target]
    /\ UNCHANGED <<process, upstream, repo, head, locked, syncs>>

\* HEAD moves and the lock goes in one step.
GitDone(s) ==
    /\ At(s, "write")
    /\ \A f \in Servers : files[f] = syncs[s].target
    /\ head' = syncs[s].target /\ locked' = FALSE
    /\ Enter(s, "parse")
    /\ UNCHANGED <<process, upstream, repo, files>>

\* Mutant: a checkout that cannot be pulled is removed, to be cloned again.
GitRefusedRemoves(s) ==
    /\ \/ At(s, "clone") /\ repo
       \/ At(s, "pull")
       \/ At(s, "merge") /\ locked /\ syncs[s].target > head
    /\ repo' = FALSE /\ head' = 0 /\ locked' = FALSE /\ files' = NoFiles
    /\ Enter(s, "parse")
    /\ UNCHANGED <<process, upstream>>

\* CalledProcessError: no network, nothing to pull into, a lock, or a
\* directory that is not empty.  The handler falls through to the cache.
GitRefused(s) ==
    /\ \/ At(s, "clone") /\ repo
       \/ At(s, "pull")
       \/ At(s, "merge") /\ locked /\ syncs[s].target > head
    /\ Enter(s, "parse")
    /\ UNCHANGED <<process, upstream, checkout>>

GitRuns(s) == syncs[s].pc \in {"cloning", "pull", "merge", "write"}

\* Mutant: the periodic task handles a failing git only, and ends.
TimeoutEndsTask(s) ==
    /\ GitRuns(s)
    /\ IF s = "periodic" THEN Enter(s, "ended") ELSE Goto(s, Idle)
    /\ UNCHANGED <<process, upstream, checkout>>

\* Mutant: the lock a killed git left is removed.
TimeoutUnlocks(s) ==
    /\ GitRuns(s)
    /\ locked' = FALSE
    /\ Goto(s, Idle)
    /\ UNCHANGED <<process, upstream, repo, head, files>>

\* TimeoutExpired: git is killed where it stands, and the exception leaves
\* sync_registry.  The periodic task logs it and sleeps; an admin gets a 500.
Timeout(s) ==
    /\ GitRuns(s)
    /\ Goto(s, Idle)
    /\ UNCHANGED <<process, upstream, checkout>>

\* _parse_servers reads the work tree and the sync returns.
Parse(s) ==
    /\ At(s, "parse")
    /\ Goto(s, Idle)
    /\ UNCHANGED <<process, upstream, checkout>>

-----------------------------------------------------------------------------

\* Somebody else adds a commit to the registry.
Publish ==
    /\ upstream < MaxVersion
    /\ upstream' = upstream + 1
    /\ UNCHANGED <<process, checkout, syncs>>

Start == Boot \/ InitDb \/ InitDbFails \/ InitSchema \/ InitSchemaFails

Continue(s) ==
    \/ Choose(s) \/ NoGit(s)
    \/ StartClone(s) \/ Cloned(s) \/ CloneFails(s)
    \/ Fetched(s) \/ StartMerge(s) \/ UpToDate(s)
    \/ \E f \in Servers : WriteFile(s, f)
    \/ GitDone(s) \/ GitRefused(s) \/ Timeout(s)
    \/ Parse(s)

Next ==
    \/ Start \/ Crash \/ Publish
    \/ \E s \in Syncers : BeginSync(s) \/ Continue(s)

\* The container is restarted, PostgreSQL does not refuse every start, the
\* sleep of the periodic task ends, a thread goes on, a URL is configured and git
\* can be started now and then, and the registry is not out of reach each time
\* git asks for it.  Nothing is assumed of Neo4j.
Fairness ==
    /\ WF_vars(Start) /\ SF_vars(InitDb)
    /\ WF_vars(BeginSync("periodic"))
    /\ \A s \in Syncers :
           /\ WF_vars(Continue(s))
           /\ SF_vars(Choose(s))
           /\ SF_vars(Cloned(s)) /\ SF_vars(Fetched(s)) /\ SF_vars(StartMerge(s))

Spec == Init /\ [][Next]_vars /\ Fairness

-----------------------------------------------------------------------------
(* Properties.                                                             *)

\* The types of the variables of start-up and registry sync.
TypeOK ==
    /\ phase \in {"down", "tables", "schema", "serving"}
    /\ tables \in BOOLEAN /\ schema \in BOOLEAN
    /\ upstream \in Commits
    /\ repo \in BOOLEAN /\ locked \in BOOLEAN
    /\ head \in 0 .. MaxVersion
    /\ files \in [Servers -> 0 .. MaxVersion]
    /\ syncs \in [Syncers -> Syncs]

\* What a kill leaves and no later sync repairs: a .git without a commit,
\* or a lock nobody holds.
Stuck ==
    \/ repo /\ head = 0 /\ \A s \in Syncers : ~At(s, "cloning")
    \/ locked /\ \A s \in Syncers : ~At(s, "write")

\* Unless a git holds the lock, or left it when it was killed, the files are
\* those of the one commit HEAD names, however syncs of the periodic task and of
\* admins overlapped and failed before (sync_registry).
CheckoutIsWhole == ~locked => \A f \in Servers : files[f] = head

\* No sync, whatever it fails with, takes a file away or puts an older one
\* in its place: "use whatever is cached" (sync_registry).
CacheAdvances == [][\A f \in Servers : files'[f] >= files[f]]_vars

\* The periodic task does not end while the hub serves: it asks for the
\* registry again and again, whatever sync_registry raises
\* (_periodic_registry_sync).
PeriodicGoesOn == []<>(phase = "serving" => At("periodic", "choose"))

\* While the hub serves and the checkout is not stuck, the files come to be
\* those of the latest commit (sync_registry, _periodic_registry_sync).
CatchesUp ==
    <>[](phase = "serving" /\ ~Stuck)
        => <>[](\A f \in Servers : files[f] = upstream)

\* However often the process ends, it comes to serve again, although Neo4j
\* may fail at every start (the try around init_schema in lifespan).
StartsWithoutGraph == []<>(phase = "serving")

=============================================================================
