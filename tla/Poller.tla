------------------------------- MODULE Poller -------------------------------
(***************************************************************************)
(* The sweeps of internal/poller: pollWorkflowRuns, pollHistory and        *)
(* pollStaleRuns, with the calls of the adapter they make.  A sweep is not *)
(* atomic: it makes one REST call or one SQL statement per step, and       *)
(* deliveries, GitHub and other sweeps move between any two steps.         *)
(*                                                                         *)
(* Sweepers run sweeps concurrently: Loop is the goroutine of Run, each    *)
(* other one a request that is executing RefreshNow (nothing in the        *)
(* program keeps refreshes from overlapping).  A sweeper remembers the     *)
(* answers it has been given, which may be stale by the time it uses them. *)
(* A step that fails (a REST error, an SQL error, a rate-limited skip)     *)
(* does what the code does after logging the error.                        *)
(*                                                                         *)
(* Run and RefreshNow also call pollRunners, and pollWorkflowRuns ends     *)
(* with a queue-depth snapshot; both write other tables, which no action   *)
(* here reads.                                                             *)
(***************************************************************************)
EXTENDS RunStore, GitHubOrg, Sequences

CONSTANTS
  Loop,             \* the goroutine of Run
  Refreshers,       \* the requests that may be executing RefreshNow
  SpotCheckWindow,  \* the settings of those names, in ticks of the clock
  StaleRunReconcileAfter

ASSUME PollerAssumption ==
  /\ Loop \notin Refreshers
  /\ SpotCheckWindow \in Nat \ {0} /\ StaleRunReconcileAfter \in Nat \ {0}

Sweepers == {Loop} \cup Refreshers

VARIABLES
  bootstrapped,  \* shared by all sweepers: the one bootstrap has been claimed
  pc,            \* where each sweeper is: pollWorkflowRuns goes through
                 \*   [seeding, bootstrap,] (listing, listing2)*, closing
  agenda,        \* the sweeps it is to run, the current one first
  stamp,         \* since, then completedAt, of pollWorkflowRuns
  todo,          \* repositories still to visit
  zombies,       \* runs pollStaleRuns still has to fetch
  listing,       \* the repository whose in_progress list comes next
  queuedFound,   \* observations still to upsert: of the queued list,
  found,         \*   and of the other calls
  scanned,       \* scannedRepos
  activeRunIDs,
  closing        \* the runs CloseStaleActiveRuns has selected

pollerVars == <<bootstrapped, pc, agenda, stamp, todo, zombies, listing,
                queuedFound, found, scanned, activeRunIDs, closing>>

Now == LocalTime(clock)

Idle == [s \in Sweepers |-> "idle"]
Nothing == [s \in Sweepers |-> {}]
\* Run begins with the two sweeps, before its tickers.
AtStartup == [s \in Sweepers |-> IF s = Loop THEN <<"workflow", "stale">> ELSE <<>>]

PollerInit ==
  /\ bootstrapped = FALSE /\ pc = Idle /\ agenda = AtStartup
  /\ stamp = [s \in Sweepers |-> 0]
  /\ todo = Nothing /\ zombies = Nothing /\ listing = Nothing
  /\ queuedFound = Nothing /\ found = Nothing
  /\ scanned = Nothing /\ activeRunIDs = Nothing /\ closing = Nothing

\* The process stops or crashes and starts again on the same database: what
\* was under way is gone, and what it kept in memory is as at first.
PollerRestart ==
  /\ bootstrapped' = FALSE /\ pc' = Idle /\ agenda' = AtStartup
  /\ stamp' = [s \in Sweepers |-> 0]
  /\ todo' = Nothing /\ zombies' = Nothing /\ listing' = Nothing
  /\ queuedFound' = Nothing /\ found' = Nothing
  /\ scanned' = Nothing /\ activeRunIDs' = Nothing /\ closing' = Nothing

(***************************************************************************)
(* Which sweep comes next.                                                 *)
(***************************************************************************)
\* A ticker of Run fires when no sweep is under way.
TickerFires(sweep) ==
  /\ pc[Loop] = "idle" /\ agenda[Loop] = <<>>
  /\ agenda' = [agenda EXCEPT ![Loop] = <<sweep>>]
  /\ UNCHANGED <<bootstrapped, pc, stamp, todo, zombies, listing,
                 queuedFound, found, scanned, activeRunIDs, closing>>

RefreshNow(s) ==
  /\ s \in Refreshers /\ pc[s] = "idle" /\ agenda[s] = <<>>
  /\ agenda' = [agenda EXCEPT ![s] = <<"workflow", "history", "stale">>]
  /\ UNCHANGED <<bootstrapped, pc, stamp, todo, zombies, listing,
                 queuedFound, found, scanned, activeRunIDs, closing>>

Starting(s, sweep) == pc[s] = "idle" /\ agenda[s] # <<>> /\ Head(agenda[s]) = sweep

\* The sweep returns; its local variables are gone.
EndSweep(s) ==
  /\ pc' = [pc EXCEPT ![s] = "idle"]
  /\ agenda' = [agenda EXCEPT ![s] = Tail(@)]
  /\ stamp' = [stamp EXCEPT ![s] = 0]
  /\ scanned' = [scanned EXCEPT ![s] = {}]
  /\ activeRunIDs' = [activeRunIDs EXCEPT ![s] = {}]
  /\ closing' = [closing EXCEPT ![s] = {}]
  /\ UNCHANGED <<bootstrapped, todo, zombies, listing, queuedFound, found>>

\* Rate-limited, or the first query of the sweep fails.
SkipSweep(s) == pc[s] = "idle" /\ agenda[s] # <<>> /\ EndSweep(s)

(***************************************************************************)
(* pollWorkflowRuns.                                                       *)
(***************************************************************************)
\* Every sweep that finds nothing seeds the store.
WrongBootstraps(repos) == repos = {}

\* The bootstrap is claimed, by CompareAndSwap, before it is run.
Bootstraps(repos) == repos = {} /\ ~bootstrapped

StartWorkflowSweep(s) ==
  /\ Starting(s, "workflow")
  /\ LET since == Now - Duration(SpotCheckWindow)
         repos == RecentlyActiveRepos(since)
         bootstrap == Bootstraps(repos)
     IN  /\ stamp' = [stamp EXCEPT ![s] = since]
         /\ todo' = [todo EXCEPT ![s] = repos]
         /\ bootstrapped' = (bootstrapped \/ bootstrap)
         /\ pc' = [pc EXCEPT ![s] = IF bootstrap THEN "seeding" ELSE "listing"]
  /\ UNCHANGED <<agenda, zombies, listing, queuedFound, found, scanned,
                 activeRunIDs, closing>>

\* Nothing found so far is waiting to be upserted.
AllStored(s) == queuedFound[s] = {} /\ found[s] = {}

RunsIn(obs) == {o.run : o \in obs}

\* ListActiveWorkflowRuns asks for the queued runs first ...
ListQueued(s, p) ==
  /\ pc[s] = "listing" /\ AllStored(s) /\ p \in todo[s]
  /\ pc' = [pc EXCEPT ![s] = "listing2"]
  /\ todo' = [todo EXCEPT ![s] = @ \ {p}]
  /\ listing' = [listing EXCEPT ![s] = {p}]
  /\ queuedFound' = [queuedFound EXCEPT ![s] = Listed(p, "queued")]
  /\ UNCHANGED <<bootstrapped, agenda, stamp, zombies, found, scanned,
                 activeRunIDs, closing>>

\* ... then for those in progress; only now does the repository count as scanned.
ListInProgress(s) ==
  /\ pc[s] = "listing2"
  /\ \E p \in listing[s] :
       LET inProgress == Listed(p, "in_progress")
       IN  /\ found' = [found EXCEPT ![s] = inProgress]
           /\ scanned' = [scanned EXCEPT ![s] = @ \cup {p}]
           /\ activeRunIDs' = [activeRunIDs EXCEPT
                 ![s] = @ \cup RunsIn(queuedFound[s]) \cup RunsIn(inProgress)]
  /\ pc' = [pc EXCEPT ![s] = "listing"]
  /\ listing' = [listing EXCEPT ![s] = {}]
  /\ UNCHANGED <<bootstrapped, agenda, stamp, todo, zombies, queuedFound,
                 closing>>

\* A repository whose list failed counts as scanned.
WrongListFails(s) ==
  /\ pc[s] = "listing" /\ AllStored(s)
  /\ \E p \in todo[s] : /\ todo' = [todo EXCEPT ![s] = @ \ {p}]
                        /\ scanned' = [scanned EXCEPT ![s] = @ \cup {p}]
  /\ UNCHANGED <<bootstrapped, pc, agenda, stamp, zombies, listing, queuedFound, found,
                 activeRunIDs, closing>>

\* Either list fails: what the first one returned is dropped with it.
ListActiveFails(s) ==
  /\ \/ /\ pc[s] = "listing" /\ AllStored(s)
        /\ \E p \in todo[s] : todo' = [todo EXCEPT ![s] = @ \ {p}]
     \/ pc[s] = "listing2" /\ UNCHANGED todo
  /\ pc' = [pc EXCEPT ![s] = "listing"]
  /\ listing' = [listing EXCEPT ![s] = {}]
  /\ queuedFound' = [queuedFound EXCEPT ![s] = {}]
  /\ UNCHANGED <<bootstrapped, agenda, stamp, zombies, found, scanned,
                 activeRunIDs, closing>>

\* The SELECT of CloseStaleActiveRuns, made at completedAt.
SelectStale(s) ==
  /\ pc[s] = "listing" /\ AllStored(s) /\ todo[s] = {}
  /\ pc' = [pc EXCEPT ![s] = "closing"]
  /\ stamp' = [stamp EXCEPT ![s] = Now]
  /\ closing' = [closing EXCEPT ![s] = StaleActiveRuns(scanned[s], activeRunIDs[s])]
  /\ UNCHANGED <<bootstrapped, agenda, todo, zombies, listing,
                 queuedFound, found, scanned, activeRunIDs>>

CloseOne(s) ==
  /\ pc[s] = "closing"
  /\ \E r \in closing[s] :
       /\ CloseStaleActiveRun(r, stamp[s])
       /\ closing' = [closing EXCEPT ![s] = @ \ {r}]
  /\ UNCHANGED <<bootstrapped, pc, agenda, stamp, todo, zombies, listing,
                 queuedFound, found, scanned, activeRunIDs>>

EndWorkflowSweep(s) == pc[s] = "closing" /\ closing[s] = {} /\ EndSweep(s)

\* The SELECT or one UPDATE fails: the runs not closed yet stay open.
CloseFails(s) ==
  /\ \/ pc[s] = "listing" /\ AllStored(s) /\ todo[s] = {} /\ scanned[s] # {}
     \/ pc[s] = "closing" /\ closing[s] # {}
  /\ EndSweep(s)

(***************************************************************************)
(* pollHistory, on its own or as the bootstrap of pollWorkflowRuns.        *)
(***************************************************************************)
StartHistorySweep(s) ==
  /\ Starting(s, "history")
  /\ pc' = [pc EXCEPT ![s] = "history"]
  /\ todo' = [todo EXCEPT ![s] = Repos]
  /\ UNCHANGED <<bootstrapped, agenda, stamp, zombies, listing, queuedFound, found,
                 scanned, activeRunIDs, closing>>

\* The bootstrap: ListRepos answers, or the call fails or is rate-limited.
Seed(s) ==
  /\ pc[s] = "seeding"
  /\ pc' = [pc EXCEPT ![s] = "bootstrap"]
  /\ \E repos \in {Repos, {}} : todo' = [todo EXCEPT ![s] = repos]
  /\ UNCHANGED <<bootstrapped, agenda, stamp, zombies, listing, queuedFound, found,
                 scanned, activeRunIDs, closing>>

\* One page of a repository's recent runs; none of them when the call fails.
ListRecent(s, p) ==
  /\ pc[s] \in {"history", "bootstrap"} /\ AllStored(s) /\ p \in todo[s]
  /\ \E page \in SUBSET {r \in Runs : RepoOf[r] = p /\ Exists(r)} :
       found' = [found EXCEPT ![s] = {RestView(r) : r \in page}]
  /\ todo' = [todo EXCEPT ![s] = @ \ {p}]
  /\ UNCHANGED <<bootstrapped, pc, agenda, stamp, zombies, listing, queuedFound,
                 scanned, activeRunIDs, closing>>

EndHistorySweep(s) ==
  /\ pc[s] = "history" /\ todo[s] = {} /\ AllStored(s)
  /\ EndSweep(s)

\* pollWorkflowRuns asks again which repositories are active, as of the same since.
Requery(s) ==
  /\ pc[s] = "bootstrap" /\ todo[s] = {} /\ AllStored(s)
  /\ pc' = [pc EXCEPT ![s] = "listing"]
  /\ todo' = [todo EXCEPT ![s] = RecentlyActiveRepos(stamp[s])]
  /\ UNCHANGED <<bootstrapped, agenda, stamp, zombies, listing, queuedFound, found,
                 scanned, activeRunIDs, closing>>

RequeryFails(s) ==
  /\ pc[s] = "bootstrap" /\ todo[s] = {} /\ AllStored(s)
  /\ EndSweep(s)

(***************************************************************************)
(* pollStaleRuns.                                                          *)
(***************************************************************************)
StartStaleSweep(s) ==
  /\ Starting(s, "stale")
  /\ pc' = [pc EXCEPT ![s] = "stale"]
  /\ zombies' = [zombies EXCEPT ![s] = ZombieRuns(Duration(StaleRunReconcileAfter), Now)]
  /\ UNCHANGED <<bootstrapped, agenda, stamp, todo, listing, queuedFound, found,
                 scanned, activeRunIDs, closing>>

\* What pollStaleRuns stores for a run GitHub answers 404 for.
UnknownMarker(r) ==
  [run |-> r, status |-> "unknown", conclusion |-> "", updatedAt |-> NoTime]

GetWorkflowRun(r) == IF Exists(r) THEN RestView(r) ELSE UnknownMarker(r)

FetchZombie(s, r) ==
  /\ pc[s] = "stale" /\ AllStored(s) /\ r \in zombies[s]
  /\ found' = [found EXCEPT ![s] = {GetWorkflowRun(r)}]
  /\ zombies' = [zombies EXCEPT ![s] = @ \ {r}]
  /\ UNCHANGED <<bootstrapped, pc, agenda, stamp, todo, listing, queuedFound, scanned,
                 activeRunIDs, closing>>

FetchFails(s) ==
  /\ pc[s] = "stale" /\ AllStored(s)
  /\ \E r \in zombies[s] : zombies' = [zombies EXCEPT ![s] = @ \ {r}]
  /\ UNCHANGED <<bootstrapped, pc, agenda, stamp, todo, listing, queuedFound, found,
                 scanned, activeRunIDs, closing>>

EndStaleSweep(s) ==
  /\ pc[s] = "stale" /\ zombies[s] = {} /\ AllStored(s)
  /\ EndSweep(s)

(***************************************************************************)
(* The upsert loop of every sweep: the queued list first, one run at a     *)
(* time; a failing upsert is logged and the next run is tried.             *)
(***************************************************************************)
NextToStore(s) == IF queuedFound[s] # {} THEN queuedFound[s] ELSE found[s]

TakeFound(s, o) ==
  /\ pc[s] \in {"listing", "history", "bootstrap", "stale"} /\ o \in NextToStore(s)
  /\ queuedFound' = [queuedFound EXCEPT ![s] = @ \ {o}]
  /\ found' = [found EXCEPT ![s] = IF queuedFound[s] = {} THEN @ \ {o} ELSE @]
  /\ UNCHANGED <<bootstrapped, pc, agenda, stamp, todo, zombies, listing, scanned,
                 activeRunIDs, closing>>

StoreFound(s) ==
  \E o \in NextToStore(s) : TakeFound(s, o) /\ UpsertWorkflowRun(o, Now)

StoreFails(s) == \E o \in NextToStore(s) : TakeFound(s, o)

(***************************************************************************)
(* A sweeper's steps: those that write workflow_runs and those that do not.*)
(***************************************************************************)
Lists(s) ==
  \/ \E p \in Repos : ListQueued(s, p) \/ ListRecent(s, p)
  \/ ListInProgress(s)
  \/ \E r \in Runs : FetchZombie(s, r)

Fails(s) == SkipSweep(s) \/ ListActiveFails(s) \/ CloseFails(s) \/ RequeryFails(s)
              \/ FetchFails(s) \/ StoreFails(s)

Reads(s) ==
  \/ StartWorkflowSweep(s) \/ StartHistorySweep(s) \/ StartStaleSweep(s)
  \/ Lists(s) \/ Seed(s) \/ Requery(s) \/ SelectStale(s)
  \/ EndWorkflowSweep(s) \/ EndHistorySweep(s) \/ EndStaleSweep(s)

Writes(s) == StoreFound(s) \/ CloseOne(s)

Schedule == TickerFires("workflow") \/ TickerFires("stale")
              \/ \E s \in Refreshers : RefreshNow(s)
=============================================================================
