------------------------------ MODULE Monitor ------------------------------
(***************************************************************************)
(* The monitor and its environment: GitHub, the deliveries it sends, the   *)
(* workflow_runs table, and the sweepers that share it.                    *)
(***************************************************************************)
EXTENDS Poller, Webhook

\* History variables, which no step of the code reads.
VARIABLES
  steady,    \* the runs that have been active on GitHub at every instant since
             \*   a sweeper's sweep began
  seedings   \* how often the process has begun to seed its store

vars == <<orgVars, rows, pollerVars, steady, seedings>>

Init ==
  /\ OrgInit /\ StoreInit /\ PollerInit
  /\ steady = Nothing /\ seedings = 0

\* GitHub moves on; a run that stops being active is no longer steady.
Environment ==
  /\ OrgNext
  /\ steady' = [s \in Sweepers |-> steady[s] \cap ActiveOnGitHub']
  /\ UNCHANGED <<rows, pollerVars, seedings>>

\* Any delivery GitHub ever sent arrives (again); one that fails in the store
\* is a delivery that has not arrived.
Deliver ==
  /\ \E payload \in events : HandleWorkflowRun(payload, Now)
  /\ UNCHANGED <<orgVars, pollerVars, steady, seedings>>

\* A sweep that begins observes from now on; one that ends, no longer.
Observe(s) ==
  /\ steady' = [steady EXCEPT ![s] =
       IF pc[s] = "idle" /\ pc'[s] # "idle" THEN ActiveOnGitHub
       ELSE IF pc'[s] = "idle" THEN {} ELSE @]
  /\ seedings' = IF pc[s] = "idle" /\ pc'[s] = "seeding" THEN seedings + 1 ELSE seedings

Succeeds(s) ==
  /\ \/ Reads(s) /\ UNCHANGED rows
     \/ Writes(s)
  /\ Observe(s)
  /\ UNCHANGED orgVars

Breaks(s) == Fails(s) /\ Observe(s) /\ UNCHANGED <<orgVars, rows>>

Sweep(s) == Succeeds(s) \/ Breaks(s)

Scheduling == Schedule /\ UNCHANGED <<orgVars, rows, steady, seedings>>

Restart ==
  /\ PollerRestart
  /\ steady' = Nothing /\ seedings' = 0
  /\ UNCHANGED <<orgVars, rows>>

Next == Environment \/ Deliver \/ Scheduling \/ Restart \/ \E s \in Sweepers : Sweep(s)

Spec == Init /\ [][Next]_vars

(***************************************************************************)
(* Fairness.  Time passes; the goroutine of Run goes on and its tickers    *)
(* keep firing, and GitHub and SQLite do not fail for ever: a call the     *)
(* loop goes on making succeeds in the end, and it is not rate-limited     *)
(* for ever.  The process restarts as often as it likes, but not for ever: *)
(* nothing makes one that does finish a sweep.  Nothing makes GitHub act   *)
(* or a delivery arrive.                                                   *)
(***************************************************************************)
LoopReads(A) == A /\ UNCHANGED <<orgVars, rows>> /\ Observe(Loop)
LoopWrites(A) == A /\ UNCHANGED orgVars /\ Observe(Loop)

Fairness ==
  /\ <>[][~Restart]_vars
  /\ WF_vars(Environment /\ Tick)
  /\ WF_vars(Sweep(Loop))
  /\ \A sweep \in {"workflow", "stale"} :
       SF_vars(TickerFires(sweep) /\ UNCHANGED <<orgVars, rows, steady, seedings>>)
  /\ SF_vars(LoopReads(StartWorkflowSweep(Loop)))
  /\ SF_vars(LoopReads(StartStaleSweep(Loop)))
  /\ \A p \in Repos : SF_vars(LoopReads(ListQueued(Loop, p)))
  /\ SF_vars(LoopReads(ListInProgress(Loop)))
  /\ SF_vars(LoopReads(SelectStale(Loop)))
  /\ \A r \in Runs : SF_vars(LoopReads(FetchZombie(Loop, r)))
  /\ \A r \in Runs : SF_vars(LoopWrites(\E o \in NextToStore(Loop) :
       o.run = r /\ TakeFound(Loop, o) /\ UpsertWorkflowRun(o, Now)))
  /\ SF_vars(LoopWrites(CloseOne(Loop)))

FairSpec == Spec /\ Fairness

\* Everything goes well: no call of any sweep fails or is rate-limited.
SmoothNext == Environment \/ Deliver \/ Scheduling \/ \E s \in Sweepers : Succeeds(s)

SmoothSpec ==
  /\ Init /\ [][SmoothNext]_vars
  /\ WF_vars(Environment /\ Tick)
  /\ WF_vars(Succeeds(Loop))
  /\ \A sweep \in {"workflow", "stale"} :
       SF_vars(TickerFires(sweep) /\ UNCHANGED <<orgVars, rows, steady, seedings>>)

(***************************************************************************)
(* Correctness.                                                            *)
(***************************************************************************)
\* Every variable has its type.
TypeOK ==
  /\ clock \in 0..MaxClock /\ gh \in [Runs -> GhRun] /\ events \subseteq Observation
  /\ rows \in [Runs -> Row]
  /\ bootstrapped \in BOOLEAN
  /\ pc \in [Sweepers -> {"idle", "seeding", "bootstrap", "listing", "listing2",
                          "closing", "history", "stale"}]
  /\ agenda \in [Sweepers -> Seq({"workflow", "history", "stale"})]
  /\ stamp \in [Sweepers -> Int]
  /\ todo \in [Sweepers -> SUBSET Repos]
  /\ zombies \in [Sweepers -> SUBSET Runs]
  /\ listing \in [Sweepers -> SUBSET Repos]
  /\ queuedFound \in [Sweepers -> SUBSET Observation]
  /\ found \in [Sweepers -> SUBSET Observation]
  /\ scanned \in [Sweepers -> SUBSET Repos]
  /\ activeRunIDs \in [Sweepers -> SUBSET Runs]
  /\ closing \in [Sweepers -> SUBSET Runs]
  /\ steady \in [Sweepers -> SUBSET Runs] /\ seedings \in Nat

\* The payloads of a run that is never re-run are all of one attempt.
FirstAttempt(r) == gh[r].attempt <= 1

\* A row that says completed tells GitHub's truth about a run never re-run:
\* the run has finished with that conclusion, however deliveries, lagging
\* lists and sweeps that are still under way were ordered.
CompletedRowsAreTrue ==
  \A r \in Runs : FirstAttempt(r) /\ rows[r].status = "completed" =>
    Finished(r) /\ rows[r].conclusion = gh[r].conclusion

\* A sweep selects for closing no run that has been active on GitHub all the
\* time since the sweep began: its repository was listed without a failure
\* after that, so both lists together must have shown the run.
ClosesOnlyWithEvidence ==
  \A s \in Sweepers : closing[s] \cap steady[s] = {}

\* UpsertWorkflowRun never takes back a completion: no late delivery, retry
\* or sweep that observed the run earlier reopens a completed row, unless the
\* run was re-run under its id or deleted, or its payloads carry no time.
CompletedIsFinal ==
  [][\A r \in Runs \ OmitsTime :
       rows[r].status = "completed" /\ rows'[r].status # "completed" =>
         ~FirstAttempt(r) \/ gh[r].status = "deleted"]_vars

\* The row is no longer active and was stamped no earlier than the run finished.
Settled(r) ==
  /\ rows[r].status \in {"completed", "unknown"}
  /\ Finished(r) /\ rows[r].updatedAt >= gh[r].updatedAt

\* A finished run whose row is settled, be it as "unknown" because its completion
\* was lost, is never counted in the queue depth again.
NoResurrection ==
  [][\A r \in Runs \ OmitsTime :
       FirstAttempt(r) /\ Settled(r) => rows'[r].status \notin ActiveStatus]_vars

\* Whatever its attempts, deletion or missing times, the conclusion in a completed
\* row is one GitHub has announced for that run, and was given when the row says:
\* no row is completed by the monitor's own doing (CloseStaleActiveRuns, the marker
\* of pollStaleRuns) or with the conclusion of one attempt and the time of another.
CompletionsHappened ==
  \A r \in Runs : rows[r].status = "completed" =>
    \E e \in events :
      /\ e.run = r /\ e.conclusion # "" /\ e.conclusion = rows[r].conclusion
      /\ r \notin OmitsTime => e.updatedAt = rows[r].updatedAt

\* The bootstrap of pollWorkflowRuns is "only ever done once per process lifetime"
\* (poller.go:211): of all the sweeps of a process that find no recently active
\* repository, at the same time or one after the other, at most one seeds.
OneBootstrap == seedings <= 1

(***************************************************************************)
(* The table as a board of outcomes, and GitHub as far as it is told.      *)
(***************************************************************************)
Announced == [r \in Runs |-> {e.conclusion : e \in {x \in events : x.run = r}} \ {""}]
Reopened == {r \in Runs : ~FirstAttempt(r) \/ gh[r].status = "deleted"}
ShownOutcome ==
  [r \in Runs |-> IF rows[r].status = "completed" THEN {rows[r].conclusion} ELSE {}]

Board == INSTANCE RunBoard WITH
  Untimed <- OmitsTime, outcomes <- Announced, reopened <- Reopened,
  final <- ShownOutcome, counted <- ActiveRows

\* Deliveries, sweeps, failures and restarts together do nothing to the table
\* that its readers could not be told of as a change of the board.
ImplementsBoard == Board!Spec

\* Even if every completion delivery is lost, a run that has finished on
\* GitHub for good leaves the queue depth for good.
FinishedRunsLeaveTheQueue ==
  \A r \in Runs : <>[]Finished(r) => <>[](r \notin ActiveRows)

(***************************************************************************)
(* What the repository says of itself and the code does not keep.  Each is *)
(* refuted by a run of its own.                                            *)
(***************************************************************************)
\* UpsertWorkflowRun (store.go:213): "drops writes that would move a run
\* backwards".  The marker of pollStaleRuns carries the local time, so it is
\* newer than the completion that arrived while the run was being fetched.
CompletionIsNotForgotten ==
  [][\A r \in Runs : rows[r].status = "completed" => rows'[r].status # "unknown"]_vars

\* pollWorkflowRuns (poller.go:186-188) "records their current active-run state"
\* for recently active repositories.  A run closed as "unknown" by a sweep that
\* listed its repository before the run began keeps a local stamp that is newer
\* than GitHub's, and all later sweeps that see the run active are dropped.
ActiveRunsAreCounted ==
  \A r \in Runs :
    <>[](r \in ActiveOnGitHub /\ RepoOf[r] \in
           RecentlyActiveRepos(Now - Duration(SpotCheckWindow)))
      => <>[](r \in ActiveRows)

\* pollWorkflowRuns (poller.go:189-191): "even if a completion delivery is lost,
\* the next sweep picks up the run's true state and closes it out".  No sweep
\* looks for a row in another status than queued or in_progress.
LostCompletionsAreClosedOut ==
  \A r \in Runs : <>[]Finished(r) =>
    <>[](rows[r].status \in {"absent", "completed", "unknown"})
=============================================================================
