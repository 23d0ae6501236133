------------------------------ MODULE RunStore ------------------------------
(***************************************************************************)
(* The workflow_runs table (internal/store/store.go): one row per run,     *)
(* updated in place.  Every operation here is one SQL statement, which     *)
(* SQLite executes atomically; callers combine them in several steps.      *)
(***************************************************************************)
EXTENDS WorkflowRow

VARIABLE rows   \* the table: run_id -> row, "absent" where there is none

StoreInit == rows = [r \in Runs |-> NoRow]

UpsertWorkflowRun(o, now) ==
  rows' = [rows EXCEPT ![o.run] = Upserted(@, Stamped(o, now))]

CloseStaleActiveRun(r, at) == rows' = [rows EXCEPT ![r] = Closed(@, at)]

\* The rows QueueDepth counts.
ActiveRows == {r \in Runs : rows[r].status \in ActiveStatus}

\* The sweep forgets what it listed; or does not confine itself to what it scanned.
WrongStaleForgetsListed(repos, activeRunIDs) == {r \in ActiveRows : RepoOf[r] \in repos}
WrongStaleAnywhere(repos, activeRunIDs) ==
  IF repos = {} THEN {} ELSE ActiveRows \ activeRunIDs

\* The SELECT of CloseStaleActiveRuns, less the runs the sweep listed.
StaleActiveRuns(repos, activeRunIDs) ==
  {r \in ActiveRows : RepoOf[r] \in repos} \ activeRunIDs

RecentlyActiveRepos(since) ==
  {RepoOf[r] : r \in {x \in Runs : rows[x] # NoRow /\ rows[x].updatedAt >= since}}

ZombieRuns(staleAfter, now) ==
  {r \in ActiveRows : rows[r].updatedAt <= now - staleAfter}
=============================================================================
