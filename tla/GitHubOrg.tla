----------------------------- MODULE GitHubOrg -----------------------------
(***************************************************************************)
(* The environment: an organisation on GitHub, as the code under src/ sees *)
(* it through webhook deliveries and the REST API.  A run is triggered,    *)
(* may wait for an approval, is queued, runs and finishes; it may be       *)
(* re-run under the same run_id, and deleted.  Every change GitHub sends   *)
(* a delivery for leaves its payload in events, which is never emptied: a  *)
(* delivery can be lost, late, repeated (GitHub's retry after a 5xx) or    *)
(* overtaken by another.                                                   *)
(***************************************************************************)
EXTENDS WorkflowRun

CONSTANTS
  MaxClock,     \* bound: the last instant of a behaviour
  LastEvent,    \* bound: the last instant at which GitHub changes a run
  MaxAttempts,  \* bound: times a run can be run (1 = never re-run)
  NeedsApproval,\* runs that start out waiting, as for a protected environment
  Deletable,    \* runs that may be deleted once finished
  Lags          \* runs the status filters may go on listing when finished

ASSUME OrgAssumption ==
  /\ MaxClock \in Nat /\ LastEvent \in Nat /\ MaxAttempts \in Nat \ {0}
  /\ NeedsApproval \subseteq Runs /\ Deletable \subseteq Runs /\ Lags \subseteq Runs

VARIABLES
  clock,    \* the wall clock
  gh,       \* each run on GitHub
  events    \* the payloads of all deliveries GitHub has sent

orgVars == <<clock, gh, events>>

\* listed is the status REST reports, which may trail behind a run's finish.
GhRun == [status : GhStatus \cup {"none", "deleted"},
          listed : GhStatus \cup {"none", "deleted"},
          conclusion : AnyConclusion, updatedAt : Time, attempt : Nat]

OrgInit ==
  /\ clock = 0
  /\ gh = [r \in Runs |-> [status |-> "none", listed |-> "none", conclusion |-> "",
                           updatedAt |-> 0, attempt |-> 0]]
  /\ events = {}

ActiveOnGitHub == {r \in Runs : gh[r].status \in ActiveStatus}
Exists(r) == gh[r].status \in GhStatus
Finished(r) == gh[r].status \in {"completed", "deleted"}

Payload(r, run, status) ==
  [run |-> r, status |-> status, conclusion |-> run.conclusion,
   updatedAt |-> IF r \in OmitsTime THEN NoTime ELSE run.updatedAt]

\* The answer of the REST API about run r, and of a list filtered by status.
RestView(r) == Payload(r, gh[r], gh[r].listed)
Listed(p, status) ==
  {RestView(r) : r \in {x \in Runs : RepoOf[x] = p /\ gh[x].listed = status}}

Change(r, run) ==
  /\ clock <= LastEvent
  /\ gh' = [gh EXCEPT ![r] = run]
  /\ UNCHANGED clock
Announce(r, run) == events' = events \cup {Payload(r, run, run.status)}

Moved(status, attempt) ==
  [status |-> status, listed |-> status, conclusion |-> "",
   updatedAt |-> GhTime(clock), attempt |-> attempt]

FirstStatus(r) == IF r \in NeedsApproval THEN "waiting" ELSE "queued"

Trigger(r) ==
  /\ gh[r].status = "none"
  /\ LET run == Moved(FirstStatus(r), 1)
     IN  Change(r, run) /\ Announce(r, run)

\* No workflow_run delivery tells of an approval.
Approve(r) ==
  /\ gh[r].status = "waiting"
  /\ Change(r, Moved("queued", gh[r].attempt))
  /\ UNCHANGED events

Begin(r) ==
  /\ gh[r].status = "queued"
  /\ LET run == Moved("in_progress", gh[r].attempt)
     IN  Change(r, run) /\ Announce(r, run)

\* The list filters may go on reporting a finished run's last active status.
Finish(r) ==
  /\ gh[r].status \in ActiveStatus \cup {"waiting"}
  /\ \E c \in Conclusions, listed \in {"completed"} \cup
          (IF r \in Lags THEN {gh[r].status} \cap ActiveStatus ELSE {}) :
       LET run == [status |-> "completed", listed |-> listed, conclusion |-> c,
                   updatedAt |-> GhTime(clock), attempt |-> gh[r].attempt]
       IN  Change(r, run) /\ Announce(r, run)

Settle(r) ==
  /\ gh[r].status = "completed" /\ gh[r].listed # "completed"
  /\ gh' = [gh EXCEPT ![r].listed = "completed"]
  /\ UNCHANGED <<clock, events>>

Rerun(r) ==
  /\ gh[r].status = "completed" /\ gh[r].attempt < MaxAttempts
  /\ LET run == Moved("queued", gh[r].attempt + 1)
     IN  Change(r, run) /\ Announce(r, run)

Delete(r) ==
  /\ r \in Deletable /\ gh[r].status = "completed"
  /\ clock <= LastEvent
  /\ gh' = [gh EXCEPT ![r].status = "deleted", ![r].listed = "deleted"]
  /\ UNCHANGED <<clock, events>>

Tick ==
  /\ clock < MaxClock
  /\ clock' = clock + 1
  /\ UNCHANGED <<gh, events>>

RunChanges ==
  \E r \in Runs : \/ Trigger(r) \/ Approve(r) \/ Begin(r) \/ Finish(r)
                  \/ Settle(r) \/ Rerun(r) \/ Delete(r)

OrgNext == Tick \/ RunChanges
=============================================================================
