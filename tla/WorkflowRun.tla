---------------------------- MODULE WorkflowRun ----------------------------
(***************************************************************************)
(* The vocabulary shared by every module about workflow runs: the runs and *)
(* repositories of the organisation, the states GitHub and the monitor     *)
(* give a run, observations of a run, and time.                            *)
(*                                                                         *)
(* A run is known by its run_id, a repository by its full name; both are   *)
(* model values.  The other columns (name, event, head_branch, source) are *)
(* carried along by the program and never looked at, so they are left out. *)
(***************************************************************************)
EXTENDS Integers, FiniteSets

CONSTANTS
  Runs,         \* run ids
  Repos,        \* repositories of the organisation
  RepoOf,       \* the repository of each run
  Conclusions,  \* the non-empty conclusions a finished run can have
  OmitsTime     \* runs whose payloads carry no usable updated_at

ASSUME RunsAssumption ==
  /\ IsFiniteSet(Runs)
  /\ RepoOf \in [Runs -> Repos]
  /\ "" \notin Conclusions
  /\ OmitsTime \subseteq Runs

\* The statuses counted in the queue depth, and the others GitHub reports.
ActiveStatus == {"queued", "in_progress"}
GhStatus == ActiveStatus \cup {"waiting", "completed"}

\* The monitor itself writes "unknown"; an "absent" row is no row.
RowStatus == GhStatus \cup {"unknown", "absent"}

AnyConclusion == Conclusions \cup {""}

(***************************************************************************)
(* Time.  GitHub stamps a run with whole seconds; the monitor stamps what  *)
(* it writes itself with the local clock, which has a fraction.  Within    *)
(* one tick of the clock GitHub's stamp therefore comes first.  The        *)
(* comparison SQLite makes on the stored text orders UTC times as here.    *)
(***************************************************************************)
NoTime == -1
GhTime(c) == 2 * c
LocalTime(c) == 2 * c + 1
Time == Nat
Duration(d) == 2 * d

\* What a webhook payload, a list entry or a fetched run says of a run.
Observation ==
  [run : Runs, status : GhStatus \cup {"unknown"},
   conclusion : AnyConclusion, updatedAt : Time \cup {NoTime}]

\* The fallback of handleWorkflowRun and toStoreRun when a payload has no
\* usable updated_at, and the stamp of the marker pollStaleRuns writes.
Stamped(o, now) == [o EXCEPT !.updatedAt = IF @ = NoTime THEN now ELSE @]
=============================================================================
