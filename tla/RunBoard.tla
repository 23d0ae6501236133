------------------------------ MODULE RunBoard ------------------------------
(***************************************************************************)
(* What the workflow_runs table promises its readers: the outcome it shows *)
(* of a run is one GitHub has given the run; it is not taken back unless   *)
(* the run was re-run under its id or deleted, or nothing tells the time   *)
(* of what is known of it; and a run with an outcome is not counted in the *)
(* queue depth.  Who writes, from which of the many late answers, in which *)
(* order and how often, is none of a reader's business.                    *)
(***************************************************************************)
CONSTANTS
  Runs, Conclusions,
  Untimed    \* runs of which no payload tells the time

VARIABLES
  outcomes,  \* GitHub: the conclusions it has given each run
  reopened,  \* GitHub: the runs that were re-run or deleted
  final,     \* the board: the outcome of a run, or {} while it shows none
  counted    \* the board: the runs in the queue depth

vars == <<outcomes, reopened, final, counted>>

Init ==
  /\ outcomes = [r \in Runs |-> {}] /\ reopened = {}
  /\ final = [r \in Runs |-> {}] /\ counted = {}

\* A run is concluded once, and once more each time it is re-run.
Conclude(r, c) ==
  /\ outcomes[r] = {} \/ r \in reopened
  /\ outcomes' = [outcomes EXCEPT ![r] = @ \cup {c}]
  /\ UNCHANGED <<reopened, final, counted>>

Reopen(r) ==
  /\ reopened' = reopened \cup {r}
  /\ UNCHANGED <<outcomes, final, counted>>

ShowOutcome(r, c) ==
  /\ c \in outcomes[r]
  /\ final' = [final EXCEPT ![r] = {c}] /\ counted' = counted \ {r}
  /\ UNCHANGED <<outcomes, reopened>>

\* The board may show as unfinished only what it has not shown as finished.
ShowUnfinished(r) ==
  /\ final[r] = {} \/ r \in reopened \cup Untimed
  /\ final' = [final EXCEPT ![r] = {}]
  /\ counted' \in {counted \cup {r}, counted \ {r}}
  /\ UNCHANGED <<outcomes, reopened>>

Next ==
  \E r \in Runs :
    \/ Reopen(r) \/ ShowUnfinished(r)
    \/ \E c \in Conclusions : Conclude(r, c) \/ ShowOutcome(r, c)

Spec == Init /\ [][Next]_vars
=============================================================================
