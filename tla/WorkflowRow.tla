----------------------------- MODULE WorkflowRow -----------------------------
(***************************************************************************)
(* A row of workflow_runs and what the two statements that write one make  *)
(* of it: the upsert with its guard, and the UPDATE that closes an active  *)
(* row (internal/store/store.go).                                          *)
(***************************************************************************)
EXTENDS WorkflowRun

Row == [status : RowStatus, conclusion : AnyConclusion,
        updatedAt : Time \cup {NoTime}]
NoRow == [status |-> "absent", conclusion |-> "", updatedAt |-> NoTime]

(***************************************************************************)
(* Operators whose name begins with Wrong are plausible mistakes in the    *)
(* definition that follows them.  Nothing uses them; put in its place,     *)
(* each makes a property fail, which shows that the property looks at it.  *)
(***************************************************************************)
\* Rows are stored as they were listed.
WrongNormalize(o) == o

\* A run with a conclusion is completed, whatever its status field says.
Normalize(o) ==
  IF o.conclusion # "" THEN [o EXCEPT !.status = "completed"] ELSE o

RowFrom(o) == [status |-> o.status, conclusion |-> o.conclusion,
               updatedAt |-> o.updatedAt]

\* The last write wins; or it wins unless it is older.
WrongLastWins(old, new) == TRUE
WrongNotOlder(old, new) == new.updatedAt >= old.updatedAt

\* workflowRunUpsertGuard: newer, or nothing terminal to lose, or a completion.
UpsertGuard(old, new) ==
  \/ new.updatedAt > old.updatedAt
  \/ old.status \in ActiveStatus
  \/ new.status = "completed"

\* The row left by an upsert: inserted, replaced, or kept by the guard.
Upserted(old, o) ==
  LET new == RowFrom(Normalize(o))
  IN  IF old = NoRow \/ UpsertGuard(old, new) THEN new ELSE old

\* Closing overwrites a completion; or pretends there was one; or invents a status.
WrongCloseAlways(old, at) == [status |-> "unknown", conclusion |-> "", updatedAt |-> at]
WrongCloseCompletes(old, at) == [old EXCEPT !.status = "completed", !.updatedAt = at]
WrongCloseStatus(old, at) == [old EXCEPT !.status = "stale", !.updatedAt = at]

\* The UPDATE re-checks the status, so a run that completed meanwhile is kept.
Closed(old, at) ==
  IF old.status \in ActiveStatus
  THEN [status |-> "unknown", conclusion |-> "", updatedAt |-> at]
  ELSE old
=============================================================================
