-------------------------- MODULE MCStoreLifecycle --------------------------
(***************************************************************************)
(* Values for TLC.  One run begins and completes, and is closed by a sweep *)
(* that missed it; of the other one only the table knows.  In the legacy   *)
(* tables the latest row of a run is not its first one, and not always its *)
(* newest.                                                                 *)
(***************************************************************************)
EXTENDS StoreLifecycle

CONSTANTS a, b, success

Is(status, conclusion, at) ==
  [status |-> status, conclusion |-> conclusion, updatedAt |-> at]
Began == Is("in_progress", "", GhTime(1))
Done == Is("completed", success, GhTime(2))
ClosedRow == Is("unknown", "", LocalTime(2))

Of(r, row) == [run |-> r, row |-> row]
Seen(r, row) == [run |-> r, status |-> row.status, conclusion |-> row.conclusion,
                 updatedAt |-> row.updatedAt]

Logs == {<<Of(a, Began), Of(b, ClosedRow), Of(a, Done)>>,
         <<Of(a, ClosedRow), Of(b, ClosedRow), Of(a, Began)>>}
News == {Seen(a, Began), Seen(a, Done)}
Rows == {NoRow, ClosedRow}
SweepTimes == {LocalTime(2)}
Where == [r \in {a, b} |-> "repo"]
=============================================================================
