----------------------------- MODULE RunLedger -----------------------------
(***************************************************************************)
(* What the database promises to whoever records runs in it, whichever     *)
(* processes are started, stopped or killed on it, and whatever shape its  *)
(* table is in: every run has one current row or none, which only recording*)
(* an observation or closing the run changes.  A power failure takes it    *)
(* back, at most to what it was when the file was last synced.             *)
(***************************************************************************)
EXTENDS WorkflowRow

CONSTANTS Arrivals, Stamps

VARIABLES
  state,   \* the row of each run, NoRow where nothing is known
  recent   \* what it has been since the last sync

vars == <<state, recent>>

Recorded(table, o) == [table EXCEPT ![o.run] = Upserted(@, o)]
ClosedAt(table, r, at) == [table EXCEPT ![r] = Closed(@, at)]

Init == recent = {state}

Record ==
  /\ \/ \E o \in Arrivals : state' = Recorded(state, o)
     \/ \E r \in Runs, at \in Stamps : state' = ClosedAt(state, r, at)
  /\ recent' = recent \cup {state'}

Sync == state' = state /\ recent' = {state}

PowerFails == state' \in recent /\ recent' = {state'}

Next == Record \/ Sync \/ PowerFails

Spec == Init /\ [][Next]_vars
=============================================================================
