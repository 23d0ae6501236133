----------------------------- MODULE MCRunners -----------------------------
(***************************************************************************)
(* Values for TLC: the capacities a runner group may have.                 *)
(***************************************************************************)
EXTENDS RunnerSnapshots

\* A group that fits on a page of two and one that does not.
SmallOrLarge == {[total |-> 1, busy |-> 1], [total |-> 3, busy |-> 1]}
=============================================================================
