----------------------------- MODULE MCMonitor -----------------------------
(***************************************************************************)
(* Values for TLC: the repositories of one or two runs.                    *)
(***************************************************************************)
EXTENDS MonitorInvariant

CONSTANTS r1, r2, p1, p2

\* One run in one repository.
OneRun == [r \in {r1} |-> p1]

\* Two runs, each in its own repository, or both in one.
Apart == [r \in {r1, r2} |-> IF r = r1 THEN p1 ELSE p2]
Together == [r \in {r1, r2} |-> p1]
=============================================================================
