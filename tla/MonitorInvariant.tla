-------------------------- MODULE MonitorInvariant --------------------------
(***************************************************************************)
(* The inductive invariant behind the theorems of MonitorProofs, part by   *)
(* part.  Each part says what is known of the answers and deliveries that  *)
(* are still under way, for none of the safety properties holds of the     *)
(* rows alone.                                                             *)
(***************************************************************************)
EXTENDS Monitor

\* A run on GitHub: what its status says of the other fields.
RunOK(run) ==
  /\ run.updatedAt <= GhTime(clock)
  /\ IF run.status = "none" THEN run.attempt = 0 /\ run.listed = "none"
                             ELSE run.attempt >= 1
  /\ run.status \in {"completed", "deleted"} <=> run.conclusion # ""
  /\ run.status \in ActiveStatus \cup {"waiting"} => run.listed = run.status
  /\ run.status \in GhStatus => run.listed \in GhStatus

GhOK == \A r \in Runs : RunOK(gh[r])

\* What an observation of a run never re-run may still say: it does not run
\* ahead of GitHub, and it tells of a finish only as the finish was.
FaithfulTo(o, run) ==
  LET timed == o.run \notin OmitsTime
  IN  \/ o.status = "unknown" /\ o.conclusion = "" /\ run.status = "deleted"
      \/ /\ o.conclusion = "" /\ o.status \in GhStatus \ {"completed"}
         /\ timed => o.updatedAt # NoTime /\ o.updatedAt <= run.updatedAt
      \/ /\ o.conclusion # "" /\ o.conclusion = run.conclusion
         /\ run.status \in {"completed", "deleted"}
         /\ timed => o.updatedAt = run.updatedAt

Faithful(o) == FaithfulTo(o, gh[o.run])

Known(r) == gh[r].status # "none"

\* No observation is of a run GitHub has not had.
Credible(o) == Known(o.run) /\ (FirstAttempt(o.run) => Faithful(o))

ObservationsOK ==
  /\ \A o \in events : Credible(o)
  /\ \A s \in Sweepers : \A o \in queuedFound[s] \cup found[s] : Credible(o)

\* A completed row is GitHub's final word on a run never re-run.
FinalWord(r, row) ==
  FirstAttempt(r) /\ row.status = "completed" =>
    /\ Finished(r) /\ row.conclusion = gh[r].conclusion
    /\ r \notin OmitsTime => row.updatedAt = gh[r].updatedAt

RowsOK ==
  \A r \in Runs : FinalWord(r, rows[r]) /\ (rows[r].status # "absent" => Known(r))

\* A sweep's local variables are set only while it needs them.
SweepsOK ==
  \A s \in Sweepers :
    /\ pc[s] # "idle" => agenda[s] # <<>>
    /\ pc[s] \notin {"listing", "listing2", "closing"} => scanned[s] = {}
    /\ IF pc[s] = "closing" THEN stamp[s] \in Time ELSE closing[s] = {}
    /\ \A r \in zombies[s] : Known(r)

\* A run active since the sweep began is in the list of its repository: if the
\* queued list missed it, it was in progress already and still is.
EvidenceOK ==
  \A s \in Sweepers :
    /\ \A r \in steady[s] :
         /\ r \in ActiveOnGitHub
         /\ RepoOf[r] \in scanned[s] => r \in activeRunIDs[s]
         /\ pc[s] = "listing2" /\ RepoOf[r] \in listing[s] =>
              gh[r].status = "in_progress" \/ r \in RunsIn(queuedFound[s])
    /\ closing[s] \cap steady[s] = {}

(***************************************************************************)
(* For CompletionsHappened, of runs with any number of attempts: nothing   *)
(* that is under way or on GitHub has a conclusion that was not announced. *)
(***************************************************************************)
\* What an observation tells of a finish has been announced, with its time.
Backed(o) ==
  o.conclusion # "" \/ o.status = "completed" =>
    /\ o.conclusion # "" /\ (o.run \notin OmitsTime => o.updatedAt # NoTime)
    /\ \E e \in events :
         e.run = o.run /\ e.conclusion = o.conclusion /\ e.updatedAt = o.updatedAt

OutcomesOK ==
  /\ \A r \in Runs : gh[r].conclusion # "" => Backed(Payload(r, gh[r], "completed"))
  /\ \A o \in events : Backed(o)
  /\ \A s \in Sweepers : \A o \in queuedFound[s] \cup found[s] : Backed(o)
  /\ CompletionsHappened

\* A seeding has begun exactly if the flag is set, and then one has.
SeedingsOK == seedings = IF bootstrapped THEN 1 ELSE 0

Inv == TypeOK /\ GhOK /\ ObservationsOK /\ RowsOK /\ SweepsOK /\ EvidenceOK
=============================================================================
