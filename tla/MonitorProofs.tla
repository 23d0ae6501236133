--------------------------- MODULE MonitorProofs ---------------------------
(***************************************************************************)
(* Theorems about the monitor, for every set of runs, repositories and     *)
(* concurrent refreshes, and every bound.  The argument is the inductive   *)
(* invariant of MonitorInvariant.                                          *)
(***************************************************************************)
EXTENDS MonitorInvariant, TLAPS

(***************************************************************************)
(* The clock and the store's operators.                                    *)
(***************************************************************************)
\* The local time is a time, and never earlier than GitHub's of that instant.
LEMMA NowIsTime ==
  ASSUME clock \in 0..MaxClock
  PROVE  clock \in Nat /\ Now \in Time /\ GhTime(clock) \in Time /\ GhTime(clock) < Now
BY OrgAssumption DEF Now, LocalTime, GhTime, Time

\* An upsert leaves a row of the table's type (UpsertWorkflowRun).
LEMMA UpsertedType ==
  ASSUME NEW old \in Row, NEW o \in Observation, NEW now \in Time
  PROVE  Upserted(old, Stamped(o, now)) \in Row
<1>1. Stamped(o, now) \in Observation
  BY DEF Stamped, Observation
<1>2. Normalize(Stamped(o, now)) \in Observation
  BY <1>1 DEF Normalize, Observation, GhStatus, ActiveStatus
<1>3. RowFrom(Normalize(Stamped(o, now))) \in Row
  BY <1>2 DEF RowFrom, Observation, Row, RowStatus
<1> QED
  BY <1>3 DEF Upserted

\* Closing a row leaves a row of the table's type (closeStaleActiveRun).
LEMMA ClosedType ==
  ASSUME NEW old \in Row, NEW at \in Time
  PROVE  Closed(old, at) \in Row
BY DEF Closed, Row, RowStatus, AnyConclusion

\* No row is not a completed or closed one.
LEMMA NoRowIsAbsent == NoRow.status = "absent"
BY DEF NoRow

\* The row of an upsert that is not dropped, field by field.
LEMMA StampedFields ==
  ASSUME NEW o \in Observation, NEW now \in Time
  PROVE  LET row == RowFrom(Normalize(Stamped(o, now)))
         IN  /\ row.conclusion = o.conclusion
             /\ row.status = IF o.conclusion # "" THEN "completed" ELSE o.status
             /\ row.updatedAt = IF o.updatedAt = NoTime THEN now ELSE o.updatedAt
<1> DEFINE st == Stamped(o, now)
<1>1. /\ st.conclusion = o.conclusion /\ st.status = o.status
      /\ st.updatedAt = IF o.updatedAt = NoTime THEN now ELSE o.updatedAt
      /\ st \in Observation
  BY DEF Stamped, Observation
<1> HIDE DEF st
<1>2. /\ Normalize(st).conclusion = st.conclusion
      /\ Normalize(st).status = IF st.conclusion # "" THEN "completed" ELSE st.status
      /\ Normalize(st).updatedAt = st.updatedAt
  BY <1>1 DEF Normalize, Observation
<1> QED
  BY <1>1, <1>2 DEF RowFrom, st

(***************************************************************************)
(* What an upsert does to the row of a run never re-run.                   *)
(***************************************************************************)
\* A faithful observation leaves a completed row only where GitHub's word is
\* final, and with GitHub's conclusion and time.
LEMMA UpsertKeepsRowTrue ==
  ASSUME NEW o \in Observation, NEW now \in Time, NEW old \in Row,
         gh \in [Runs -> GhRun], Credible(o), FinalWord(o.run, old)
  PROVE  FinalWord(o.run, Upserted(old, Stamped(o, now)))
<1> SUFFICES ASSUME FirstAttempt(o.run), Faithful(o),
                    Upserted(old, Stamped(o, now)).status = "completed"
             PROVE  FinalWord(o.run, Upserted(old, Stamped(o, now)))
  BY DEF FinalWord, Credible
<1> DEFINE row == RowFrom(Normalize(Stamped(o, now)))
<1>1. CASE Upserted(old, Stamped(o, now)) = old
  BY <1>1
<1>2. CASE Upserted(old, Stamped(o, now)) = row
  <2>1. row.status = "completed"
    BY <1>2
  <2>2. o.conclusion # ""
    BY <2>1, StampedFields DEF Faithful, FaithfulTo, Finished, GhStatus
  <2>3. Finished(o.run) /\ o.conclusion = gh[o.run].conclusion
        /\ (o.run \notin OmitsTime => o.updatedAt = gh[o.run].updatedAt)
    BY <2>2 DEF Faithful, FaithfulTo, Finished
  <2>4. o.run \notin OmitsTime => o.updatedAt # NoTime
    BY <2>3 DEF Observation, GhRun, Time, NoTime
  <2> QED
    BY <1>2, <2>3, <2>4, StampedFields DEF FinalWord
<1> QED
  BY <1>1, <1>2 DEF Upserted

\* A completed row of such a run is reopened only by what pollStaleRuns writes
\* for a deleted run.
LEMMA UpsertKeepsCompletion ==
  ASSUME NEW o \in Observation, NEW now \in Time, NEW old \in Row,
         gh \in [Runs -> GhRun], Faithful(o), o.run \notin OmitsTime,
         old.status = "completed", old.updatedAt = gh[o.run].updatedAt,
         Upserted(old, Stamped(o, now)).status # "completed"
  PROVE  gh[o.run].status = "deleted"
<1> DEFINE row == RowFrom(Normalize(Stamped(o, now)))
<1>1. old # NoRow
  BY NoRowIsAbsent
<1>2. Upserted(old, Stamped(o, now)) = row /\ UpsertGuard(old, row) /\ row.status # "completed"
  BY <1>1 DEF Upserted
<1>3. row.updatedAt > old.updatedAt
  BY <1>2 DEF UpsertGuard, ActiveStatus
<1>4. o.conclusion = ""
  BY <1>2, StampedFields
<1>5. row.updatedAt = IF o.updatedAt = NoTime THEN now ELSE o.updatedAt
  BY StampedFields
<1>6. o.updatedAt \in Int /\ gh[o.run].updatedAt \in Int
  BY DEF Observation, GhRun, Time, NoTime
<1> HIDE DEF row
<1>7. o.updatedAt = NoTime \/ ~(o.updatedAt <= gh[o.run].updatedAt)
  BY <1>3, <1>5, <1>6
<1> QED
  BY <1>4, <1>7 DEF Faithful, FaithfulTo, Finished

\* A settled row of a finished run is not made active again.
LEMMA UpsertKeepsSettled ==
  ASSUME NEW o \in Observation, NEW now \in Time, NEW old \in Row,
         gh \in [Runs -> GhRun], Faithful(o), o.run \notin OmitsTime,
         old.status \in {"completed", "unknown"}, old.updatedAt >= gh[o.run].updatedAt,
         old.updatedAt \in Int
  PROVE  Upserted(old, Stamped(o, now)).status \notin ActiveStatus
<1> DEFINE row == RowFrom(Normalize(Stamped(o, now)))
<1>1. old # NoRow
  BY NoRowIsAbsent
<1>2. SUFFICES ASSUME Upserted(old, Stamped(o, now)) = row, UpsertGuard(old, row),
                      row.status \in ActiveStatus
               PROVE  FALSE
  BY <1>1 DEF Upserted, ActiveStatus
<1>3. row.updatedAt > old.updatedAt
  BY <1>2 DEF UpsertGuard, ActiveStatus
<1>4. o.conclusion = "" /\ o.status \in ActiveStatus
  BY <1>2, StampedFields DEF ActiveStatus
<1>5. o.updatedAt # NoTime /\ o.updatedAt <= gh[o.run].updatedAt
  BY <1>4 DEF Faithful, FaithfulTo, Finished, ActiveStatus
<1>6. row.updatedAt = o.updatedAt
  BY <1>5, StampedFields
<1>7. o.updatedAt \in Int /\ gh[o.run].updatedAt \in Int
  BY DEF Observation, GhRun, Time, NoTime
<1> HIDE DEF row
<1> QED
  BY <1>3, <1>5, <1>6, <1>7

(***************************************************************************)
(* GitHub.                                                                 *)
(***************************************************************************)
\* What every change of a run on GitHub respects.
Advances(old, new) ==
  /\ new \in GhRun /\ RunOK(new) /\ new.status # "none"
  /\ new.attempt <= 1 =>
       /\ old.attempt <= 1 /\ old.updatedAt <= new.updatedAt
       /\ old.conclusion # "" =>
            new.conclusion = old.conclusion /\ new.updatedAt = old.updatedAt
       /\ old.status = "deleted" => new.status = "deleted"
  /\ old.status = "in_progress" /\ new.status \in ActiveStatus =>
       new.status = "in_progress"

\* The delivery that tells of the new state, if there is one.
Told(r, run) ==
  \/ events' = events
  \/ /\ events' = events \cup {Payload(r, run, run.status)}
     /\ run.status \in GhStatus

\* A new state with the current time, of a run that had not finished or of its
\* next attempt.
NewState(old, new) ==
  /\ new.updatedAt = GhTime(clock) /\ new.attempt >= 1
  /\ new.status \in GhStatus /\ new.listed \in GhStatus
  /\ new.status # "completed" => new.listed = new.status /\ new.conclusion = ""
  /\ new.status = "completed" => new.conclusion # ""
  /\ new.attempt <= 1 => old.attempt <= 1 /\ old.status \notin {"completed", "deleted"}
  /\ old.status = "in_progress" => new.status # "queued"

LEMMA NewStateAdvances ==
  ASSUME clock \in Nat, NEW old \in GhRun, RunOK(old), NEW new \in GhRun, NewState(old, new)
  PROVE  Advances(old, new)
<1>1. old.updatedAt \in Nat /\ new.updatedAt \in Nat /\ old.attempt \in Nat /\ new.attempt \in Nat
  BY DEF GhRun, Time
<1>2. new.updatedAt = GhTime(clock)
  BY DEF NewState
<1>3. old.updatedAt <= GhTime(clock)
  BY DEF RunOK
<1>4. new.updatedAt <= GhTime(clock) /\ old.updatedAt <= new.updatedAt
  BY <1>1, <1>2, <1>3 DEF GhTime
<1>5. RunOK(new)
  BY <1>4 DEF RunOK, NewState, GhStatus, ActiveStatus
<1>6. new.attempt <= 1 => old.attempt <= 1 /\ old.conclusion = "" /\ old.status # "deleted"
  BY DEF RunOK, NewState
<1>7. old.status = "in_progress" /\ new.status \in ActiveStatus => new.status = "in_progress"
  BY DEF NewState, ActiveStatus
<1>8. new.status # "none"
  BY DEF NewState, GhStatus, ActiveStatus
<1> QED
  BY <1>4, <1>5, <1>6, <1>7, <1>8 DEF Advances

\* The states of Moved are new states.
LEMMA MovedIsNew ==
  ASSUME clock \in Nat, NEW old \in GhRun,
         NEW st \in {"queued", "in_progress", "waiting"}, NEW n \in Nat \ {0},
         n <= 1 => old.attempt <= 1 /\ old.status \notin {"completed", "deleted"},
         old.status = "in_progress" => st # "queued"
  PROVE  Moved(st, n) \in GhRun /\ NewState(old, Moved(st, n))
<1>1. GhTime(clock) \in Nat
  BY DEF GhTime
<1>2. Moved(st, n) \in GhRun
  BY <1>1 DEF Moved, GhRun, GhStatus, ActiveStatus, AnyConclusion, Time
<1>3. NewState(old, Moved(st, n))
  BY <1>1 DEF Moved, NewState, GhStatus, ActiveStatus
<1> QED
  BY <1>2, <1>3

\* A payload or list entry made from a run's present state is faithful to it.
LEMMA PayloadIsFaithful ==
  ASSUME NEW r \in Runs, NEW run \in GhRun, RunOK(run), NEW st \in GhStatus,
         run.status \notin {"completed", "deleted"} => st # "completed"
  PROVE  /\ Payload(r, run, st) \in Observation /\ Payload(r, run, st).run = r
         /\ FaithfulTo(Payload(r, run, st), run)
<1> DEFINE o == Payload(r, run, st)
<1>1. /\ o.run = r /\ o.status = st /\ o.conclusion = run.conclusion
      /\ o.updatedAt = IF r \in OmitsTime THEN NoTime ELSE run.updatedAt
  BY DEF Payload
<1>2. run.updatedAt \in Nat
  BY DEF GhRun, Time
<1>3. r \notin OmitsTime => o.updatedAt # NoTime /\ o.updatedAt = run.updatedAt
                             /\ o.updatedAt <= run.updatedAt
  BY <1>1, <1>2 DEF NoTime
<1>4. o \in Observation
  BY <1>2 DEF Payload, Observation, GhRun, AnyConclusion, Time
<1>5. run.conclusion # "" => run.status \in {"completed", "deleted"}
  BY DEF RunOK
<1>6. run.conclusion = "" => st # "completed"
  BY DEF RunOK
<1> HIDE DEF o
<1>7. FaithfulTo(o, run)
  BY <1>1, <1>3, <1>5, <1>6 DEF FaithfulTo
<1> QED
  BY <1>1, <1>4, <1>7 DEF o

\* Each change of a run moves it forward and tells of its new state or nothing.
LEMMA RunChangeAdvances ==
  ASSUME TypeOK, GhOK, NEW r \in Runs,
         \/ Trigger(r) \/ Approve(r) \/ Begin(r) \/ Finish(r)
         \/ Settle(r) \/ Rerun(r) \/ Delete(r)
  PROVE  /\ gh' = [gh EXCEPT ![r] = gh'[r]] /\ clock' = clock
         /\ Advances(gh[r], gh'[r]) /\ Told(r, gh'[r])
<1>1. /\ gh \in [Runs -> GhRun] /\ gh[r] \in GhRun /\ RunOK(gh[r]) /\ clock \in Nat
  BY NowIsTime DEF TypeOK, GhOK
<1>2. ASSUME NEW run \in GhRun, Change(r, run), NewState(gh[r], run),
             events' = events \/ Announce(r, run)
      PROVE  /\ gh' = [gh EXCEPT ![r] = gh'[r]] /\ clock' = clock
             /\ Advances(gh[r], gh'[r]) /\ Told(r, gh'[r])
  <2>1. gh' = [gh EXCEPT ![r] = run] /\ gh'[r] = run /\ clock' = clock
    BY <1>1, <1>2 DEF Change
  <2>2. Advances(gh[r], run)
    BY <1>1, <1>2, NewStateAdvances
  <2>3. Told(r, run)
    BY <1>2 DEF Told, Announce, NewState
  <2> QED
    BY <2>1, <2>2, <2>3
<1>3. ASSUME NEW st \in {"queued", "in_progress", "waiting"}, NEW n \in Nat \ {0},
             Change(r, Moved(st, n)), events' = events \/ Announce(r, Moved(st, n)),
             n <= 1 => gh[r].attempt <= 1 /\ gh[r].status \notin {"completed", "deleted"},
             gh[r].status = "in_progress" => st # "queued"
      PROVE  /\ gh' = [gh EXCEPT ![r] = gh'[r]] /\ clock' = clock
             /\ Advances(gh[r], gh'[r]) /\ Told(r, gh'[r])
  BY <1>1, <1>2, <1>3, MovedIsNew
<1>4. /\ gh[r].attempt \in Nat
      /\ gh[r].status # "none" => gh[r].attempt >= 1
      /\ gh[r].status = "none" => gh[r].attempt = 0
  BY <1>1 DEF GhRun, RunOK
<1>5. CASE Trigger(r)
  BY <1>3, <1>4, <1>5 DEF Trigger, FirstStatus
<1>6. CASE Approve(r)
  BY <1>3, <1>4, <1>6 DEF Approve
<1>7. CASE Begin(r)
  BY <1>3, <1>4, <1>7 DEF Begin
<1>8. CASE Rerun(r)
  BY <1>3, <1>4, <1>8 DEF Rerun
<1>9. CASE Finish(r)
  <2>1. PICK c \in Conclusions, listed \in {"completed"} \cup ActiveStatus :
          LET run == [status |-> "completed", listed |-> listed, conclusion |-> c,
                      updatedAt |-> GhTime(clock), attempt |-> gh[r].attempt]
          IN  Change(r, run) /\ Announce(r, run)
    BY <1>9 DEF Finish
  <2> DEFINE run == [status |-> "completed", listed |-> listed, conclusion |-> c,
                     updatedAt |-> GhTime(clock), attempt |-> gh[r].attempt]
  <2>2. GhTime(clock) \in Nat
    BY <1>1 DEF GhTime
  <2>3. run \in GhRun
    BY <1>4, <2>2 DEF GhRun, GhStatus, ActiveStatus, AnyConclusion, Time
  <2>4. gh[r].status \in {"queued", "in_progress", "waiting"}
    BY <1>9 DEF Finish, ActiveStatus
  <2>5. c # ""
    BY RunsAssumption
  <2>6. NewState(gh[r], run)
    BY <1>4, <2>2, <2>4, <2>5 DEF NewState, GhStatus, ActiveStatus
  <2> QED
    BY <1>2, <2>1, <2>3, <2>6
<1>10. CASE Settle(r)
  <2>1. /\ gh' = [gh EXCEPT ![r].listed = "completed"] /\ gh[r].status = "completed"
        /\ clock' = clock /\ events' = events
    BY <1>10 DEF Settle
  <2>2. gh' = [gh EXCEPT ![r] = gh'[r]] /\ gh'[r] = [gh[r] EXCEPT !.listed = "completed"]
    BY <1>1, <2>1
  <2>3. gh'[r] \in GhRun
    BY <1>1, <2>2 DEF GhRun, GhStatus
  <2>4. /\ gh'[r].status = gh[r].status /\ gh'[r].conclusion = gh[r].conclusion
        /\ gh'[r].updatedAt = gh[r].updatedAt /\ gh'[r].attempt = gh[r].attempt
        /\ gh'[r].listed = "completed"
    BY <1>1, <2>2 DEF GhRun
  <2>5. RunOK(gh'[r])
    BY <1>1, <2>1, <2>4 DEF RunOK, GhStatus, ActiveStatus
  <2>6. gh[r].updatedAt <= gh'[r].updatedAt /\ gh[r].attempt \in Nat
    BY <1>1, <2>4 DEF GhRun, Time
  <2>7. Advances(gh[r], gh'[r])
    BY <2>1, <2>3, <2>4, <2>5, <2>6 DEF Advances, ActiveStatus
  <2> QED
    BY <2>1, <2>2, <2>7 DEF Told
<1>11. CASE Delete(r)
  <2>1. /\ gh' = [gh EXCEPT ![r].status = "deleted", ![r].listed = "deleted"]
        /\ gh[r].status = "completed" /\ clock' = clock /\ events' = events
    BY <1>11 DEF Delete
  <2>2. /\ gh' = [gh EXCEPT ![r] = gh'[r]]
        /\ gh'[r] = [gh[r] EXCEPT !.status = "deleted", !.listed = "deleted"]
    BY <1>1, <2>1
  <2>3. gh'[r] \in GhRun
    BY <1>1, <2>2 DEF GhRun
  <2>4. /\ gh'[r].conclusion = gh[r].conclusion /\ gh'[r].status = "deleted"
        /\ gh'[r].updatedAt = gh[r].updatedAt /\ gh'[r].attempt = gh[r].attempt
    BY <1>1, <2>2 DEF GhRun
  <2>5. RunOK(gh'[r])
    BY <1>1, <2>1, <2>4 DEF RunOK, GhStatus, ActiveStatus
  <2>6. gh[r].updatedAt <= gh'[r].updatedAt /\ gh[r].attempt \in Nat
    BY <1>1, <2>4 DEF GhRun, Time
  <2>7. Advances(gh[r], gh'[r])
    BY <2>1, <2>3, <2>4, <2>5, <2>6 DEF Advances
  <2> QED
    BY <2>1, <2>2, <2>7 DEF Told
<1> QED
  BY <1>5, <1>6, <1>7, <1>8, <1>9, <1>10, <1>11

LEMMA LeqTransitive == \A a, b, c \in Int : a <= b /\ b <= c => a <= c
OBVIOUS

\* An observation that was credible stays so while the run moves forward.
LEMMA CredibleSurvives ==
  ASSUME NEW o \in Observation, gh \in [Runs -> GhRun], gh' \in [Runs -> GhRun],
         \A r \in Runs : gh'[r] = gh[r] \/ Advances(gh[r], gh'[r]), Credible(o)
  PROVE  Credible(o)'
<1>a. Known(o.run)'
  BY DEF Credible, Known, Advances, Observation
<1> SUFFICES ASSUME FirstAttempt(o.run)' PROVE Faithful(o)'
  BY <1>a DEF Credible
<1>1. o.run \in Runs
  BY DEF Observation
<1>2. CASE gh'[o.run] = gh[o.run]
  BY <1>1, <1>2 DEF Faithful, FirstAttempt, Credible
<1>3. CASE Advances(gh[o.run], gh'[o.run])
  <2> DEFINE old == gh[o.run]
             new == gh'[o.run]
  <2>1. /\ old.attempt <= 1 /\ old.updatedAt <= new.updatedAt
        /\ old.conclusion # "" =>
             new.conclusion = old.conclusion /\ new.updatedAt = old.updatedAt
        /\ old.status = "deleted" => new.status = "deleted"
        /\ RunOK(new)
    BY <1>3 DEF Advances, FirstAttempt
  <2>2. old.updatedAt \in Nat /\ new.updatedAt \in Nat /\ old.updatedAt <= new.updatedAt
    BY <1>1, <2>1 DEF GhRun, Time
  <2>3. Faithful(o)
    BY <2>1 DEF FirstAttempt, Credible
  <2>4. CASE o.status = "unknown" /\ o.conclusion = "" /\ old.status = "deleted"
    BY <2>1, <2>4 DEF Faithful, FaithfulTo, Finished
  <2>5. CASE /\ o.conclusion = "" /\ o.status \in GhStatus \ {"completed"}
             /\ o.run \notin OmitsTime => o.updatedAt # NoTime /\ o.updatedAt <= old.updatedAt
    <3>1. o.updatedAt \in Int
      BY DEF Observation, Time, NoTime
    <3>2. o.updatedAt <= old.updatedAt => o.updatedAt <= new.updatedAt
      BY <2>2, <3>1, LeqTransitive
    <3> QED
      BY <2>5, <3>2 DEF Faithful, FaithfulTo, Finished
  <2>6. CASE /\ o.conclusion # "" /\ o.conclusion = old.conclusion
             /\ o.run \notin OmitsTime => o.updatedAt = old.updatedAt
    <3>1. new.status \in {"completed", "deleted"}
      BY <2>1, <2>6 DEF RunOK
    <3> QED
      BY <2>1, <2>6, <3>1 DEF Faithful, FaithfulTo, Finished
  <2> QED
    BY <2>3, <2>4, <2>5, <2>6 DEF Faithful, FaithfulTo, Finished
<1> QED
  BY <1>1, <1>2, <1>3

\* The parts of the invariant that are about GitHub, in terms of one run.
LEMMA EnvironmentInv ==
  ASSUME Inv, Environment
  PROVE  Inv'
<1>1. /\ TypeOK /\ GhOK /\ ObservationsOK /\ RowsOK /\ SweepsOK /\ EvidenceOK
      /\ gh \in [Runs -> GhRun] /\ clock \in Nat
      /\ UNCHANGED <<rows, pollerVars, seedings>>
      /\ steady' = [s \in Sweepers |-> steady[s] \cap ActiveOnGitHub']
  BY NowIsTime DEF Inv, TypeOK, Environment
<1>2. /\ clock' \in 0..MaxClock
      /\ clock' = clock \/ clock' = clock + 1
      /\ \A r \in Runs : gh'[r] = gh[r] \/ Advances(gh[r], gh'[r])
      /\ gh' \in [Runs -> GhRun]
      /\ \A o \in events' : o \in events \/ \E r \in Runs :
           o = Payload(r, gh'[r], gh'[r].status) /\ gh'[r].status \in GhStatus
  <2>1. CASE Tick
    BY <1>1, <2>1, OrgAssumption DEF Tick, TypeOK
  <2>2. CASE RunChanges
    <3>1. PICK r \in Runs : /\ gh' = [gh EXCEPT ![r] = gh'[r]] /\ clock' = clock
                            /\ Advances(gh[r], gh'[r]) /\ Told(r, gh'[r])
      BY <1>1, <2>2, RunChangeAdvances DEF RunChanges
    <3>2. gh' \in [Runs -> GhRun]
      BY <1>1, <3>1 DEF Advances
    <3>3. \A x \in Runs : gh'[x] = gh[x] \/ Advances(gh[x], gh'[x])
      BY <1>1, <3>1
    <3>4. clock' \in 0..MaxClock
      BY <1>1, <3>1 DEF TypeOK
    <3> QED
      BY <3>1, <3>2, <3>3, <3>4 DEF Told
  <2> QED
    BY <2>1, <2>2 DEF Environment, OrgNext
<1>x. \A r \in Runs : RunOK(gh'[r])
  BY <1>1, <1>2 DEF GhOK, Advances
<1>3. GhOK'
  <2> SUFFICES ASSUME NEW r \in Runs PROVE RunOK(gh[r])'
    BY DEF GhOK
  <2>1. RunOK(gh'[r])
    BY <1>x
  <2>2. gh'[r].updatedAt <= GhTime(clock)
    BY <2>1 DEF RunOK
  <2>3. gh'[r].updatedAt \in Nat
    BY <1>2 DEF GhRun, Time
  <2>4. gh'[r].updatedAt <= GhTime(clock')
    <3>1. clock \in Nat /\ (clock' = clock \/ clock' = clock + 1)
      BY <1>1, <1>2
    <3> QED
      BY <2>2, <2>3, <3>1 DEF GhTime
  <2> QED
    BY <2>1, <2>4 DEF RunOK, GhTime
<1>4. ASSUME NEW o \in events'
      PROVE  o \in Observation /\ Credible(o)'
  <2>1. CASE o \in events
    <3>1. o \in Observation /\ Credible(o)
      BY <1>1, <2>1 DEF TypeOK, ObservationsOK
    <3> QED
      BY <1>1, <1>2, <3>1, CredibleSurvives
  <2>2. ASSUME NEW r \in Runs, gh'[r].status \in GhStatus, o = Payload(r, gh'[r], gh'[r].status)
        PROVE  o \in Observation /\ Credible(o)'
    <3>1. gh'[r] \in GhRun /\ RunOK(gh'[r])
      BY <1>2, <1>x
    <3>2. o \in Observation /\ o.run = r /\ FaithfulTo(o, gh'[r])
      BY <2>2, <3>1, PayloadIsFaithful
    <3>3. gh'[r].status # "none"
      BY <2>2 DEF GhStatus, ActiveStatus
    <3> QED
      BY <3>2, <3>3 DEF Credible, Known, Faithful
  <2> QED
    BY <1>2, <2>1, <2>2
<1>5. TypeOK'
  BY <1>1, <1>2, <1>4 DEF TypeOK, pollerVars
<1>6. ObservationsOK'
  <2>1. ASSUME NEW s \in Sweepers, NEW o \in queuedFound[s] \cup found[s]
        PROVE  Credible(o)'
    <3>1. o \in Observation /\ Credible(o)
      BY <1>1, <2>1 DEF TypeOK, ObservationsOK
    <3> QED
      BY <1>1, <1>2, <3>1, CredibleSurvives
  <2> QED
    BY <1>1, <1>4, <2>1 DEF ObservationsOK, pollerVars
<1>7. RowsOK'
  <2>k. \A r \in Runs : Known(r) => Known(r)'
    BY <1>2 DEF Known, Advances
  <2> SUFFICES ASSUME NEW r \in Runs, FirstAttempt(r)', rows[r].status = "completed"
               PROVE  /\ Finished(r)' /\ rows[r].conclusion = gh'[r].conclusion
                      /\ r \notin OmitsTime => rows[r].updatedAt = gh'[r].updatedAt
    BY <1>1, <2>k DEF RowsOK, FinalWord
  <2>1. CASE gh'[r] = gh[r]
    BY <1>1, <2>1 DEF RowsOK, FinalWord, FirstAttempt, Finished
  <2>2. CASE Advances(gh[r], gh'[r])
    <3>1. /\ gh[r].attempt <= 1
          /\ gh[r].conclusion # "" =>
               gh'[r].conclusion = gh[r].conclusion /\ gh'[r].updatedAt = gh[r].updatedAt
      BY <2>2 DEF Advances, FirstAttempt
    <3>2. /\ Finished(r) /\ rows[r].conclusion = gh[r].conclusion
          /\ r \notin OmitsTime => rows[r].updatedAt = gh[r].updatedAt
      BY <1>1, <3>1 DEF RowsOK, FinalWord, FirstAttempt
    <3>3. gh[r].conclusion # ""
      BY <1>1, <3>2 DEF GhOK, RunOK, Finished
    <3>4. Finished(r)'
      BY <1>x, <3>1, <3>3 DEF RunOK, Finished
    <3> QED
      BY <3>1, <3>2, <3>3, <3>4
  <2> QED
    BY <1>2, <2>1, <2>2
<1>8. SweepsOK'
  <2>1. \A s \in Sweepers : \A r \in zombies[s] : Known(r)'
    BY <1>1, <1>2 DEF SweepsOK, TypeOK, Known, Advances
  <2> QED
    BY <1>1, <2>1 DEF SweepsOK, pollerVars
<1>9. EvidenceOK'
  <2>1. ASSUME NEW s \in Sweepers, NEW r \in steady'[s]
        PROVE  /\ r \in steady[s] /\ r \in ActiveOnGitHub'
               /\ gh[r].status = "in_progress" => gh'[r].status = "in_progress"
    <3>1. r \in steady[s] /\ r \in ActiveOnGitHub'
      BY <1>1, <2>1
    <3>2. r \in Runs /\ gh'[r].status \in ActiveStatus
      BY <3>1 DEF ActiveOnGitHub
    <3> QED
      BY <1>2, <3>1, <3>2 DEF Advances
  <2>2. \A s \in Sweepers : steady'[s] \subseteq steady[s]
    BY <2>1
  <2> QED
    BY <1>1, <2>1, <2>2 DEF EvidenceOK, pollerVars
<1> QED
  BY <1>3, <1>5, <1>6, <1>7, <1>8, <1>9 DEF Inv

(***************************************************************************)
(* Deliveries and the rows.                                                *)
(***************************************************************************)
\* Upserting a faithful observation keeps the rows' type and RowsOK.
LEMMA UpsertInv ==
  ASSUME TypeOK, RowsOK, NEW o \in Observation, Credible(o),
         UpsertWorkflowRun(o, Now), UNCHANGED gh
  PROVE  rows' \in [Runs -> Row] /\ RowsOK'
<1>1. o.run \in Runs /\ Now \in Time /\ rows \in [Runs -> Row] /\ gh \in [Runs -> GhRun]
  BY NowIsTime DEF TypeOK, Observation
<1>2. rows' = [rows EXCEPT ![o.run] = Upserted(rows[o.run], Stamped(o, Now))]
  BY DEF UpsertWorkflowRun
<1>3. rows' \in [Runs -> Row]
  BY <1>1, <1>2, UpsertedType
<1>4. ASSUME NEW r \in Runs
      PROVE  FinalWord(r, rows'[r]) /\ (rows'[r].status # "absent" => Known(r))
  <2>1. FinalWord(r, rows[r]) /\ (rows[r].status # "absent" => Known(r))
    BY DEF RowsOK
  <2>2. CASE r # o.run
    BY <1>1, <1>2, <2>1, <2>2
  <2>3. CASE r = o.run
    <3>1. rows'[r] = Upserted(rows[r], Stamped(o, Now)) /\ rows[r] \in Row /\ Known(r)
      BY <1>1, <1>2, <2>3 DEF Credible
    <3> QED
      BY <1>1, <2>1, <2>3, <3>1, UpsertKeepsRowTrue
  <2> QED
    BY <2>2, <2>3
<1> QED
  BY <1>3, <1>4 DEF RowsOK, FinalWord, FirstAttempt, Finished, Known

LEMMA DeliverInv ==
  ASSUME Inv, Deliver
  PROVE  Inv'
<1>1. PICK o \in events : UpsertWorkflowRun(o, Now)
  BY DEF Deliver, HandleWorkflowRun
<1>2. UNCHANGED <<orgVars, pollerVars, steady, seedings>>
  BY DEF Deliver
<1>3. rows' \in [Runs -> Row] /\ RowsOK'
  BY <1>1, <1>2, UpsertInv DEF Inv, TypeOK, ObservationsOK, orgVars
<1>4. TypeOK'
  BY <1>2, <1>3 DEF Inv, TypeOK, orgVars, pollerVars
<1>5. GhOK'
  BY <1>2 DEF Inv, GhOK, RunOK, orgVars
<1>6. ObservationsOK'
  BY <1>2 DEF Inv, ObservationsOK, Credible, Known, FirstAttempt, Faithful, orgVars, pollerVars
<1>7. SweepsOK' /\ EvidenceOK'
  BY <1>2 DEF Inv, SweepsOK, Known, EvidenceOK, ActiveOnGitHub, orgVars, pollerVars
<1> QED
  BY <1>3, <1>4, <1>5, <1>6, <1>7 DEF Inv

LEMMA SchedulingInv ==
  ASSUME Inv, Scheduling
  PROVE  Inv'
<1>1. UNCHANGED <<orgVars, rows, steady, seedings>>
  BY DEF Scheduling
<1>2. /\ UNCHANGED <<bootstrapped, pc, stamp, todo, zombies, listing, queuedFound,
                     found, scanned, activeRunIDs, closing>>
      /\ agenda' \in [Sweepers -> Seq({"workflow", "history", "stale"})]
      /\ \A s \in Sweepers : pc[s] # "idle" => agenda'[s] # <<>>
  <2> DEFINE Kinds == {"workflow", "history", "stale"}
  <2>1. /\ agenda \in [Sweepers -> Seq(Kinds)]
        /\ \A s \in Sweepers : pc[s] # "idle" => agenda[s] # <<>>
    BY DEF Inv, TypeOK, SweepsOK
  <2>2. ASSUME NEW s \in Sweepers, NEW a \in Seq(Kinds), a # <<>>,
               agenda' = [agenda EXCEPT ![s] = a]
        PROVE  /\ agenda' \in [Sweepers -> Seq(Kinds)]
               /\ \A x \in Sweepers : pc[x] # "idle" => agenda'[x] # <<>>
    BY <2>1, <2>2
  <2>3. ASSUME NEW sweep \in {"workflow", "stale"}, TickerFires(sweep)
        PROVE  /\ agenda' \in [Sweepers -> Seq(Kinds)]
               /\ \A x \in Sweepers : pc[x] # "idle" => agenda'[x] # <<>>
    <3>1. <<sweep>> \in Seq(Kinds) /\ <<sweep>> # <<>>
      OBVIOUS
    <3> QED
      BY <2>2, <2>3, <3>1 DEF TickerFires, Sweepers
  <2>4. ASSUME NEW s \in Refreshers, RefreshNow(s)
        PROVE  /\ agenda' \in [Sweepers -> Seq(Kinds)]
               /\ \A x \in Sweepers : pc[x] # "idle" => agenda'[x] # <<>>
    <3>1. <<"workflow", "history", "stale">> \in Seq(Kinds)
          /\ <<"workflow", "history", "stale">> # <<>>
      OBVIOUS
    <3> QED
      BY <2>2, <2>4, <3>1 DEF RefreshNow, Sweepers
  <2>5. UNCHANGED <<bootstrapped, pc, stamp, todo, zombies, listing, queuedFound,
                    found, scanned, activeRunIDs, closing>>
    BY DEF Scheduling, Schedule, TickerFires, RefreshNow
  <2> QED
    BY <2>3, <2>4, <2>5 DEF Scheduling, Schedule
<1>3. TypeOK'
  BY <1>1, <1>2 DEF Inv, TypeOK, orgVars
<1>4. GhOK'
  BY <1>1 DEF Inv, GhOK, RunOK, orgVars
<1>5. ObservationsOK'
  BY <1>1, <1>2 DEF Inv, ObservationsOK, Credible, Known, FirstAttempt, Faithful, orgVars
<1>6. RowsOK'
  BY <1>1 DEF Inv, RowsOK, FinalWord, Known, FirstAttempt, Finished, orgVars
<1>7. SweepsOK' /\ EvidenceOK'
  BY <1>1, <1>2 DEF Inv, SweepsOK, Known, EvidenceOK, ActiveOnGitHub, orgVars
<1> QED
  BY <1>3, <1>4, <1>5, <1>6, <1>7 DEF Inv

(***************************************************************************)
(* The sweeps.                                                             *)
(***************************************************************************)
\* What REST says of a run it knows is faithful at the moment it is said.
LEMMA RestViewIsFaithful ==
  ASSUME TypeOK, GhOK, NEW r \in Runs, gh[r].listed \in GhStatus
  PROVE  RestView(r) \in Observation /\ Credible(RestView(r))
<1>1. gh[r] \in GhRun /\ RunOK(gh[r])
  BY DEF TypeOK, GhOK
<1>2. gh[r].status \notin {"completed", "deleted"} => gh[r].listed # "completed"
  BY <1>1 DEF RunOK, GhRun, GhStatus, ActiveStatus
<1>3. gh[r].status # "none"
  BY <1>1 DEF RunOK, GhStatus, ActiveStatus
<1> QED
  BY <1>1, <1>2, <1>3, PayloadIsFaithful DEF RestView, Credible, Known, Faithful

\* The observations a sweeper holds: typed, and faithful if of a first attempt.
Sound(obs) == \A o \in obs : o \in Observation /\ Credible(o)

LEMMA ListedIsSound ==
  ASSUME TypeOK, GhOK, NEW p, NEW status \in ActiveStatus
  PROVE  Sound(Listed(p, status))
BY RestViewIsFaithful DEF Listed, Sound, GhStatus

\* A step of sweeper s changes no variable of another sweeper ...
OwnOnly(s) ==
  /\ pc' = [pc EXCEPT ![s] = pc'[s]] /\ agenda' = [agenda EXCEPT ![s] = agenda'[s]]
  /\ stamp' = [stamp EXCEPT ![s] = stamp'[s]] /\ todo' = [todo EXCEPT ![s] = todo'[s]]
  /\ zombies' = [zombies EXCEPT ![s] = zombies'[s]]
  /\ listing' = [listing EXCEPT ![s] = listing'[s]]
  /\ queuedFound' = [queuedFound EXCEPT ![s] = queuedFound'[s]]
  /\ found' = [found EXCEPT ![s] = found'[s]]
  /\ scanned' = [scanned EXCEPT ![s] = scanned'[s]]
  /\ activeRunIDs' = [activeRunIDs EXCEPT ![s] = activeRunIDs'[s]]
  /\ closing' = [closing EXCEPT ![s] = closing'[s]]
  /\ steady' = [steady EXCEPT ![s] = steady'[s]]

\* ... and leaves its own with their types, holding sound observations ...
OwnTyped(s) ==
  /\ bootstrapped' \in BOOLEAN /\ seedings' \in Nat
  /\ pc'[s] \in {"idle", "seeding", "bootstrap", "listing", "listing2", "closing",
                 "history", "stale"}
  /\ agenda'[s] \in Seq({"workflow", "history", "stale"}) /\ stamp'[s] \in Int
  /\ todo'[s] \subseteq Repos /\ listing'[s] \subseteq Repos
  /\ zombies'[s] \subseteq Runs /\ \A r \in zombies'[s] : Known(r)
  /\ Sound(queuedFound'[s]) /\ Sound(found'[s])
  /\ scanned'[s] \subseteq Repos /\ activeRunIDs'[s] \subseteq Runs
  /\ closing'[s] \subseteq Runs /\ steady'[s] \subseteq Runs

\* ... and as SweepsOK and EvidenceOK ask.
OwnOK(s) ==
  /\ pc'[s] # "idle" => agenda'[s] # <<>>
  /\ pc'[s] \notin {"listing", "listing2", "closing"} => scanned'[s] = {}
  /\ IF pc'[s] = "closing" THEN stamp'[s] \in Time ELSE closing'[s] = {}
  /\ closing'[s] \cap steady'[s] = {}
  /\ \A r \in steady'[s] :
       /\ r \in ActiveOnGitHub
       /\ RepoOf[r] \in scanned'[s] => r \in activeRunIDs'[s]
       /\ pc'[s] = "listing2" /\ RepoOf[r] \in listing'[s] =>
            gh[r].status = "in_progress" \/ r \in RunsIn(queuedFound'[s])

LEMMA SweeperStep ==
  ASSUME Inv, NEW s \in Sweepers, UNCHANGED orgVars, rows' \in [Runs -> Row], RowsOK',
         OwnOnly(s), OwnTyped(s), OwnOK(s)
  PROVE  Inv'
<1>1. TypeOK'
  BY DEF Inv, TypeOK, orgVars, Sound, OwnOnly, OwnTyped
<1>2. GhOK'
  BY DEF Inv, GhOK, RunOK, orgVars
<1>3. ObservationsOK'
  BY DEF Inv, TypeOK, ObservationsOK, Sound, Credible, Known, FirstAttempt, Faithful, orgVars,
    OwnOnly, OwnTyped
<1>4. ASSUME NEW x \in Sweepers \ {s}
      PROVE  /\ pc'[x] = pc[x] /\ agenda'[x] = agenda[x] /\ listing'[x] = listing[x]
             /\ queuedFound'[x] = queuedFound[x] /\ scanned'[x] = scanned[x]
             /\ activeRunIDs'[x] = activeRunIDs[x] /\ closing'[x] = closing[x]
             /\ steady'[x] = steady[x] /\ zombies'[x] = zombies[x] /\ stamp'[x] = stamp[x]
  BY DEF Inv, TypeOK, OwnOnly
<1>5. SweepsOK'
  <2> SUFFICES ASSUME NEW x \in Sweepers
               PROVE  /\ pc'[x] # "idle" => agenda'[x] # <<>>
                      /\ pc'[x] \notin {"listing", "listing2", "closing"} => scanned'[x] = {}
                      /\ IF pc'[x] = "closing" THEN stamp'[x] \in Time ELSE closing'[x] = {}
                      /\ \A r \in zombies'[x] : Known(r)
    BY DEF SweepsOK, Known, orgVars
  <2>1. CASE x = s
    BY <2>1 DEF OwnOK, OwnTyped
  <2>2. CASE x # s
    BY <1>4, <2>2 DEF Inv, SweepsOK
  <2> QED
    BY <2>1, <2>2
<1>6. EvidenceOK'
  <2>1. gh' = gh
    BY DEF orgVars
  <2> SUFFICES ASSUME NEW x \in Sweepers
               PROVE  /\ \A r \in steady'[x] :
                           /\ r \in ActiveOnGitHub
                           /\ RepoOf[r] \in scanned'[x] => r \in activeRunIDs'[x]
                           /\ pc'[x] = "listing2" /\ RepoOf[r] \in listing'[x] =>
                                gh[r].status = "in_progress" \/ r \in RunsIn(queuedFound'[x])
                      /\ closing'[x] \cap steady'[x] = {}
    BY <2>1 DEF EvidenceOK, ActiveOnGitHub
  <2>2. CASE x = s
    BY <2>2 DEF OwnOK
  <2>3. CASE x # s
    BY <1>4, <2>3 DEF Inv, EvidenceOK
  <2> QED
    BY <2>2, <2>3
<1> QED
  BY <1>1, <1>2, <1>3, <1>5, <1>6 DEF Inv

\* What Inv says of one sweeper, in one place.
LEMMA Own ==
  ASSUME Inv, NEW s \in Sweepers
  PROVE  /\ pc[s] \in {"idle", "seeding", "bootstrap", "listing", "listing2", "closing",
                       "history", "stale"}
         /\ agenda[s] \in Seq({"workflow", "history", "stale"}) /\ stamp[s] \in Int
         /\ todo[s] \subseteq Repos /\ zombies[s] \subseteq Runs /\ listing[s] \subseteq Repos
         /\ Sound(queuedFound[s]) /\ Sound(found[s])
         /\ scanned[s] \subseteq Repos /\ activeRunIDs[s] \subseteq Runs
         /\ closing[s] \subseteq Runs /\ steady[s] \subseteq Runs
         /\ bootstrapped \in BOOLEAN
         /\ pc[s] # "idle" => agenda[s] # <<>>
         /\ pc[s] \notin {"listing", "listing2", "closing"} => scanned[s] = {}
         /\ IF pc[s] = "closing" THEN stamp[s] \in Time ELSE closing[s] = {}
         /\ \A r \in zombies[s] : Known(r)
BY DEF Inv, TypeOK, ObservationsOK, SweepsOK, Sound

\* The history variable keeps its type.
LEMMA SeedingsCounted ==
  ASSUME Inv, NEW s \in Sweepers, Observe(s)
  PROVE  seedings' \in Nat
BY DEF Inv, TypeOK, Observe

LEMMA EndSweepInv ==
  ASSUME Inv, NEW s \in Sweepers, EndSweep(s), agenda[s] # <<>>, Observe(s),
         UNCHANGED <<orgVars, rows>>
  PROVE  Inv'
<1>1. OwnOnly(s)
  BY DEF EndSweep, Observe, OwnOnly, Inv, TypeOK
<1>2. /\ pc'[s] = "idle" /\ agenda'[s] = Tail(agenda[s]) /\ stamp'[s] = 0 /\ scanned'[s] = {}
      /\ activeRunIDs'[s] = {} /\ closing'[s] = {} /\ steady'[s] = {}
      /\ UNCHANGED <<bootstrapped, todo, zombies, listing, queuedFound, found>>
  BY DEF EndSweep, Observe, Inv, TypeOK
<1>3. OwnTyped(s)
  BY <1>2, Own, SeedingsCounted DEF OwnTyped
<1>4. OwnOK(s)
  BY <1>2 DEF OwnOK
<1>5. rows' \in [Runs -> Row] /\ RowsOK'
  BY DEF Inv, TypeOK, RowsOK, FinalWord, Known, FirstAttempt, Finished, orgVars
<1> QED
  BY <1>1, <1>3, <1>4, <1>5, SweeperStep

\* Every variable of the sweepers is a function on them.
Functional ==
  /\ pc = [x \in Sweepers |-> pc[x]] /\ agenda = [x \in Sweepers |-> agenda[x]]
  /\ stamp = [x \in Sweepers |-> stamp[x]] /\ todo = [x \in Sweepers |-> todo[x]]
  /\ zombies = [x \in Sweepers |-> zombies[x]] /\ listing = [x \in Sweepers |-> listing[x]]
  /\ queuedFound = [x \in Sweepers |-> queuedFound[x]]
  /\ found = [x \in Sweepers |-> found[x]] /\ scanned = [x \in Sweepers |-> scanned[x]]
  /\ activeRunIDs = [x \in Sweepers |-> activeRunIDs[x]]
  /\ closing = [x \in Sweepers |-> closing[x]] /\ steady = [x \in Sweepers |-> steady[x]]

LEMMA InvFunctional == Inv => Functional
BY DEF Inv, TypeOK, Functional

\* The steps that begin a sweep.
LEMMA StartInv ==
  ASSUME Inv, NEW s \in Sweepers, Observe(s), UNCHANGED <<orgVars, rows>>,
         StartWorkflowSweep(s) \/ StartHistorySweep(s) \/ StartStaleSweep(s)
  PROVE  Inv'
<1>1. Functional /\ pc[s] = "idle" /\ agenda[s] # <<>>
  BY InvFunctional DEF StartWorkflowSweep, StartHistorySweep, StartStaleSweep, Starting
<1>2. OwnOnly(s)
  BY <1>1 DEF StartWorkflowSweep, StartHistorySweep, StartStaleSweep, Observe, OwnOnly, Functional
<1>3. /\ pc'[s] \in {"seeding", "listing", "history", "stale"} /\ steady'[s] = ActiveOnGitHub
      /\ UNCHANGED <<agenda, listing, queuedFound, found, scanned, activeRunIDs, closing>>
  BY <1>1 DEF StartWorkflowSweep, StartHistorySweep, StartStaleSweep, Observe, Functional
<1>4. /\ bootstrapped' \in BOOLEAN /\ stamp'[s] \in Int /\ todo'[s] \subseteq Repos
      /\ zombies'[s] \subseteq Runs /\ \A r \in zombies'[s] : Known(r)
  <2>1. \A t : RecentlyActiveRepos(t) \subseteq Repos
    BY RunsAssumption DEF RecentlyActiveRepos
  <2>2. \A d, t : ZombieRuns(d, t) \subseteq Runs /\ \A r \in ZombieRuns(d, t) : Known(r)
    BY DEF ZombieRuns, ActiveRows, ActiveStatus, Inv, RowsOK
  <2>3. Now - Duration(SpotCheckWindow) \in Int
    BY NowIsTime, PollerAssumption DEF Inv, TypeOK, Duration, Time
  <2>4. bootstrapped \in BOOLEAN /\ stamp[s] \in Int /\ todo[s] \subseteq Repos /\ zombies[s] \subseteq Runs
        /\ \A r \in zombies[s] : Known(r)
    BY Own
  <2>5. CASE StartWorkflowSweep(s)
    <3>1. /\ stamp'[s] = Now - Duration(SpotCheckWindow) /\ zombies' = zombies
          /\ todo'[s] = RecentlyActiveRepos(Now - Duration(SpotCheckWindow))
          /\ bootstrapped' \in BOOLEAN
      BY <1>1, <2>4, <2>5 DEF StartWorkflowSweep, Functional
    <3> QED
      BY <2>1, <2>3, <2>4, <3>1
  <2>6. CASE StartHistorySweep(s)
    BY <1>1, <2>4, <2>6 DEF StartHistorySweep, Functional
  <2>7. CASE StartStaleSweep(s)
    BY <1>1, <2>2, <2>4, <2>7 DEF StartStaleSweep, Functional
  <2> QED
    BY <2>5, <2>6, <2>7
<1>5. OwnTyped(s)
  BY <1>3, <1>4, Own, SeedingsCounted DEF OwnTyped, ActiveOnGitHub
<1>6. OwnOK(s)
  BY <1>1, <1>3, Own DEF OwnOK
<1>7. rows' \in [Runs -> Row] /\ RowsOK'
  BY DEF Inv, TypeOK, RowsOK, FinalWord, Known, FirstAttempt, Finished, orgVars
<1> QED
  BY <1>2, <1>5, <1>6, <1>7, SweeperStep

\* A step in the middle of a sweep that neither lists repositories by status
\* nor selects or closes rows: it moves on to where, with the repositories t and
\* the runs z still to visit and the observations q and f still to store.
LEMMA MidSweepInv ==
  ASSUME Inv, NEW s \in Sweepers, UNCHANGED orgVars, rows' \in [Runs -> Row], RowsOK',
         Observe(s),
         NEW where \in {"listing", "history", "bootstrap", "stale"},
         pc[s] \in {where, "seeding", "bootstrap"}, pc' = [pc EXCEPT ![s] = where],
         NEW t, t \subseteq Repos, todo' = [todo EXCEPT ![s] = t],
         NEW z, z \subseteq Runs, \A r \in z : Known(r), zombies' = [zombies EXCEPT ![s] = z],
         NEW q, Sound(q), queuedFound' = [queuedFound EXCEPT ![s] = q],
         NEW f, Sound(f), found' = [found EXCEPT ![s] = f],
         UNCHANGED <<bootstrapped, agenda, stamp, listing, scanned, activeRunIDs, closing>>
  PROVE  Inv'
<1>1. Functional
  BY InvFunctional
<1>2. /\ pc'[s] = where /\ todo'[s] = t /\ zombies'[s] = z /\ queuedFound'[s] = q
      /\ found'[s] = f /\ pc[s] # "idle"
  BY <1>1 DEF Functional
<1>3. steady' = [steady EXCEPT ![s] = steady[s]] /\ steady'[s] = steady[s]
  BY <1>1, <1>2 DEF Observe, Functional
<1>4. OwnOnly(s)
  BY <1>1, <1>2, <1>3 DEF OwnOnly, Functional
<1>5. OwnTyped(s)
  BY <1>2, <1>3, Own, SeedingsCounted DEF OwnTyped
<1>6. OwnOK(s)
  <2>1. /\ agenda[s] # <<>> /\ closing[s] = {}
        /\ where # "listing" => scanned[s] = {}
    BY <1>2, Own
  <2>2. \A r \in steady[s] : r \in ActiveOnGitHub /\ (RepoOf[r] \in scanned[s] => r \in activeRunIDs[s])
    BY DEF Inv, EvidenceOK
  <2> QED
    BY <1>2, <1>3, <2>1, <2>2 DEF OwnOK
<1> QED
  BY <1>4, <1>5, <1>6, SweeperStep

\* Taking the next observation out of the loop, whether it is then stored or not.
LEMMA TakeFoundInv ==
  ASSUME Inv, NEW s \in Sweepers, UNCHANGED orgVars, rows' \in [Runs -> Row], RowsOK',
         Observe(s), NEW o, TakeFound(s, o)
  PROVE  Inv'
<1>1. /\ pc = [pc EXCEPT ![s] = pc[s]] /\ todo = [todo EXCEPT ![s] = todo[s]]
      /\ zombies = [zombies EXCEPT ![s] = zombies[s]]
      /\ found = [found EXCEPT ![s] = found[s]]
  BY DEF Inv, TypeOK
<1>2. /\ todo[s] \subseteq Repos /\ zombies[s] \subseteq Runs /\ \A r \in zombies[s] : Known(r)
      /\ Sound(queuedFound[s]) /\ Sound(found[s])
  BY Own
<1> DEFINE f == IF queuedFound[s] = {} THEN found[s] \ {o} ELSE found[s]
<1>3. /\ pc[s] \in {"listing", "history", "bootstrap", "stale"}
      /\ queuedFound' = [queuedFound EXCEPT ![s] = queuedFound[s] \ {o}]
      /\ found' = [found EXCEPT ![s] = f]
      /\ UNCHANGED <<bootstrapped, pc, agenda, stamp, todo, zombies, listing, scanned,
                     activeRunIDs, closing>>
  BY DEF TakeFound
<1>4. Sound(queuedFound[s] \ {o}) /\ Sound(f)
  BY <1>2 DEF Sound
<1> HIDE DEF f
<1> QED
  BY <1>1, <1>2, <1>3, <1>4, MidSweepInv

\* A sweep that goes on without writing.
Continues(s) ==
  \/ \E p \in Repos : ListRecent(s, p)
  \/ \E r \in Runs : FetchZombie(s, r)
  \/ FetchFails(s) \/ StoreFails(s) \/ Seed(s) \/ Requery(s)

LEMMA ContinueInv ==
  ASSUME Inv, NEW s \in Sweepers, Observe(s), UNCHANGED <<orgVars, rows>>, Continues(s)
  PROVE  Inv'
<1>1. rows' \in [Runs -> Row] /\ RowsOK' /\ UNCHANGED orgVars
  BY DEF Inv, TypeOK, RowsOK, FinalWord, Known, FirstAttempt, Finished, orgVars
<1>2. /\ pc = [pc EXCEPT ![s] = pc[s]] /\ todo = [todo EXCEPT ![s] = todo[s]]
      /\ zombies = [zombies EXCEPT ![s] = zombies[s]]
      /\ queuedFound = [queuedFound EXCEPT ![s] = queuedFound[s]]
      /\ found = [found EXCEPT ![s] = found[s]]
  BY DEF Inv, TypeOK
<1>3. /\ todo[s] \subseteq Repos /\ zombies[s] \subseteq Runs /\ \A r \in zombies[s] : Known(r)
      /\ Sound(queuedFound[s]) /\ Sound(found[s])
  BY Own
<1>4. TypeOK /\ GhOK
  BY DEF Inv
<1>5. ASSUME NEW p \in Repos, ListRecent(s, p)
      PROVE  Inv'
  <2>1. PICK page \in SUBSET {r \in Runs : RepoOf[r] = p /\ Exists(r)} :
          found' = [found EXCEPT ![s] = {RestView(r) : r \in page}]
    BY <1>5 DEF ListRecent
  <2> DEFINE f == {RestView(r) : r \in page}
  <2>2. Sound(f)
    <3>1. \A r \in page : r \in Runs /\ gh[r].listed \in GhStatus
      BY <1>4 DEF Exists, GhOK, RunOK
    <3> QED
      BY <1>4, <3>1, RestViewIsFaithful DEF Sound
  <2>3. /\ pc[s] \in {"history", "bootstrap"} /\ todo' = [todo EXCEPT ![s] = todo[s] \ {p}]
        /\ UNCHANGED <<bootstrapped, pc, agenda, stamp, zombies, listing, queuedFound,
                       scanned, activeRunIDs, closing>>
    BY <1>5 DEF ListRecent
  <2>4. todo[s] \ {p} \subseteq Repos /\ found' = [found EXCEPT ![s] = f]
    BY <1>3, <2>1
  <2> HIDE DEF f
  <2> QED
    BY <1>1, <1>2, <1>3, <2>2, <2>3, <2>4, MidSweepInv
<1>6. ASSUME NEW r \in Runs, FetchZombie(s, r)
      PROVE  Inv'
  <2>1. Sound({GetWorkflowRun(r)})
    <3>1. Known(r)
      BY <1>3, <1>6 DEF FetchZombie
    <3>2. CASE Exists(r)
      <4>1. gh[r].listed \in GhStatus
        BY <1>4, <3>2 DEF Exists, GhOK, RunOK
      <4> QED
        BY <1>4, <3>2, <4>1, RestViewIsFaithful DEF Sound, GetWorkflowRun
    <3>3. CASE ~Exists(r)
      <4>1. gh[r].status = "deleted"
        BY <1>4, <3>1, <3>3 DEF Exists, Known, TypeOK, GhRun
      <4>2. UnknownMarker(r) \in Observation
        BY DEF UnknownMarker, Observation, AnyConclusion, NoTime
      <4>3. Credible(UnknownMarker(r))
        BY <3>1, <4>1 DEF UnknownMarker, Credible, Faithful, FaithfulTo
      <4> QED
        BY <3>3, <4>2, <4>3 DEF Sound, GetWorkflowRun
    <3> QED
      BY <3>2, <3>3
  <2>2. /\ pc[s] = "stale" /\ found' = [found EXCEPT ![s] = {GetWorkflowRun(r)}]
        /\ zombies' = [zombies EXCEPT ![s] = zombies[s] \ {r}]
        /\ UNCHANGED <<bootstrapped, pc, agenda, stamp, todo, listing, queuedFound,
                       scanned, activeRunIDs, closing>>
    BY <1>6 DEF FetchZombie
  <2>3. zombies[s] \ {r} \subseteq Runs /\ \A x \in zombies[s] \ {r} : Known(x)
    BY <1>3
  <2> QED
    BY <1>1, <1>2, <1>3, <2>1, <2>2, <2>3, MidSweepInv
<1>7. CASE FetchFails(s)
  <2>1. PICK r \in zombies[s] : zombies' = [zombies EXCEPT ![s] = zombies[s] \ {r}]
    BY <1>7 DEF FetchFails
  <2>2. /\ pc[s] = "stale"
        /\ UNCHANGED <<bootstrapped, pc, agenda, stamp, todo, listing, queuedFound, found,
                       scanned, activeRunIDs, closing>>
    BY <1>7 DEF FetchFails
  <2>3. zombies[s] \ {r} \subseteq Runs /\ \A x \in zombies[s] \ {r} : Known(x)
    BY <1>3
  <2> QED
    BY <1>1, <1>2, <1>3, <2>1, <2>2, <2>3, MidSweepInv
<1>8. CASE StoreFails(s)
  <2>1. PICK o \in NextToStore(s) : TakeFound(s, o)
    BY <1>8 DEF StoreFails
  <2> QED
    BY <1>1, <2>1, TakeFoundInv
<1>9. CASE Seed(s)
  <2>1. PICK t \in {Repos, {}} : todo' = [todo EXCEPT ![s] = t]
    BY <1>9 DEF Seed
  <2>2. /\ pc[s] = "seeding" /\ pc' = [pc EXCEPT ![s] = "bootstrap"]
        /\ UNCHANGED <<bootstrapped, agenda, stamp, zombies, listing, queuedFound, found,
                       scanned, activeRunIDs, closing>>
    BY <1>9 DEF Seed
  <2>3. t \subseteq Repos
    OBVIOUS
  <2>4. /\ "bootstrap" \in {"listing", "history", "bootstrap", "stale"}
        /\ pc[s] \in {"bootstrap", "seeding", "bootstrap"}
    BY <2>2
  <2> QED
    BY <1>1, <1>2, <1>3, <2>1, <2>2, <2>3, <2>4, MidSweepInv
<1>10. CASE Requery(s)
  <2>1. /\ pc[s] = "bootstrap" /\ pc' = [pc EXCEPT ![s] = "listing"]
        /\ todo' = [todo EXCEPT ![s] = RecentlyActiveRepos(stamp[s])]
        /\ UNCHANGED <<bootstrapped, agenda, stamp, zombies, listing, queuedFound, found,
                       scanned, activeRunIDs, closing>>
    BY <1>10 DEF Requery
  <2>2. RecentlyActiveRepos(stamp[s]) \subseteq Repos
    BY RunsAssumption DEF RecentlyActiveRepos
  <2> QED
    BY <1>1, <1>2, <1>3, <2>1, <2>2, MidSweepInv
<1> QED
  BY <1>5, <1>6, <1>7, <1>8, <1>9, <1>10 DEF Continues

\* A step in the middle of pollWorkflowRuns that lists a repository or selects
\* rows to close, provided that no steady run is missed.
LEMMA ListingInv ==
  ASSUME Inv, NEW s \in Sweepers, OwnOnly(s), Observe(s), UNCHANGED <<orgVars, rows>>,
         UNCHANGED <<bootstrapped, agenda, zombies>>,
         pc[s] \in {"listing", "listing2"}, pc'[s] \in {"listing", "listing2", "closing"},
         todo'[s] \subseteq Repos, listing'[s] \subseteq Repos,
         Sound(queuedFound'[s]), Sound(found'[s]),
         scanned'[s] \subseteq Repos, activeRunIDs'[s] \subseteq Runs,
         closing'[s] \subseteq Runs, closing'[s] \cap steady[s] = {}, stamp'[s] \in Int,
         IF pc'[s] = "closing" THEN stamp'[s] \in Time ELSE closing'[s] = {},
         \A r \in steady[s] :
           /\ RepoOf[r] \in scanned'[s] => r \in activeRunIDs'[s]
           /\ pc'[s] = "listing2" /\ RepoOf[r] \in listing'[s] =>
                gh[r].status = "in_progress" \/ r \in RunsIn(queuedFound'[s])
  PROVE  Inv'
<1>1. steady'[s] = steady[s] /\ agenda[s] # <<>>
  BY Own, InvFunctional DEF Observe, Functional
<1>2. OwnTyped(s)
  BY <1>1, Own, SeedingsCounted DEF OwnTyped
<1>3. \A r \in steady[s] : r \in ActiveOnGitHub
  BY DEF Inv, EvidenceOK
<1>4. OwnOK(s)
  BY <1>1, <1>3 DEF OwnOK
<1>5. rows' \in [Runs -> Row] /\ RowsOK'
  BY DEF Inv, TypeOK, RowsOK, FinalWord, Known, FirstAttempt, Finished, orgVars
<1> QED
  BY <1>2, <1>4, <1>5, SweeperStep

\* A run that is active is in the list of its status.
LEMMA ActiveRunsAreListed ==
  ASSUME GhOK, NEW r \in ActiveOnGitHub
  PROVE  r \in RunsIn(Listed(RepoOf[r], gh[r].status))
<1>1. r \in Runs /\ gh[r].listed = gh[r].status
  BY DEF GhOK, RunOK, ActiveOnGitHub
<1>2. RestView(r) \in Listed(RepoOf[r], gh[r].status) /\ RestView(r).run = r
  BY <1>1 DEF Listed, RestView, Payload
<1> QED
  BY <1>2 DEF RunsIn

LEMMA ListQueuedInv ==
  ASSUME Inv, NEW s \in Sweepers, Observe(s), UNCHANGED <<orgVars, rows>>,
         NEW p \in Repos, ListQueued(s, p)
  PROVE  Inv'
<1>1. Functional /\ OwnOnly(s)
  BY InvFunctional DEF ListQueued, Observe, OwnOnly, Functional
<1>2. /\ pc[s] = "listing" /\ pc'[s] = "listing2" /\ todo'[s] = todo[s] \ {p}
      /\ listing'[s] = {p} /\ queuedFound'[s] = Listed(p, "queued")
      /\ UNCHANGED <<bootstrapped, agenda, stamp, zombies, found, scanned, activeRunIDs, closing>>
  BY <1>1 DEF ListQueued, Functional
<1>3. Sound(queuedFound'[s])
  BY <1>2, ListedIsSound DEF Inv, ActiveStatus
<1>4. \A r \in steady[s] :
        /\ RepoOf[r] \in scanned[s] => r \in activeRunIDs[s]
        /\ RepoOf[r] = p => gh[r].status = "in_progress" \/ r \in RunsIn(Listed(p, "queued"))
  BY ActiveRunsAreListed DEF Inv, EvidenceOK, ActiveOnGitHub, ActiveStatus
<1> QED
  BY <1>1, <1>2, <1>3, <1>4, Own, ListingInv

LEMMA ListInProgressInv ==
  ASSUME Inv, NEW s \in Sweepers, Observe(s), UNCHANGED <<orgVars, rows>>, ListInProgress(s)
  PROVE  Inv'
<1>1. Functional /\ OwnOnly(s)
  BY InvFunctional DEF ListInProgress, Observe, OwnOnly, Functional
<1>2. PICK p \in listing[s] :
        /\ found'[s] = Listed(p, "in_progress") /\ scanned'[s] = scanned[s] \cup {p}
        /\ activeRunIDs'[s] =
             activeRunIDs[s] \cup RunsIn(queuedFound[s]) \cup RunsIn(Listed(p, "in_progress"))
  BY <1>1 DEF ListInProgress, Functional
<1>3. /\ pc[s] = "listing2" /\ pc'[s] = "listing" /\ listing'[s] = {}
      /\ UNCHANGED <<bootstrapped, agenda, stamp, todo, zombies, queuedFound, closing>>
  BY <1>1 DEF ListInProgress, Functional
<1>4. Sound(found'[s])
  BY <1>2, ListedIsSound DEF Inv, ActiveStatus
<1>5. \A r \in steady[s] : RepoOf[r] \in scanned'[s] => r \in activeRunIDs'[s]
  <2> TAKE r \in steady[s]
  <2>1. /\ RepoOf[r] \in scanned[s] => r \in activeRunIDs[s]
        /\ RepoOf[r] = p => gh[r].status = "in_progress" \/ r \in RunsIn(queuedFound[s])
        /\ r \in ActiveOnGitHub
    BY <1>3 DEF Inv, EvidenceOK
  <2>2. gh[r].status = "in_progress" => r \in RunsIn(Listed(RepoOf[r], "in_progress"))
    BY <2>1, ActiveRunsAreListed DEF Inv
  <2> QED
    BY <1>2, <2>1, <2>2
<1>6. activeRunIDs'[s] \subseteq Runs /\ scanned'[s] \subseteq Repos
  <2>1. Sound(queuedFound[s]) /\ Sound(Listed(p, "in_progress"))
    BY <1>2, <1>4, Own
  <2>2. \A obs : Sound(obs) => RunsIn(obs) \subseteq Runs
    BY DEF Sound, RunsIn, Observation
  <2> QED
    BY <1>2, <2>1, <2>2, Own
<1>7. closing'[s] = {} /\ closing'[s] \cap steady[s] = {} /\ listing'[s] \subseteq Repos
  BY <1>3, Own
<1> QED
  BY <1>1, <1>3, <1>4, <1>5, <1>6, <1>7, Own, ListingInv

LEMMA ListActiveFailsInv ==
  ASSUME Inv, NEW s \in Sweepers, Observe(s), UNCHANGED <<orgVars, rows>>, ListActiveFails(s)
  PROVE  Inv'
<1>1. Functional /\ OwnOnly(s)
  BY InvFunctional DEF ListActiveFails, Observe, OwnOnly, Functional
<1>2. todo'[s] \subseteq Repos
  BY <1>1, Own DEF ListActiveFails, Functional
<1>3. /\ pc[s] \in {"listing", "listing2"} /\ pc'[s] = "listing" /\ listing'[s] = {}
      /\ queuedFound'[s] = {}
      /\ UNCHANGED <<bootstrapped, agenda, stamp, zombies, found, scanned, activeRunIDs, closing>>
  BY <1>1 DEF ListActiveFails, Functional
<1>4. \A r \in steady[s] : RepoOf[r] \in scanned[s] => r \in activeRunIDs[s]
  BY DEF Inv, EvidenceOK
<1>5. Sound(queuedFound'[s]) /\ listing'[s] \subseteq Repos
  BY <1>3 DEF Sound
<1>6. closing'[s] = {} /\ closing'[s] \cap steady[s] = {}
  BY <1>3, Own
<1> QED
  BY <1>1, <1>2, <1>3, <1>4, <1>5, <1>6, Own, ListingInv

LEMMA SelectStaleInv ==
  ASSUME Inv, NEW s \in Sweepers, Observe(s), UNCHANGED <<orgVars, rows>>, SelectStale(s)
  PROVE  Inv'
<1>1. Functional /\ OwnOnly(s)
  BY InvFunctional DEF SelectStale, Observe, OwnOnly, Functional
<1>2. /\ pc[s] = "listing" /\ pc'[s] = "closing" /\ stamp'[s] = Now
      /\ closing'[s] = StaleActiveRuns(scanned[s], activeRunIDs[s])
      /\ UNCHANGED <<bootstrapped, agenda, todo, zombies, listing, queuedFound, found,
                     scanned, activeRunIDs>>
  BY <1>1 DEF SelectStale, Functional
<1>3. closing'[s] \subseteq Runs
  BY <1>2 DEF StaleActiveRuns, ActiveRows
<1>4. \A r \in steady[s] : RepoOf[r] \in scanned[s] => r \in activeRunIDs[s]
  BY DEF Inv, EvidenceOK
<1>5. closing'[s] \cap steady[s] = {}
  BY <1>2, <1>4 DEF StaleActiveRuns
<1>6. stamp'[s] \in Time /\ stamp'[s] \in Int
  BY <1>2, NowIsTime DEF Inv, TypeOK, Time
<1> QED
  BY <1>1, <1>2, <1>3, <1>4, <1>5, <1>6, Own, ListingInv

LEMMA CloseOneInv ==
  ASSUME Inv, NEW s \in Sweepers, Observe(s), UNCHANGED orgVars, CloseOne(s)
  PROVE  Inv'
<1>1. PICK r \in closing[s] : /\ rows' = [rows EXCEPT ![r] = Closed(rows[r], stamp[s])]
                             /\ closing' = [closing EXCEPT ![s] = closing[s] \ {r}]
  BY DEF CloseOne, CloseStaleActiveRun
<1>2. /\ pc[s] = "closing"
      /\ UNCHANGED <<bootstrapped, pc, agenda, stamp, todo, zombies, listing, queuedFound,
                     found, scanned, activeRunIDs>>
  BY DEF CloseOne
<1>3. /\ stamp[s] \in Time /\ closing[s] \subseteq Runs /\ closing[s] \cap steady[s] = {}
      /\ pc = [pc EXCEPT ![s] = pc[s]] /\ stamp = [stamp EXCEPT ![s] = stamp[s]]
      /\ rows \in [Runs -> Row]
  BY <1>2, Own DEF Inv, TypeOK, EvidenceOK
<1>4. rows' \in [Runs -> Row]
  BY <1>1, <1>3, ClosedType
<1>5. RowsOK'
  <2> SUFFICES ASSUME NEW x \in Runs
               PROVE  FinalWord(x, rows'[x]) /\ (rows'[x].status # "absent" => Known(x))
    BY DEF RowsOK, FinalWord, Known, FirstAttempt, Finished, orgVars
  <2>1. FinalWord(x, rows[x]) /\ (rows[x].status # "absent" => Known(x))
    BY DEF Inv, RowsOK
  <2>2. CASE rows'[x] = rows[x]
    BY <2>1, <2>2
  <2>3. CASE x = r /\ rows[r].status \in ActiveStatus
    <3>1. rows'[x].status = "unknown"
      BY <1>1, <1>3, <2>3 DEF Closed
    <3> QED
      BY <2>1, <2>3, <3>1 DEF FinalWord, ActiveStatus
  <2> QED
    BY <1>1, <1>3, <2>2, <2>3 DEF Closed
<1>6. OwnOnly(s)
  BY <1>2, InvFunctional DEF CloseOne, Observe, OwnOnly, Functional
<1>7. closing'[s] = closing[s] \ {r} /\ steady'[s] = steady[s]
  BY <1>1, <1>2, InvFunctional DEF Observe, Functional
<1>8. OwnTyped(s)
  BY <1>2, <1>3, <1>7, Own, SeedingsCounted DEF OwnTyped
<1>9. OwnOK(s)
  <2>1. \A x \in steady[s] :
          x \in ActiveOnGitHub /\ (RepoOf[x] \in scanned[s] => x \in activeRunIDs[s])
    BY DEF Inv, EvidenceOK
  <2> QED
    BY <1>2, <1>3, <1>7, <2>1, Own DEF OwnOK
<1> QED
  BY <1>4, <1>5, <1>6, <1>8, <1>9, SweeperStep

LEMMA StoreFoundInv ==
  ASSUME Inv, NEW s \in Sweepers, Observe(s), UNCHANGED orgVars, StoreFound(s)
  PROVE  Inv'
<1>1. PICK o \in NextToStore(s) : TakeFound(s, o) /\ UpsertWorkflowRun(o, Now)
  BY DEF StoreFound
<1>2. o \in Observation /\ Credible(o)
  BY <1>1, Own DEF NextToStore, Sound
<1>3. rows' \in [Runs -> Row] /\ RowsOK'
  BY <1>1, <1>2, UpsertInv DEF Inv, orgVars
<1> QED
  BY <1>1, <1>3, TakeFoundInv

\* Every step of a sweeper preserves the invariant.
LEMMA SweepInv ==
  ASSUME Inv, NEW s \in Sweepers, Sweep(s)
  PROVE  Inv'
<1>1. Observe(s) /\ UNCHANGED orgVars
  BY DEF Sweep, Succeeds, Breaks
<1>2. ASSUME EndSweep(s), UNCHANGED rows, agenda[s] # <<>>
      PROVE  Inv'
  BY <1>1, <1>2, EndSweepInv
<1>3. pc[s] # "idle" => agenda[s] # <<>>
  BY Own
<1>4. ASSUME Reads(s), UNCHANGED rows
      PROVE  Inv'
  <2>1. CASE EndWorkflowSweep(s) \/ EndHistorySweep(s) \/ EndStaleSweep(s)
    BY <1>2, <1>3, <1>4, <2>1 DEF EndWorkflowSweep, EndHistorySweep, EndStaleSweep
  <2>2. CASE StartWorkflowSweep(s) \/ StartHistorySweep(s) \/ StartStaleSweep(s)
    BY <1>1, <1>4, <2>2, StartInv
  <2>3. CASE Lists(s)
    BY <1>1, <1>4, <2>3, ListQueuedInv, ListInProgressInv, ContinueInv DEF Lists, Continues
  <2>4. CASE Seed(s) \/ Requery(s)
    BY <1>1, <1>4, <2>4, ContinueInv DEF Continues
  <2>5. CASE SelectStale(s)
    BY <1>1, <1>4, <2>5, SelectStaleInv
  <2> QED
    BY <1>4, <2>1, <2>2, <2>3, <2>4, <2>5 DEF Reads
<1>5. CASE Writes(s)
  BY <1>1, <1>5, StoreFoundInv, CloseOneInv DEF Writes
<1>6. ASSUME Fails(s), UNCHANGED rows
      PROVE  Inv'
  <2>1. CASE SkipSweep(s) \/ CloseFails(s) \/ RequeryFails(s)
    BY <1>2, <1>3, <1>6, <2>1 DEF SkipSweep, CloseFails, RequeryFails
  <2>2. CASE ListActiveFails(s)
    BY <1>1, <1>6, <2>2, ListActiveFailsInv
  <2>3. CASE FetchFails(s) \/ StoreFails(s)
    BY <1>1, <1>6, <2>3, ContinueInv DEF Continues
  <2> QED
    BY <1>6, <2>1, <2>2, <2>3 DEF Fails
<1> QED
  BY <1>4, <1>5, <1>6 DEF Sweep, Succeeds, Breaks

(***************************************************************************)
(* The theorems.                                                           *)
(***************************************************************************)
LEMMA InitInv == Init => Inv
<1> SUFFICES ASSUME Init PROVE Inv
  OBVIOUS
<1>1. TypeOK
  <2>1. <<"workflow", "stale">> \in Seq({"workflow", "history", "stale"})
        /\ <<>> \in Seq({"workflow", "history", "stale"})
    OBVIOUS
  <2>2. NoRow \in Row
    BY DEF NoRow, Row, RowStatus, AnyConclusion
  <2>3. gh \in [Runs -> GhRun]
    BY DEF Init, OrgInit, GhRun, AnyConclusion, Time
  <2>4. clock \in 0..MaxClock
    <3>1. clock = 0 /\ MaxClock \in Nat
      BY OrgAssumption DEF Init, OrgInit
    <3> QED
      BY <3>1
  <2>5. events \subseteq Observation /\ rows \in [Runs -> Row]
    BY <2>2 DEF Init, OrgInit, StoreInit
  <2>6. /\ bootstrapped \in BOOLEAN
        /\ pc \in [Sweepers -> {"idle", "seeding", "bootstrap", "listing", "listing2",
                                "closing", "history", "stale"}]
        /\ agenda \in [Sweepers -> Seq({"workflow", "history", "stale"})]
        /\ stamp \in [Sweepers -> Int]
    <3>1. bootstrapped \in BOOLEAN
      BY DEF Init, PollerInit, Idle
    <3>4. stamp \in [Sweepers -> Int]
      BY DEF Init, PollerInit, Idle
    <3>2. pc \in [Sweepers -> {"idle", "seeding", "bootstrap", "listing", "listing2",
                               "closing", "history", "stale"}]
      BY DEF Init, PollerInit, Idle
    <3>3. agenda \in [Sweepers -> Seq({"workflow", "history", "stale"})]
      BY <2>1 DEF Init, PollerInit, AtStartup
    <3> QED
      BY <3>1, <3>2, <3>3, <3>4
  <2> QED
    BY <2>3, <2>4, <2>5, <2>6 DEF TypeOK, Init, PollerInit, Nothing
<1>2. GhOK
  <2>1. GhTime(clock) = 0
    <3>1. clock = 0
      BY DEF Init, OrgInit
    <3> QED
      BY <3>1 DEF GhTime
  <2> SUFFICES ASSUME NEW r \in Runs PROVE RunOK(gh[r])
    BY DEF GhOK
  <2>2. /\ gh[r].status = "none" /\ gh[r].listed = "none" /\ gh[r].conclusion = ""
        /\ gh[r].attempt = 0 /\ gh[r].updatedAt = 0
    BY DEF Init, OrgInit
  <2>4. gh[r].updatedAt = 0
    BY <2>2
  <2>3. gh[r].updatedAt <= GhTime(clock)
    BY ONLY <2>1, <2>4
  <2> QED
    BY <2>2, <2>3 DEF RunOK, GhStatus, ActiveStatus
<1>3. ObservationsOK
  BY DEF Init, OrgInit, PollerInit, Nothing, ObservationsOK
<1>4. RowsOK
  BY DEF Init, StoreInit, RowsOK, FinalWord, NoRow
<1>5. SweepsOK /\ EvidenceOK
  BY DEF Init, PollerInit, Idle, Nothing, SweepsOK, EvidenceOK
<1> QED
  BY <1>1, <1>2, <1>3, <1>4, <1>5 DEF Inv

LEMMA RestartInv ==
  ASSUME Inv, Restart
  PROVE  Inv'
<1>1. UNCHANGED <<orgVars, rows>> /\ PollerRestart /\ steady' = Nothing /\ seedings' = 0
  BY DEF Restart
<1>2. TypeOK'
  <2>1. agenda' \in [Sweepers -> Seq({"workflow", "history", "stale"})]
    <3>1. /\ <<"workflow", "stale">> \in Seq({"workflow", "history", "stale"})
          /\ <<>> \in Seq({"workflow", "history", "stale"})
      OBVIOUS
    <3> QED
      BY <1>1, <3>1 DEF PollerRestart, AtStartup
  <2>2. /\ bootstrapped' \in BOOLEAN
        /\ pc' \in [Sweepers -> {"idle", "seeding", "bootstrap", "listing", "listing2",
                                 "closing", "history", "stale"}]
        /\ stamp' \in [Sweepers -> Int]
    <3>1. bootstrapped' \in BOOLEAN
      BY <1>1 DEF PollerRestart
    <3>2. pc' \in [Sweepers -> {"idle", "seeding", "bootstrap", "listing", "listing2",
                               "closing", "history", "stale"}]
      BY <1>1 DEF PollerRestart, Idle
    <3>3. stamp' \in [Sweepers -> Int]
      BY <1>1 DEF PollerRestart
    <3> QED
      BY <3>1, <3>2, <3>3
  <2>3. /\ clock' \in 0..MaxClock /\ gh' \in [Runs -> GhRun] /\ events' \subseteq Observation
        /\ rows' \in [Runs -> Row]
    BY <1>1 DEF Inv, TypeOK, orgVars
  <2> QED
    BY <1>1, <2>1, <2>2, <2>3 DEF TypeOK, PollerRestart, Nothing
<1>3. GhOK' /\ RowsOK'
  BY <1>1 DEF Inv, GhOK, RunOK, RowsOK, FinalWord, FirstAttempt, Finished, Known, orgVars
<1>4. ObservationsOK'
  BY <1>1 DEF Inv, ObservationsOK, Credible, Known, FirstAttempt, Faithful, orgVars,
    PollerRestart, Nothing
<1>5. SweepsOK' /\ EvidenceOK'
  BY <1>1 DEF PollerRestart, Idle, Nothing, SweepsOK, EvidenceOK
<1> QED
  BY <1>2, <1>3, <1>4, <1>5 DEF Inv

LEMMA NextInv == Inv /\ [Next]_vars => Inv'
<1> SUFFICES ASSUME Inv, [Next]_vars PROVE Inv'
  OBVIOUS
<1>1. CASE Environment
  BY <1>1, EnvironmentInv
<1>2. CASE Deliver
  BY <1>2, DeliverInv
<1>3. CASE Scheduling
  BY <1>3, SchedulingInv
<1>4. CASE \E s \in Sweepers : Sweep(s)
  BY <1>4, SweepInv
<1>5. CASE Restart
  BY <1>5, RestartInv
<1>6. CASE UNCHANGED vars
  <2>1. UNCHANGED <<clock, gh, events, rows, pollerVars, steady, seedings>>
    BY <1>6 DEF vars, orgVars
  <2>2. TypeOK'
    BY <2>1 DEF Inv, TypeOK, pollerVars
  <2>3. GhOK' /\ ObservationsOK' /\ RowsOK'
    BY <2>1 DEF Inv, GhOK, RunOK, ObservationsOK, Credible, Known, FirstAttempt, Faithful,
      RowsOK, FinalWord, Finished, pollerVars
  <2>4. SweepsOK' /\ EvidenceOK'
    BY <2>1 DEF Inv, SweepsOK, Known, EvidenceOK, ActiveOnGitHub, pollerVars
  <2> QED
    BY <2>2, <2>3, <2>4 DEF Inv
<1> QED
  BY <1>1, <1>2, <1>3, <1>4, <1>5, <1>6 DEF Next

\* The invariant holds in every state the monitor reaches.
THEOREM Invariance == Spec => []Inv
BY InitInv, NextInv, PTL DEF Spec

\* Every variable has its type: no sweep, delivery or failure leaves a row or a
\* sweeper's local variable outside of what the code can hold.
THEOREM TypeCorrectness == Spec => []TypeOK
<1>1. Inv => TypeOK
  BY DEF Inv
<1> QED
  BY <1>1, Invariance, PTL

\* A row that says completed tells GitHub's truth about a run never re-run, for
\* any number of runs, repositories and overlapping sweeps.
THEOREM CompletedTruth == Spec => []CompletedRowsAreTrue
<1>1. Inv => CompletedRowsAreTrue
  BY DEF Inv, RowsOK, FinalWord, CompletedRowsAreTrue
<1> QED
  BY <1>1, Invariance, PTL

\* CloseStaleActiveRuns never selects a run that has been active on GitHub ever
\* since the sweep began.
THEOREM EvidenceBeforeClosing == Spec => []ClosesOnlyWithEvidence
<1>1. Inv => ClosesOnlyWithEvidence
  BY DEF Inv, EvidenceOK, ClosesOnlyWithEvidence
<1> QED
  BY <1>1, Invariance, PTL

\* What a step may do to the table: nothing, one upsert of a credible observation,
\* or the closing of one row.
LEMMA RowSteps ==
  ASSUME Inv, [Next]_vars
  PROVE  \/ UNCHANGED rows
         \/ /\ UNCHANGED gh
            /\ \E o \in Observation : Credible(o) /\ UpsertWorkflowRun(o, Now)
         \/ /\ UNCHANGED gh
            /\ \E r \in Runs, at \in Time : CloseStaleActiveRun(r, at)
<1>1. CASE Deliver
  BY <1>1 DEF Deliver, HandleWorkflowRun, Inv, TypeOK, ObservationsOK, orgVars
<1>2. ASSUME NEW s \in Sweepers, StoreFound(s), UNCHANGED orgVars
      PROVE  UNCHANGED gh /\ \E o \in Observation : Credible(o) /\ UpsertWorkflowRun(o, Now)
  BY <1>2, Own DEF StoreFound, NextToStore, Sound, orgVars
<1>3. ASSUME NEW s \in Sweepers, CloseOne(s), UNCHANGED orgVars
      PROVE  UNCHANGED gh /\ \E r \in Runs, at \in Time : CloseStaleActiveRun(r, at)
  BY <1>3, Own DEF CloseOne, orgVars
<1>4. CASE \E s \in Sweepers : Sweep(s)
  BY <1>2, <1>3, <1>4 DEF Sweep, Succeeds, Breaks, Writes
<1> QED
  BY <1>1, <1>4 DEF Next, Environment, Scheduling, Restart, vars

\* No upsert and no closing takes back the completion of a run with times.
LEMMA CompletionStands ==
  ASSUME Inv, [Next]_vars, NEW r \in Runs \ OmitsTime,
         rows[r].status = "completed", rows'[r].status # "completed"
  PROVE  ~FirstAttempt(r) \/ gh[r].status = "deleted"
<1> SUFFICES ASSUME FirstAttempt(r) PROVE gh[r].status = "deleted"
  OBVIOUS
<1>1. /\ rows \in [Runs -> Row] /\ gh \in [Runs -> GhRun] /\ Now \in Time
      /\ rows[r].updatedAt = gh[r].updatedAt
  BY NowIsTime DEF Inv, TypeOK, RowsOK, FinalWord
<1>2. ASSUME NEW x \in Runs, NEW at \in Time, CloseStaleActiveRun(x, at)
      PROVE  FALSE
  BY <1>1, <1>2 DEF CloseStaleActiveRun, Closed, ActiveStatus
<1>3. ASSUME NEW o \in Observation, Credible(o), UpsertWorkflowRun(o, Now)
      PROVE  gh[r].status = "deleted"
  <2>1. o.run = r /\ rows'[r] = Upserted(rows[r], Stamped(o, Now))
    BY <1>1, <1>3 DEF UpsertWorkflowRun
  <2>2. Faithful(o) /\ rows[r] \in Row
    BY <1>1, <1>3, <2>1 DEF Credible
  <2> QED
    BY <1>1, <1>3, <2>1, <2>2, UpsertKeepsCompletion
<1> QED
  BY <1>2, <1>3, RowSteps

\* Nothing but a re-run or a deletion takes a completion back.
THEOREM CompletionIsFinal == Spec => CompletedIsFinal
<1>1. Inv /\ [Next]_vars =>
        \A r \in Runs \ OmitsTime :
          rows[r].status = "completed" /\ rows'[r].status # "completed" =>
            ~FirstAttempt(r) \/ gh[r].status = "deleted"
  BY CompletionStands
<1> QED
  BY <1>1, Invariance, PTL DEF Spec, CompletedIsFinal

\* A finished run whose row is settled is never counted as active again.
THEOREM SettledStaysSettled == Spec => NoResurrection
<1> DEFINE Stays == \A r \in Runs \ OmitsTime :
             FirstAttempt(r) /\ Settled(r) => rows'[r].status \notin ActiveStatus
<1>1. Inv /\ [Next]_vars => Stays
  <2> SUFFICES ASSUME Inv, [Next]_vars, NEW r \in Runs \ OmitsTime,
                      FirstAttempt(r), Settled(r)
               PROVE  rows'[r].status \notin ActiveStatus
    OBVIOUS
  <2>1. /\ rows \in [Runs -> Row] /\ gh \in [Runs -> GhRun] /\ Now \in Time
        /\ rows[r].status \in {"completed", "unknown"}
        /\ rows[r].updatedAt >= gh[r].updatedAt
    BY NowIsTime DEF Inv, TypeOK, Settled
  <2>2. rows[r].status \notin ActiveStatus /\ rows[r].updatedAt \in Int
    BY <2>1 DEF ActiveStatus, Row, Time, NoTime
  <2>3. ASSUME NEW x \in Runs, NEW at \in Time, CloseStaleActiveRun(x, at)
        PROVE  rows'[r] = rows[r]
    BY <2>1, <2>2, <2>3 DEF CloseStaleActiveRun, Closed
  <2>4. ASSUME NEW o \in Observation, Credible(o), UpsertWorkflowRun(o, Now)
        PROVE  rows'[r].status \notin ActiveStatus
    <3>1. CASE o.run # r
      BY <2>1, <2>2, <2>4, <3>1 DEF UpsertWorkflowRun
    <3>2. CASE o.run = r
      <4>1. rows'[r] = Upserted(rows[r], Stamped(o, Now)) /\ Faithful(o) /\ rows[r] \in Row
        BY <2>1, <2>4, <3>2 DEF UpsertWorkflowRun, Credible
      <4> QED
        BY <2>1, <2>2, <2>4, <3>2, <4>1, UpsertKeepsSettled
    <3> QED
      BY <3>1, <3>2
  <2> QED
    BY <2>2, <2>3, <2>4, RowSteps
<1> QED
  BY <1>1, Invariance, PTL DEF Spec, NoResurrection

\* A sweeper's step starts a seeding only where none was claimed (StartWorkflowSweep),
\* and then claims it.
LEMMA SeedingSteps ==
  ASSUME Inv, NEW s \in Sweepers, Sweep(s)
  PROVE  \/ UNCHANGED <<bootstrapped, seedings>>
         \/ ~bootstrapped /\ bootstrapped' /\ seedings' = seedings + 1
<1>1. Functional /\ bootstrapped \in BOOLEAN /\ seedings \in Nat /\ Observe(s)
  BY InvFunctional, Own DEF Inv, TypeOK, Sweep, Succeeds, Breaks
<1>2. CASE StartWorkflowSweep(s)
  <2>1. \/ bootstrapped' = bootstrapped /\ pc'[s] = "listing"
        \/ ~bootstrapped /\ bootstrapped' /\ pc'[s] = "seeding" /\ pc[s] = "idle"
    BY <1>1, <1>2 DEF StartWorkflowSweep, Starting, Bootstraps, Functional
  <2> QED
    BY <1>1, <2>1 DEF Observe
<1>3. CASE \/ StartHistorySweep(s) \/ StartStaleSweep(s) \/ EndSweep(s)
           \/ Lists(s) \/ SelectStale(s) \/ ListActiveFails(s) \/ FetchFails(s)
  <2>1. bootstrapped' = bootstrapped /\ (pc'[s] = "seeding" => pc[s] = "seeding")
    BY <1>1, <1>3 DEF StartHistorySweep, StartStaleSweep, EndSweep, Lists, ListQueued,
      ListRecent, ListInProgress, FetchZombie, SelectStale, ListActiveFails, FetchFails, Functional
  <2> QED
    BY <1>1, <2>1 DEF Observe
<1>4. CASE Seed(s) \/ Requery(s)
  BY <1>1, <1>4 DEF Seed, Requery, Functional, Observe
<1>5. CASE Writes(s) \/ StoreFails(s)
  BY <1>1, <1>5 DEF Writes, StoreFound, StoreFails, TakeFound, CloseOne, Observe
<1> QED
  BY <1>2, <1>3, <1>4, <1>5 DEF Sweep, Succeeds, Breaks, Reads, Fails, SkipSweep, CloseFails,
    RequeryFails, EndWorkflowSweep, EndHistorySweep, EndStaleSweep

\* However many sweeps overlap or follow each other, a process begins to seed its
\* store at most once.
THEOREM BootstrapsOnce == Spec => []OneBootstrap
<1>1. Init => SeedingsOK
  BY DEF Init, PollerInit, SeedingsOK
<1>2. Inv /\ SeedingsOK /\ [Next]_vars => SeedingsOK'
  <2> SUFFICES ASSUME Inv, SeedingsOK, [Next]_vars PROVE SeedingsOK'
    OBVIOUS
  <2>1. CASE UNCHANGED <<bootstrapped, seedings>>
    BY <2>1 DEF SeedingsOK
  <2>2. CASE \E s \in Sweepers : Sweep(s)
    BY <2>2, SeedingSteps DEF SeedingsOK, Inv, TypeOK
  <2>3. CASE Restart
    BY <2>3 DEF Restart, PollerRestart, SeedingsOK
  <2> QED
    BY <2>1, <2>2, <2>3 DEF Next, Environment, Deliver, Scheduling, Schedule, TickerFires,
      RefreshNow, vars, pollerVars
<1>3. SeedingsOK => OneBootstrap
  BY DEF SeedingsOK, OneBootstrap
<1> QED
  BY <1>1, <1>2, <1>3, Invariance, PTL DEF Spec
=============================================================================
