--------------------------- MODULE RunBoardProofs ---------------------------
(***************************************************************************)
(* That the monitor implements RunBoard, for every set of runs and         *)
(* repositories, any number of attempts and of overlapping sweeps.  The    *)
(* invariant of MonitorProofs says of runs never re-run that what is under *)
(* way is true of them now; OutcomesOK says of all runs that it was true   *)
(* once, which is what an outcome on the board asks for.                   *)
(***************************************************************************)
EXTENDS MonitorProofs

(***************************************************************************)
(* Where the observations come from.                                       *)
(***************************************************************************)
Held(s) == queuedFound[s] \cup found[s]

\* What REST may say of a run at this moment, the marker for a 404 included.
Answer(o) ==
  \E r \in Runs : \/ o = UnknownMarker(r)
                  \/ o = RestView(r) /\ gh[r].listed \in GhStatus

LEMMA ListedAreAnswers ==
  ASSUME NEW p, NEW status \in ActiveStatus, NEW o \in Listed(p, status)
  PROVE  Answer(o)
BY DEF Listed, Answer, GhStatus

\* A sweeper holds what it held and what it has just been answered.
LEMMA HeldComesFromAnswers ==
  ASSUME Inv, NEW s \in Sweepers, Sweep(s), NEW x \in Sweepers, NEW o \in Held(x)'
  PROVE  o \in Held(x) \/ Answer(o)
<1> USE DEF Held
<1>1. Functional /\ GhOK
  BY InvFunctional DEF Inv
<1>2. CASE UNCHANGED <<queuedFound, found>>
  BY <1>2
<1>3. ASSUME NEW p \in Repos, ListQueued(s, p)
      PROVE  o \in Held(x) \/ Answer(o)
  <2>1. /\ queuedFound' = [queuedFound EXCEPT ![s] = Listed(p, "queued")]
        /\ found' = found
    BY <1>3 DEF ListQueued
  <2> QED
    BY <1>1, <2>1, ListedAreAnswers DEF Functional, ActiveStatus
<1>4. CASE ListInProgress(s)
  <2>1. PICK p \in listing[s] :
          /\ found' = [found EXCEPT ![s] = Listed(p, "in_progress")]
          /\ queuedFound' = queuedFound
    BY <1>4 DEF ListInProgress
  <2> QED
    BY <1>1, <2>1, ListedAreAnswers DEF Functional, ActiveStatus
<1>5. ASSUME NEW p \in Repos, ListRecent(s, p)
      PROVE  o \in Held(x) \/ Answer(o)
  <2>1. PICK page \in SUBSET {r \in Runs : RepoOf[r] = p /\ Exists(r)} :
          /\ found' = [found EXCEPT ![s] = {RestView(r) : r \in page}]
          /\ queuedFound' = queuedFound
    BY <1>5 DEF ListRecent
  <2>2. \A r \in page : r \in Runs /\ gh[r].listed \in GhStatus
    BY <1>1 DEF Exists, GhOK, RunOK
  <2>3. CASE x # s
    BY <1>1, <2>1, <2>3 DEF Functional
  <2>4. CASE x = s /\ o \notin Held(x)
    <3>1. o \in {RestView(r) : r \in page}
      BY <1>1, <2>1, <2>4 DEF Functional
    <3> QED
      BY <2>2, <3>1 DEF Answer
  <2> QED
    BY <2>3, <2>4
<1>6. ASSUME NEW r \in Runs, FetchZombie(s, r)
      PROVE  o \in Held(x) \/ Answer(o)
  <2>1. /\ found' = [found EXCEPT ![s] = {GetWorkflowRun(r)}]
        /\ queuedFound' = queuedFound
    BY <1>6 DEF FetchZombie
  <2>2. Exists(r) => gh[r].listed \in GhStatus
    BY <1>1 DEF Exists, GhOK, RunOK
  <2>3. Answer(GetWorkflowRun(r))
    BY <2>2 DEF Answer, GetWorkflowRun
  <2> QED
    BY <1>1, <2>1, <2>3 DEF Functional
<1>7. CASE ListActiveFails(s)
  BY <1>1, <1>7 DEF ListActiveFails, Functional
<1>8. ASSUME NEW taken, TakeFound(s, taken)
      PROVE  o \in Held(x)
  BY <1>1, <1>8 DEF TakeFound, Functional
<1>9. CASE EndSweep(s) \/ StartWorkflowSweep(s) \/ StartHistorySweep(s) \/ StartStaleSweep(s)
  BY <1>9 DEF EndSweep, StartWorkflowSweep, StartHistorySweep, StartStaleSweep
<1>10. CASE Seed(s) \/ Requery(s) \/ SelectStale(s) \/ FetchFails(s) \/ CloseOne(s)
  BY <1>10 DEF Seed, Requery, SelectStale, FetchFails, CloseOne
<1>11. CASE StoreFound(s) \/ StoreFails(s)
  BY <1>8, <1>11 DEF StoreFound, StoreFails
<1> QED
  BY <1>3, <1>4, <1>5, <1>6, <1>7, <1>9, <1>10, <1>11 DEF Sweep, Succeeds, Breaks, Reads,
    Writes, Lists, Fails, SkipSweep, CloseFails, RequeryFails, EndWorkflowSweep,
    EndHistorySweep, EndStaleSweep

\* What a step may write: nothing, an observation that was delivered or is held by
\* a sweeper, or the closing of one row.
LEMMA RowWrites ==
  ASSUME Inv, [Next]_vars
  PROVE  \/ UNCHANGED rows
         \/ /\ UNCHANGED orgVars
            /\ \E o \in events \cup UNION {Held(s) : s \in Sweepers} :
                 UpsertWorkflowRun(o, Now)
         \/ /\ UNCHANGED orgVars
            /\ \E r \in Runs, at \in Time : CloseStaleActiveRun(r, at)
<1>1. CASE Deliver
  BY <1>1 DEF Deliver, HandleWorkflowRun
<1>2. ASSUME NEW s \in Sweepers, StoreFound(s)
      PROVE  \E o \in UNION {Held(x) : x \in Sweepers} : UpsertWorkflowRun(o, Now)
  <2>1. PICK o \in NextToStore(s) : UpsertWorkflowRun(o, Now)
    BY <1>2 DEF StoreFound
  <2>2. o \in Held(s)
    BY <2>1 DEF NextToStore, Held
  <2> QED
    BY <2>1, <2>2
<1>3. ASSUME NEW s \in Sweepers, CloseOne(s)
      PROVE  \E r \in Runs, at \in Time : CloseStaleActiveRun(r, at)
  BY <1>3, Own DEF CloseOne
<1>4. CASE \E s \in Sweepers : Sweep(s)
  BY <1>2, <1>3, <1>4 DEF Sweep, Succeeds, Breaks, Writes
<1> QED
  BY <1>1, <1>4 DEF Next, Environment, Scheduling, Restart, vars

(***************************************************************************)
(* That every conclusion known of was announced.                           *)
(***************************************************************************)
\* What was announced stays so: deliveries are sent once and for all.
LEMMA BackedSurvives ==
  ASSUME NEW o, Backed(o), events \subseteq events'
  PROVE  Backed(o)'
BY DEF Backed

\* Whichever status it is reported with, a conclusion is backed all the same.
LEMMA BackedForAnyStatus ==
  ASSUME NEW r \in Runs, NEW run, NEW status, run.conclusion # "",
         Backed(Payload(r, run, "completed"))
  PROVE  Backed(Payload(r, run, status))
BY DEF Backed, Payload

LEMMA AnswersAreBacked ==
  ASSUME Inv, OutcomesOK, NEW o, Answer(o)
  PROVE  Backed(o)
<1>1. PICK r \in Runs : \/ o = UnknownMarker(r)
                        \/ o = RestView(r) /\ gh[r].listed \in GhStatus
  BY DEF Answer
<1>2. CASE o = UnknownMarker(r)
  BY <1>2 DEF UnknownMarker, Backed
<1>3. CASE o = RestView(r)
  <2>1. RunOK(gh[r]) /\ gh[r] \in GhRun
    BY DEF Inv, TypeOK, GhOK
  <2>2. CASE gh[r].conclusion # ""
    BY <1>3, <2>2, BackedForAnyStatus DEF OutcomesOK, RestView
  <2>3. CASE gh[r].conclusion = ""
    <3>1. gh[r].listed # "completed"
      BY <2>1, <2>3 DEF RunOK, GhRun, GhStatus, ActiveStatus
    <3> QED
      BY <1>3, <2>3, <3>1 DEF RestView, Payload, Backed
  <2> QED
    BY <2>2, <2>3
<1> QED
  BY <1>1, <1>2, <1>3

\* A conclusion a run has after a change was there before, or has just been sent.
LEMMA RunChangeAnnounces ==
  ASSUME TypeOK, GhOK, NEW r \in Runs,
         \/ Trigger(r) \/ Approve(r) \/ Begin(r) \/ Finish(r)
         \/ Settle(r) \/ Rerun(r) \/ Delete(r)
  PROVE  \/ gh'[r].conclusion = ""
         \/ gh'[r].conclusion = gh[r].conclusion /\ gh'[r].updatedAt = gh[r].updatedAt
         \/ Payload(r, gh'[r], "completed") \in events'
<1>1. gh \in [Runs -> GhRun]
  BY DEF TypeOK
<1>2. CASE Trigger(r) \/ Approve(r) \/ Begin(r) \/ Rerun(r)
  <2>1. PICK status, attempt : Change(r, Moved(status, attempt))
    BY <1>2 DEF Trigger, Approve, Begin, Rerun
  <2> QED
    BY <1>1, <2>1 DEF Change, Moved
<1>3. CASE Finish(r)
  <2>1. PICK c \in Conclusions, listed \in {"completed"} \cup ActiveStatus :
          LET run == [status |-> "completed", listed |-> listed, conclusion |-> c,
                      updatedAt |-> GhTime(clock), attempt |-> gh[r].attempt]
          IN  Change(r, run) /\ Announce(r, run)
    BY <1>3 DEF Finish
  <2> QED
    BY <1>1, <2>1 DEF Change, Announce
<1>4. CASE Settle(r)
  BY <1>1, <1>4 DEF Settle, GhRun
<1>5. CASE Delete(r)
  BY <1>1, <1>5 DEF Delete, GhRun
<1> QED
  BY <1>2, <1>3, <1>4, <1>5

LEMMA EnvironmentOutcomes ==
  ASSUME Inv, OutcomesOK, Environment, Inv'
  PROVE  OutcomesOK'
<1>1. /\ TypeOK /\ GhOK /\ UNCHANGED <<rows, pollerVars>>
      /\ gh' \in [Runs -> GhRun] /\ \A r \in Runs : RunOK(gh[r])'
  BY DEF Inv, TypeOK, GhOK, Environment
<1>2. /\ events \subseteq events'
      /\ \A o \in events' \ events : \E r \in Runs : o = Payload(r, gh'[r], gh'[r].status)
      /\ \A r \in Runs :
           \/ gh'[r].conclusion = ""
           \/ gh'[r].conclusion = gh[r].conclusion /\ gh'[r].updatedAt = gh[r].updatedAt
           \/ Payload(r, gh'[r], "completed") \in events'
  <2>1. CASE Tick
    BY <2>1 DEF Tick
  <2>2. CASE RunChanges
    <3>1. PICK r \in Runs : \/ Trigger(r) \/ Approve(r) \/ Begin(r) \/ Finish(r)
                            \/ Settle(r) \/ Rerun(r) \/ Delete(r)
      BY <2>2 DEF RunChanges
    <3>2. gh' = [gh EXCEPT ![r] = gh'[r]] /\ Told(r, gh'[r])
      BY <1>1, <3>1, RunChangeAdvances
    <3>3. \A x \in Runs : x # r => gh'[x] = gh[x]
      BY <1>1, <3>2 DEF TypeOK
    <3> QED
      BY <1>1, <3>1, <3>2, <3>3, RunChangeAnnounces DEF Told
  <2> QED
    BY <2>1, <2>2 DEF Environment, OrgNext
<1>3. ASSUME NEW r \in Runs, gh'[r].conclusion # ""
      PROVE  Backed(Payload(r, gh[r], "completed"))'
  <2>1. CASE gh'[r].conclusion = gh[r].conclusion /\ gh'[r].updatedAt = gh[r].updatedAt
    <3>1. Backed(Payload(r, gh[r], "completed"))
      BY <1>3, <2>1 DEF OutcomesOK
    <3>2. Payload(r, gh'[r], "completed") = Payload(r, gh[r], "completed")
      BY <2>1 DEF Payload
    <3> QED
      BY <1>2, <3>1, <3>2 DEF Backed
  <2>2. CASE Payload(r, gh'[r], "completed") \in events'
    <3>1. gh'[r].updatedAt # NoTime
      BY <1>1 DEF GhRun, Time, NoTime
    <3> QED
      BY <1>3, <2>2, <3>1 DEF Backed, Payload
  <2> QED
    BY <1>2, <1>3, <2>1, <2>2
<1>4. ASSUME NEW o \in events'
      PROVE  Backed(o)'
  <2>1. CASE o \in events
    BY <1>2, <2>1, BackedSurvives DEF OutcomesOK
  <2>2. ASSUME NEW r \in Runs, o = Payload(r, gh'[r], gh'[r].status)
        PROVE  Backed(o)'
    <3>1. gh'[r].status = "completed" => gh'[r].conclusion # ""
      BY <1>1 DEF RunOK
    <3>2. gh'[r].updatedAt # NoTime
      BY <1>1 DEF GhRun, Time, NoTime
    <3> QED
      BY <1>4, <2>2, <3>1, <3>2 DEF Backed, Payload
  <2> QED
    BY <1>2, <2>1, <2>2
<1>5. \A s \in Sweepers : \A o \in queuedFound'[s] \cup found'[s] : Backed(o)'
  BY <1>1, <1>2, BackedSurvives DEF OutcomesOK, pollerVars
<1>6. CompletionsHappened'
  BY <1>1, <1>2 DEF OutcomesOK, CompletionsHappened
<1> QED
  BY <1>3, <1>4, <1>5, <1>6 DEF OutcomesOK

\* An upsert of a backed observation completes a row only with what was announced.
LEMMA UpsertCompletes ==
  ASSUME TypeOK, NEW o \in Observation, Backed(o), UpsertWorkflowRun(o, Now),
         rows'[o.run].status = "completed", rows'[o.run] # rows[o.run]
  PROVE  \E e \in events :
           /\ e.run = o.run /\ e.conclusion # "" /\ e.conclusion = rows'[o.run].conclusion
           /\ o.run \notin OmitsTime => e.updatedAt = rows'[o.run].updatedAt
<1> DEFINE row == rows'[o.run]
<1>1. row = RowFrom(Normalize(Stamped(o, Now)))
  BY DEF TypeOK, UpsertWorkflowRun, Upserted, Observation
<1>2. /\ row.conclusion = o.conclusion
      /\ row.status = IF o.conclusion # "" THEN "completed" ELSE o.status
      /\ row.updatedAt = IF o.updatedAt = NoTime THEN Now ELSE o.updatedAt
  <2>1. Now \in Time
    BY NowIsTime DEF TypeOK
  <2> QED
    BY <1>1, <2>1, StampedFields
<1>3. o.conclusion # "" \/ o.status = "completed"
  BY <1>2
<1>4. PICK e \in events :
        e.run = o.run /\ e.conclusion = o.conclusion /\ e.updatedAt = o.updatedAt
  BY <1>3 DEF Backed
<1>5. o.conclusion # "" /\ (o.run \notin OmitsTime => o.updatedAt # NoTime)
  BY <1>3 DEF Backed
<1> QED
  BY <1>2, <1>4, <1>5

LEMMA WritesOutcomes ==
  ASSUME Inv, OutcomesOK, [Next]_vars, ~Environment
  PROVE  CompletionsHappened'
<1>1. UNCHANGED events
  BY DEF Next, Deliver, Scheduling, Restart, Sweep, Succeeds, Breaks, orgVars, vars
<1>2. TypeOK
  BY DEF Inv
<1> SUFFICES ASSUME NEW r \in Runs, rows'[r].status = "completed"
             PROVE  \E e \in events :
                      /\ e.run = r /\ e.conclusion # "" /\ e.conclusion = rows'[r].conclusion
                      /\ r \notin OmitsTime => e.updatedAt = rows'[r].updatedAt
  BY <1>1 DEF CompletionsHappened
<1>3. CASE rows'[r] = rows[r]
  <2>1. CompletionsHappened /\ rows[r].status = "completed"
    BY <1>3 DEF OutcomesOK
  <2>2. PICK e \in events :
          /\ e.run = r /\ e.conclusion # "" /\ e.conclusion = rows[r].conclusion
          /\ r \notin OmitsTime => e.updatedAt = rows[r].updatedAt
    BY <2>1 DEF CompletionsHappened
  <2> QED
    BY <1>3, <2>2
<1>4. ASSUME NEW o \in events \cup UNION {Held(s) : s \in Sweepers},
             UpsertWorkflowRun(o, Now), rows'[r] # rows[r]
      PROVE  \E e \in events :
               /\ e.run = r /\ e.conclusion # "" /\ e.conclusion = rows'[r].conclusion
               /\ r \notin OmitsTime => e.updatedAt = rows'[r].updatedAt
  <2>1. o \in Observation /\ Backed(o)
    BY DEF Inv, TypeOK, OutcomesOK, Held
  <2>2. o.run = r
    BY <1>2, <1>4, <2>1 DEF UpsertWorkflowRun, TypeOK
  <2> QED
    BY <1>2, <1>4, <2>1, <2>2, UpsertCompletes
<1>5. ASSUME NEW x \in Runs, NEW at \in Time, CloseStaleActiveRun(x, at)
      PROVE  rows'[r] = rows[r]
  BY <1>2, <1>5 DEF CloseStaleActiveRun, Closed, TypeOK
<1> QED
  BY <1>3, <1>4, <1>5, RowWrites

LEMMA NextOutcomes ==
  ASSUME Inv, OutcomesOK, [Next]_vars
  PROVE  OutcomesOK'
<1>0. Inv'
  BY NextInv
<1>1. CASE Environment
  BY <1>0, <1>1, EnvironmentOutcomes
<1>2. CASE ~Environment
  <2>1. UNCHANGED <<gh, events>>
    BY <1>2 DEF Next, Deliver, Scheduling, Restart, Sweep, Succeeds, Breaks, orgVars, vars
  <2>2. \A o : Backed(o) <=> Backed(o)'
    BY <2>1 DEF Backed
  <2>3. \A s \in Sweepers : \A o \in queuedFound'[s] \cup found'[s] : Backed(o)
    <3>1. CASE UNCHANGED <<queuedFound, found>>
      BY <3>1 DEF OutcomesOK
    <3>2. CASE \E s \in Sweepers : Sweep(s)
      BY <3>2, HeldComesFromAnswers, AnswersAreBacked DEF Held, OutcomesOK
    <3>3. CASE Restart
      BY <3>3 DEF Restart, PollerRestart, Nothing
    <3> QED
      BY <1>2, <3>1, <3>2, <3>3 DEF Next, Deliver, Scheduling, Schedule, TickerFires,
        RefreshNow, vars, pollerVars
  <2>4. CompletionsHappened'
    BY <1>2, WritesOutcomes
  <2> QED
    BY <2>1, <2>2, <2>3, <2>4 DEF OutcomesOK
<1> QED
  BY <1>1, <1>2

\* Everything known of a finish was announced by GitHub, of runs with any number of
\* attempts, with or without times.
THEOREM OutcomesInvariance == Spec => []OutcomesOK
<1>1. Init => OutcomesOK
  <2> SUFFICES ASSUME Init PROVE OutcomesOK
    OBVIOUS
  <2>1. \A r \in Runs : gh[r].conclusion = "" /\ rows[r].status = "absent"
    BY NoRowIsAbsent DEF Init, OrgInit, StoreInit
  <2>2. events = {} /\ \A s \in Sweepers : queuedFound[s] = {} /\ found[s] = {}
    BY DEF Init, OrgInit, PollerInit, Nothing
  <2> QED
    BY <2>1, <2>2 DEF OutcomesOK, CompletionsHappened
<1>2. Inv /\ OutcomesOK /\ [Next]_vars => OutcomesOK'
  BY NextOutcomes
<1> QED
  BY <1>1, <1>2, Invariance, PTL DEF Spec

\* A completed row carries a conclusion GitHub gave the run, and its time: neither
\* CloseStaleActiveRuns nor pollStaleRuns completes a run.
THEOREM CompletionsWereGiven == Spec => []CompletionsHappened
<1>1. OutcomesOK => CompletionsHappened
  BY DEF OutcomesOK
<1> QED
  BY <1>1, OutcomesInvariance, PTL

(***************************************************************************)
(* That every step is one of the board's, or none.                         *)
(***************************************************************************)
\* A conclusion that was announced is one of those of the run.
LEMMA AnnouncedHas ==
  ASSUME NEW r \in Runs
  PROVE  \A c : c \in Announced[r] <=> \E e \in events : e.run = r /\ e.conclusion = c /\ c # ""
BY DEF Announced

LEMMA AnnouncedStays ==
  ASSUME events' = events \/ \E o : o.conclusion = "" /\ events' = events \cup {o}
  PROVE  Announced' = Announced
<1>1. ASSUME NEW r \in Runs
      PROVE  {e.conclusion : e \in {x \in events' : x.run = r}} \ {""}
               = {e.conclusion : e \in {x \in events : x.run = r}} \ {""}
  OBVIOUS
<1> QED
  BY <1>1 DEF Announced

\* An announcement adds its conclusion to those of its run.
LEMMA AnnouncedGrows ==
  ASSUME NEW o, o.run \in Runs, o.conclusion # "", events' = events \cup {o}
  PROVE  Announced' = [Announced EXCEPT ![o.run] = @ \cup {o.conclusion}]
<1> DEFINE Of(s, r) == {e.conclusion : e \in {x \in s : x.run = r}} \ {""}
<1>1. /\ Announced = [r \in Runs |-> Of(events, r)]
      /\ Announced' = [r \in Runs |-> Of(events', r)]
  BY DEF Announced
<1>2. ASSUME NEW r \in Runs
      PROVE  Of(events', r) = Of(events, r) \cup (IF r = o.run THEN {o.conclusion} ELSE {})
  OBVIOUS
<1> HIDE DEF Of
<1> QED
  BY <1>1, <1>2

\* A run of GitHub that moves on is re-opened for good.
LEMMA ReopenedGrows ==
  ASSUME TypeOK, NEW r \in Runs, gh' = [gh EXCEPT ![r] = gh'[r]], Advances(gh[r], gh'[r])
  PROVE  Reopened' = Reopened \/ Reopened' = Reopened \cup {r}
<1>1. \A x \in Runs : x # r => gh'[x] = gh[x]
  BY DEF TypeOK
<1>2. \A x \in Runs \ {r} : x \in Reopened' <=> x \in Reopened
  BY <1>1 DEF Reopened, FirstAttempt
<1>3. r \in Reopened => r \in Reopened'
  BY DEF Reopened, FirstAttempt, Advances
<1> QED
  BY <1>2, <1>3 DEF Reopened

\* A run that has not finished, and was not re-run, has had no conclusion.
LEMMA UnfinishedIsUnannounced ==
  ASSUME Inv, NEW r \in Runs, ~Finished(r), r \notin Reopened
  PROVE  Announced[r] = {}
<1>1. ASSUME NEW e \in events, e.run = r
      PROVE  e.conclusion = ""
  <2>1. Faithful(e)
    BY <1>1 DEF Inv, ObservationsOK, Credible, Reopened
  <2> QED
    BY <1>1, <2>1 DEF Faithful, FaithfulTo, Finished
<1> QED
  BY <1>1 DEF Announced

\* Finish announces a conclusion; GitHub's other changes at most re-open a run.
LEMMA EnvironmentMaps ==
  ASSUME Inv, Environment
  PROVE  Board!Next \/ UNCHANGED Board!vars
<1>1. UNCHANGED <<ShownOutcome, ActiveRows>> /\ TypeOK /\ GhOK
  BY DEF Environment, Inv, ShownOutcome, ActiveRows
<1>2. CASE Tick
  BY <1>1, <1>2 DEF Tick, Board!vars, Announced, Reopened, FirstAttempt
<1>3. ASSUME NEW r \in Runs, \/ Trigger(r) \/ Approve(r) \/ Begin(r)
                             \/ Settle(r) \/ Rerun(r) \/ Delete(r)
      PROVE  Board!Next \/ UNCHANGED Board!vars
  <2>1. Reopened' = Reopened \/ Reopened' = Reopened \cup {r}
    BY <1>1, <1>3, RunChangeAdvances, ReopenedGrows
  <2>2. ASSUME Trigger(r) \/ Begin(r) \/ Rerun(r)
        PROVE  Announced' = Announced
    <3>1. PICK status, attempt : Announce(r, Moved(status, attempt))
      BY <2>2 DEF Trigger, Begin, Rerun
    <3> DEFINE o == Payload(r, Moved(status, attempt), status)
    <3>2. o.conclusion = ""
      BY DEF Payload, Moved
    <3>3. events' = events \cup {o}
      BY <3>1 DEF Announce, Moved
    <3> HIDE DEF o
    <3> QED
      BY <3>2, <3>3, AnnouncedStays
  <2>3. CASE Approve(r) \/ Settle(r) \/ Delete(r)
    <3>1. events' = events
      BY <2>3 DEF Approve, Settle, Delete
    <3> QED
      BY <1>1, <2>1, <3>1, AnnouncedStays DEF Board!Next, Board!Reopen, Board!vars
  <2> QED
    BY <1>1, <1>3, <2>1, <2>2, <2>3 DEF Board!Next, Board!Reopen, Board!vars
<1>4. ASSUME NEW r \in Runs, Finish(r)
      PROVE  Board!Next
  <2>1. PICK c \in Conclusions, listed \in {"completed"} \cup ActiveStatus :
          LET run == [status |-> "completed", listed |-> listed, conclusion |-> c,
                      updatedAt |-> GhTime(clock), attempt |-> gh[r].attempt]
          IN  Change(r, run) /\ Announce(r, run)
    BY <1>4 DEF Finish
  <2>2. Announced' = [Announced EXCEPT ![r] = @ \cup {c}]
    <3> DEFINE run == [status |-> "completed", listed |-> listed, conclusion |-> c,
                       updatedAt |-> GhTime(clock), attempt |-> gh[r].attempt]
               o == Payload(r, run, "completed")
    <3>1. o.run = r /\ o.conclusion = c /\ c # ""
      BY RunsAssumption DEF Payload
    <3>2. events' = events \cup {o}
      BY <2>1 DEF Announce
    <3> HIDE DEF o
    <3> QED
      BY <3>1, <3>2, AnnouncedGrows
  <2>3. ~Finished(r)
    BY <1>4 DEF Finish, Finished, ActiveStatus
  <2>4. Reopened' = Reopened
    <3>1. /\ \A x \in Runs : x # r => gh'[x] = gh[x]
          /\ gh'[r].attempt = gh[r].attempt
          /\ gh'[r].status # "deleted" /\ gh[r].status # "deleted"
      BY <1>1, <2>1, <2>3 DEF Change, TypeOK, Finished
    <3> QED
      BY <3>1 DEF Reopened, FirstAttempt
  <2>5. Announced[r] = {} \/ r \in Reopened
    BY <2>3, UnfinishedIsUnannounced
  <2>6. Board!Conclude(r, c)
    BY <1>1, <2>2, <2>4, <2>5 DEF Board!Conclude
  <2> QED
    BY <2>6 DEF Board!Next
<1> QED
  BY <1>2, <1>3, <1>4 DEF Environment, OrgNext, RunChanges

\* One row changes, from what GitHub has announced or to an unfinished state.
LEMMA RowMaps ==
  ASSUME TypeOK, UNCHANGED <<gh, events>>, NEW r \in Runs, NEW row \in Row,
         rows' = [rows EXCEPT ![r] = row],
         IF row.status = "completed" THEN row.conclusion \in Announced[r]
         ELSE rows[r].status = "completed" => r \in Reopened \cup OmitsTime
  PROVE  Board!Next
<1>1. rows' \in [Runs -> Row] /\ rows'[r] = row /\ \A x \in Runs : x # r => rows'[x] = rows[x]
  BY DEF TypeOK
<1>2. UNCHANGED <<Announced, Reopened>>
  BY DEF Announced, Reopened, FirstAttempt
<1>3. ActiveRows' = IF row.status \in ActiveStatus THEN ActiveRows \cup {r}
                                                   ELSE ActiveRows \ {r}
  BY <1>1 DEF ActiveRows
<1>4. ShownOutcome' = [ShownOutcome EXCEPT
         ![r] = IF row.status = "completed" THEN {row.conclusion} ELSE {}]
  BY <1>1 DEF ShownOutcome
<1>5. CASE row.status = "completed"
  <2>1. row.conclusion \in Conclusions
    <3>1. row.conclusion # ""
      BY <1>5, AnnouncedHas
    <3> QED
      BY <3>1 DEF Row, AnyConclusion
  <2>2. Board!ShowOutcome(r, row.conclusion)
    BY <1>2, <1>3, <1>4, <1>5 DEF Board!ShowOutcome, ActiveStatus
  <2> QED
    BY <2>1, <2>2 DEF Board!Next
<1>6. CASE row.status # "completed"
  <2>1. ShownOutcome[r] = {} \/ r \in Reopened \cup OmitsTime
    BY <1>6 DEF ShownOutcome
  <2>2. Board!ShowUnfinished(r)
    BY <1>2, <1>3, <1>4, <1>6, <2>1 DEF Board!ShowUnfinished
  <2> QED
    BY <2>2 DEF Board!Next
<1> QED
  BY <1>5, <1>6

\* What is written to a row is what RowMaps asks for.
LEMMA WritesMap ==
  ASSUME Inv, OutcomesOK, [Next]_vars, CompletionsHappened', UNCHANGED <<gh, events>>,
         NEW r \in Runs, NEW row \in Row, rows' = [rows EXCEPT ![r] = row]
  PROVE  Board!Next
<1>1. TypeOK /\ rows'[r] = row
  BY DEF Inv, TypeOK
<1>2. ASSUME row.status = "completed" PROVE row.conclusion \in Announced[r]
  <2>1. PICK e \in events : e.run = r /\ e.conclusion # "" /\ e.conclusion = row.conclusion
    <3>1. PICK e \in events' : e.run = r /\ e.conclusion # "" /\ e.conclusion = rows'[r].conclusion
      BY <1>1, <1>2 DEF CompletionsHappened
    <3> QED
      BY <1>1, <3>1
  <2> QED
    BY <2>1, AnnouncedHas
<1>3. ASSUME row.status # "completed", rows[r].status = "completed", r \notin OmitsTime
      PROVE  r \in Reopened
  BY <1>1, <1>3, CompletionStands DEF Reopened
<1> QED
  BY <1>1, <1>2, <1>3, RowMaps

\* The monitor implements the board: whatever order deliveries and the answers of
\* overlapping sweeps come in, UpsertWorkflowRun and CloseStaleActiveRuns show an
\* outcome only after GitHub gave it, keep it unless the run was re-opened, and
\* take the run out of the queue depth with it.
THEOREM BoardImplemented == Spec => ImplementsBoard
<1>1. Init => Board!Init
  <2> SUFFICES ASSUME Init PROVE Board!Init
    OBVIOUS
  <2>1. \A r \in Runs : /\ gh[r].attempt = 0 /\ gh[r].status = "none"
                        /\ rows[r].status = "absent"
    BY NoRowIsAbsent DEF Init, OrgInit, StoreInit
  <2>2. events = {}
    BY DEF Init, OrgInit
  <2>3. Announced = [r \in Runs |-> {}]
    BY <2>2 DEF Announced
  <2>4. Reopened = {} /\ ActiveRows = {} /\ ShownOutcome = [r \in Runs |-> {}]
    BY <2>1 DEF Reopened, FirstAttempt, ActiveRows, ActiveStatus, ShownOutcome
  <2> QED
    BY <2>3, <2>4 DEF Board!Init
<1>2. Inv /\ OutcomesOK /\ [Next]_vars => [Board!Next]_Board!vars
  <2> SUFFICES ASSUME Inv, OutcomesOK, [Next]_vars
               PROVE  Board!Next \/ UNCHANGED Board!vars
    OBVIOUS
  <2>1. CASE Environment
    BY <2>1, EnvironmentMaps
  <2>2. CASE ~Environment
    <3>1. UNCHANGED <<gh, events>>
      BY <2>2 DEF Next, Deliver, Scheduling, Restart, Sweep, Succeeds, Breaks, orgVars, vars
    <3>2. CompletionsHappened' /\ rows' \in [Runs -> Row]
      BY <2>2, WritesOutcomes, NextInv DEF Inv, TypeOK
    <3>3. CASE UNCHANGED rows
      BY <3>1, <3>3 DEF Board!vars, Announced, Reopened, FirstAttempt, ShownOutcome, ActiveRows
    <3>4. ASSUME NEW r \in Runs, NEW row, rows' = [rows EXCEPT ![r] = row]
          PROVE  Board!Next
      <4>1. row \in Row
        BY <3>2, <3>4 DEF Inv, TypeOK
      <4> QED
        BY <3>1, <3>2, <3>4, <4>1, WritesMap
    <3>5. ASSUME NEW o \in Observation, UpsertWorkflowRun(o, Now)
          PROVE  Board!Next
      BY <3>4, <3>5 DEF UpsertWorkflowRun, Observation
    <3>6. ASSUME NEW r \in Runs, NEW at \in Time, CloseStaleActiveRun(r, at)
          PROVE  Board!Next
      BY <3>4, <3>6 DEF CloseStaleActiveRun
    <3> QED
      BY <3>3, <3>5, <3>6, RowSteps
  <2> QED
    BY <2>1, <2>2
<1> QED
  BY <1>1, <1>2, Invariance, OutcomesInvariance, PTL DEF Spec, ImplementsBoard, Board!Spec
=============================================================================
