--------------------------- MODULE StoreLifecycle ---------------------------
(***************************************************************************)
(* The database from one process to the next: Open with its migrations,    *)
(* the deliveries and sweeps that write to it, and the way run shuts down. *)
(* More than one process may run on the file, as when one replaces         *)
(* another.  A process may be killed, and the power may fail, between any  *)
(* two statements.                                                         *)
(*                                                                         *)
(* SQLite is external: a statement outside a transaction, and a commit,    *)
(* take effect at once and as a whole; there is one writer at a time;      *)
(* under synchronous(NORMAL) a power failure takes back commits since the  *)
(* last sync, the latest ones first.  The rows and what an upsert or a     *)
(* close makes of them are those of WorkflowRow.                           *)
(***************************************************************************)
EXTENDS WorkflowRow, Sequences

CONSTANTS
  Processes,   \* processes that may run on the file
  Arrivals,    \* the observations that deliveries and sweeps bring, stamped
  Stamps,      \* the local times at which sweeps close rows
  Found,       \* rows, or none, that a keyed table may begin with
  LegacyLogs,  \* tables of the old shape that the file may begin with
  MaxJobs,     \* bound: deliveries under way at the same time
  MaxCommits   \* bound: commits between two syncs

\* A row of the old shape, in which a run has one for each of its states.
LegacyRow == [run : Runs, row : {x \in Row : x.status # "absent"}]

ASSUME StoreAssumption ==
  /\ Arrivals \subseteq Observation /\ \A o \in Arrivals : o.updatedAt \in Time
  /\ Stamps \subseteq Time /\ Found \subseteq Row
  /\ LegacyLogs \subseteq Seq(LegacyRow)
  /\ MaxCommits \in Nat \ {0, 1}

VARIABLES
  commits,  \* the database after each commit since the last sync, oldest first
  writer,   \* the process with an open write transaction, at most one
  work,     \* the database as that transaction sees it
  pc,       \* where each process is
  jobs,     \* deliveries being handled
  acked     \* history: observations acknowledged since the power last failed

vars == <<commits, writer, work, pc, jobs, acked>>
fileVars == <<commits, writer, work>>

(***************************************************************************)
(* The file: workflow_runs in one of its shapes, the table a migration is  *)
(* building, if any, and how many of the other tables of the schema exist. *)
(***************************************************************************)
Tables == [Runs -> Row]
NoRuns == [r \in Runs |-> NoRow]

Databases ==
  [shape : {"absent", "legacy", "keyed"}, log : LegacyLogs \cup {<<>>},
   rows : Tables, scratch : SUBSET Tables, tables : 0..2]

Database == commits[Len(commits)]

\* The latest row of each run: what a reader of the old shape looked for.
Latest(log) ==
  [r \in Runs |->
     IF \A i \in DOMAIN log : log[i].run # r THEN NoRow
     ELSE LET last == CHOOSE i \in DOMAIN log :
                /\ log[i].run = r
                /\ \A j \in DOMAIN log : log[j].run = r => j <= i
          IN log[last].row]

\* The rows the rebuild selects, and the table they make.
WrongKept(log) ==
  {i \in DOMAIN log : \A j \in DOMAIN log : log[j].run = log[i].run => i <= j}
Kept(log) ==
  {i \in DOMAIN log : \A j \in DOMAIN log : log[j].run = log[i].run => j <= i}
Collapsed(log) ==
  [r \in Runs |->
     LET rows == {i \in Kept(log) : log[i].run = r}
     IN IF rows = {} THEN NoRow ELSE log[CHOOSE i \in rows : TRUE].row]

\* The current state of every run, as the readers of each shape derive it.
StateOf(d) ==
  CASE d.shape = "legacy" -> Latest(d.log)
    [] d.shape = "keyed" -> d.rows
    [] OTHER -> NoRuns

\* The two statements that write a row: of UpsertWorkflowRun and of a close.
Upsert(d, o) == [d EXCEPT !.rows[o.run] = Upserted(@, o)]
Close(d, r, at) == [d EXCEPT !.rows[r] = Closed(@, at)]

\* A file that does not exist yet, one of the old shape, or one of today's.
Init ==
  /\ \E shape \in {"absent", "legacy", "keyed"}, tables \in 0..2 :
     \E log \in IF shape = "legacy" THEN LegacyLogs ELSE {<<>>} :
     \E table \in IF shape = "keyed" THEN [Runs -> Found] ELSE {NoRuns} :
       /\ shape = "absent" => tables = 0
       /\ work = [shape |-> shape, log |-> log, rows |-> table,
                  scratch |-> {}, tables |-> tables]
  /\ commits = <<work>>
  /\ writer = {}
  /\ pc = [p \in Processes |-> "down"]
  /\ jobs = {} /\ acked = {}

Go(p, from, to) == pc[p] = from /\ pc' = [pc EXCEPT ![p] = to]

\* A statement in the transaction of p; the first one takes the write lock.
WrongStatement(p, d) ==
  /\ writer \subseteq {p} /\ Len(commits) < MaxCommits
  /\ writer' = {p} /\ work' = d /\ commits' = Append(commits, d)
Statement(p, d) ==
  /\ writer \subseteq {p}
  /\ writer' = {p} /\ work' = d /\ UNCHANGED commits

\* A statement that is a transaction of its own.
Write(d) ==
  /\ writer = {} /\ Len(commits) < MaxCommits
  /\ commits' = Append(commits, d) /\ UNCHANGED <<writer, work>>

(* Open: collapseLegacyWorkflowRuns, then the schema. *)
Start(p) == Go(p, "down", "inspecting") /\ UNCHANGED <<fileVars, jobs, acked>>

Inspect(p) ==
  /\ Go(p, "inspecting", IF Database.shape = "legacy" THEN "collapsing" ELSE "schema")
  /\ UNCHANGED <<fileVars, jobs, acked>>

CreateScratch(p) ==
  /\ Go(p, "collapsing", "copying")
  /\ Database.scratch = {} /\ Statement(p, [Database EXCEPT !.scratch = {NoRuns}])
  /\ UNCHANGED <<jobs, acked>>

Copy(p) ==
  /\ Go(p, "copying", "dropping")
  /\ work.shape = "legacy" /\ Statement(p, [work EXCEPT !.scratch = {Collapsed(work.log)}])
  /\ UNCHANGED <<jobs, acked>>

Drop(p) ==
  /\ Go(p, "dropping", "renaming")
  /\ Statement(p, [work EXCEPT !.shape = "absent", !.log = <<>>])
  /\ UNCHANGED <<jobs, acked>>

Rename(p) ==
  /\ Go(p, "renaming", "committing")
  /\ \E table \in work.scratch :
       Statement(p, [work EXCEPT !.shape = "keyed", !.rows = table, !.scratch = {}])
  /\ UNCHANGED <<jobs, acked>>

Commit(p) ==
  /\ Go(p, "committing", "schema")
  /\ Len(commits) < MaxCommits
  /\ commits' = Append(commits, work) /\ writer' = {}
  /\ UNCHANGED <<work, jobs, acked>>

\* The statements of the schema, each its own transaction, each creating what
\* does not exist yet.
Complete(d) == d.shape # "absent" /\ d.tables = 2

Schema(p) ==
  /\ pc[p] = "schema" /\ ~ Complete(Database)
  /\ Write(IF Database.shape = "absent" THEN [Database EXCEPT !.shape = "keyed"]
           ELSE [Database EXCEPT !.tables = @ + 1])
  /\ UNCHANGED <<pc, jobs, acked>>

Serve(p) ==
  /\ Go(p, "schema", "serving") /\ Complete(Database)
  /\ UNCHANGED <<fileVars, jobs, acked>>

Migrating == {"inspecting", "collapsing", "copying", "dropping", "renaming",
              "committing", "schema"}

\* The process ends: its transaction is rolled back, its deliveries are cut.
Ends(p) ==
  /\ pc' = [pc EXCEPT ![p] = "down"]
  /\ writer' = writer \ {p}
  /\ jobs' = {j \in jobs : j.at # p}
  /\ UNCHANGED <<commits, work, acked>>

\* A statement that cannot succeed: another process has collapsed the table
\* since it was inspected, or left its own behind.  Open returns the error.
Impossible(p) ==
  \/ pc[p] = "collapsing" /\ writer = {} /\ Database.scratch # {}
  \/ pc[p] = "copying" /\ work.shape # "legacy"
Refused(p) == Impossible(p) /\ Ends(p)

\* One that fails for a while (SQLITE_BUSY, a full disk).
Fails(p) == pc[p] \in Migrating /\ ~ Impossible(p) /\ Ends(p)

(* A delivery: it is stored, then acknowledged; or refused with a 500.     *)
OpenAt(p) == pc[p] \in {"serving", "draining"}

Accept(p, o) ==
  /\ pc[p] = "serving" /\ Cardinality(jobs) < MaxJobs
  /\ jobs' = jobs \cup {[at |-> p, obs |-> o, step |-> "storing"]}
  /\ UNCHANGED <<fileVars, pc, acked>>

Store(j) ==
  /\ j.step = "storing" /\ OpenAt(j.at)
  /\ Write(Upsert(Database, j.obs))
  /\ jobs' = (jobs \ {j}) \cup {[j EXCEPT !.step = "stored"]}
  /\ UNCHANGED <<pc, acked>>

Refuse(j) ==
  /\ j.step = "storing" /\ jobs' = jobs \ {j}
  /\ UNCHANGED <<fileVars, pc, acked>>

WrongAcknowledge(j) ==
  /\ jobs' = jobs \ {j} /\ acked' = acked \cup {j.obs}
  /\ UNCHANGED <<fileVars, pc>>
Acknowledge(j) ==
  /\ j.step = "stored"
  /\ jobs' = jobs \ {j} /\ acked' = acked \cup {j.obs}
  /\ UNCHANGED <<fileVars, pc>>

\* A sweep, of the loop or of a refresh, records an observation or closes a row.
SweepWrites(p) ==
  /\ OpenAt(p)
  /\ \/ \E o \in Arrivals : Write(Upsert(Database, o))
     \/ \E r \in Runs, at \in Stamps : Write(Close(Database, r, at))
  /\ UNCHANGED <<pc, jobs, acked>>

(* run: a signal, srv.Shutdown, and the deferred Close of the store, whose *)
(* pool admits no further statement.                                       *)
Signal(p) == Go(p, "serving", "draining") /\ UNCHANGED <<fileVars, jobs, acked>>

Drained(p) ==
  /\ Go(p, "draining", "closed") /\ \A j \in jobs : j.at # p
  /\ UNCHANGED <<fileVars, jobs, acked>>

\* Shutdown gives up after ten seconds; or the listener has failed.
DrainTimesOut(p) == Go(p, "draining", "cut") /\ UNCHANGED <<fileVars, jobs, acked>>
ListenerFails(p) == Go(p, "serving", "cut") /\ UNCHANGED <<fileVars, jobs, acked>>

Exit(p) == pc[p] \in {"closed", "cut"} /\ Ends(p)

\* In the states left out, being killed is Exit or Refused.
Kill(p) ==
  /\ pc[p] \notin {"down", "closed", "cut"} /\ ~ Impossible(p)
  /\ Ends(p)

Sync ==
  /\ commits' = <<Database>>
  /\ UNCHANGED <<writer, work, pc, jobs, acked>>

PowerFails ==
  /\ \E i \in DOMAIN commits : commits' = <<commits[i]>>
  /\ pc' = [p \in Processes |-> "down"]
  /\ writer' = {} /\ jobs' = {} /\ acked' = {}
  /\ UNCHANGED work

Opens(p) ==
  \/ Inspect(p) \/ CreateScratch(p) \/ Copy(p) \/ Drop(p) \/ Rename(p)
  \/ Commit(p) \/ Schema(p) \/ Serve(p) \/ Refused(p)

Handles(j) == Store(j) \/ Refuse(j) \/ Acknowledge(j)

\* Nothing makes these happen, and for liveness they do not happen for ever.
Stops == PowerFails \/ \E p \in Processes : Fails(p) \/ Kill(p) \/ Signal(p) \/ ListenerFails(p)

Next ==
  \/ Stops \/ Sync
  \/ \E p \in Processes :
       \/ Start(p) \/ Opens(p) \/ Drained(p) \/ DrainTimesOut(p) \/ Exit(p)
       \/ SweepWrites(p) \/ \E o \in Arrivals : Accept(p, o)
  \/ \E j \in jobs : Handles(j)

Spec == Init /\ [][Next]_vars

\* A supervisor starts the process again; the code's own steps are taken, and
\* the ten seconds of the drain pass; the write-ahead log is checkpointed; and
\* a step that waits for the write lock, which others may take in between, gets
\* it in the end (busy_timeout).
FairSpec ==
  /\ Spec /\ <>[][~ Stops]_vars /\ WF_vars(Sync)
  /\ \A p \in Processes :
       /\ WF_vars(Start(p)) /\ SF_vars(Opens(p))
       /\ WF_vars(DrainTimesOut(p)) /\ WF_vars(Exit(p))
-----------------------------------------------------------------------------
TypeOK ==
  /\ commits \in Seq(Databases) /\ commits # <<>>
  /\ writer \subseteq Processes /\ work \in Databases
  /\ pc \in [Processes -> Migrating \cup
               {"down", "serving", "draining", "closed", "cut"}]
  /\ jobs \subseteq [at : Processes, obs : Arrivals, step : {"storing", "stored"}]
  /\ acked \subseteq Arrivals

(* What Open hands to its caller is the whole schema, keyed by run, and it *)
(* stays that while the process serves, whatever other processes open,     *)
(* migrate or break off (migrate).                                         *)
ServesTheSchema ==
  \A p \in Processes : OpenAt(p) =>
    Database.shape = "keyed" /\ Database.tables = 2 /\ Database.scratch = {}

\* The completion of a run that nothing else tells of as completed, or as of a
\* later time: of one that is neither run again nor deleted.
LastWord(o) ==
  /\ Normalize(o).status = "completed"
  /\ \A x \in Arrivals \ {o} : x.run = o.run =>
       Normalize(x).status # "completed" /\ x.updatedAt <= o.updatedAt

Told(table, o) ==
  /\ table[o.run] # NoRow
  /\ LastWord(o) => table[o.run] = RowFrom(Normalize(o))

(* What GitHub has been told is recorded is recorded, over crashes,        *)
(* shutdowns and migrations, so long as the power does not fail: a run of  *)
(* which a delivery was answered with 200 has a row, and if the delivery   *)
(* told of its last completion, that is what the row says, whatever older  *)
(* observations are stored and rows closed after it.  (Another delivery's  *)
(* own status need not stay: the guard lets older ones replace active rows.)*)
AckedIsStored == \A o \in acked : Told(StateOf(Database), o)

(* The inductive invariant: what each commit has left in the file, what an *)
(* open transaction is about to make of it, what an open store may rely    *)
(* on, and that a delivery is stored before it is answered.                *)
FileOK ==
  \A i \in DOMAIN commits :
    LET d == commits[i]
    IN /\ d.scratch = {}
       /\ d.shape # "keyed" => d.rows = NoRuns

WorkOK(p) ==
  /\ work.tables = Database.tables
  /\ pc[p] = "copying" => work.shape = Database.shape /\ work.log = Database.log
  /\ pc[p] # "copying" => Database.shape = "legacy"
  /\ pc[p] \in {"dropping", "renaming"} => work.scratch = {Collapsed(Database.log)}
  /\ pc[p] = "committing" =>
       work.shape = "keyed" /\ work.scratch = {} /\ work.rows = Collapsed(Database.log)

TransactionOK ==
  /\ \A p \in Processes :
       p \in writer <=> pc[p] \in {"copying", "dropping", "renaming", "committing"}
  /\ \A p, q \in writer : p = q
  /\ \A p \in writer : WorkOK(p)

OpenOK ==
  \A p \in Processes :
    /\ pc[p] \in {"schema", "serving", "draining"} => Database.shape # "legacy"
    /\ OpenAt(p) => Complete(Database)

JobsOK ==
  \A j \in jobs :
    /\ pc[j.at] \in {"serving", "draining", "cut"}
    /\ j.step = "stored" => Told(StateOf(Database), j.obs)

StoreInv == TypeOK /\ FileOK /\ TransactionOK /\ OpenOK /\ JobsOK /\ AckedIsStored

(* Whatever processes do with the file, its readers see a ledger with one  *)
(* current state per run: the migration, in every one of its steps and     *)
(* wherever it is cut short, changes nothing they can see ("the highest    *)
(* id ... is exactly the current state every reader derived before").      *)
Ledger == INSTANCE RunLedger WITH
  state <- StateOf(Database),
  recent <- {StateOf(commits[i]) : i \in DOMAIN commits}

ImplementsLedger == Ledger!Spec

(* However often it was killed half-way, the file can be opened again and  *)
(* every process ends up serving.                                          *)
EventuallyServes == \A p \in Processes : <>[](pc[p] = "serving")
=============================================================================
