------------------------ MODULE StoreLifecycleProofs ------------------------
(***************************************************************************)
(* Proofs about the database over its processes' lives: for any number of  *)
(* processes, runs and deliveries, any legacy tables and any number of     *)
(* commits between two syncs.                                              *)
(***************************************************************************)
EXTENDS StoreLifecycle, WellFoundedInduction, TLAPS

LEMMA Largest ==
  ASSUME NEW k \in Nat, NEW S \in SUBSET (1..k), S # {}
  PROVE  \E n \in S : \A m \in S : m <= n
<1> DEFINE R == OpToRel(<, Nat)
           T == {k - n : n \in S}
<1>1. IsWellFoundedOn(R, Nat)
  BY NatLessThanWellFounded
<1>2. \A m, n \in Nat : m < n => <<m, n>> \in R
  BY DEF OpToRel
<1> HIDE DEF R
<1>3. T \subseteq Nat /\ T # {}
  <2>1. \A n \in S : k - n \in Nat
    OBVIOUS
  <2> QED
    BY <2>1
<1>4. PICK t \in T : \A u \in T : ~ (<<u, t>> \in R)
  <2> HIDE DEF T
  <2> QED
    BY <1>1, <1>3, WFMin
<1>5. PICK n \in S : t = k - n
  BY <1>4
<1>6. ASSUME NEW m \in S PROVE m <= n
  <2>1. k - m \in T /\ k - m \in Nat /\ t \in Nat
    BY <1>3, <1>4
  <2>2. ~ (k - m < t)
    BY <1>2, <1>4, <2>1
  <2> QED
    BY <1>5, <2>2
<1> QED
  BY <1>5, <1>6

\* Logs are tables of the old shape, empty ones included.
Logs == LegacyLogs \cup {<<>>}

LEMMA LogsAreSequences == \A log \in Logs : log \in Seq(LegacyRow)
<1>1. LegacyLogs \subseteq Seq(LegacyRow) /\ <<>> \in Seq(LegacyRow)
  BY StoreAssumption
<1> QED
  BY <1>1 DEF Logs

LEMMA LogRows ==
  ASSUME NEW log \in Logs, NEW i \in DOMAIN log
  PROVE  /\ DOMAIN log = 1..Len(log) /\ Len(log) \in Nat
         /\ log[i].run \in Runs /\ log[i].row \in Row /\ i \in Nat
<1>1. log \in Seq(LegacyRow)
  BY LogsAreSequences
<1>2. DOMAIN log = 1..Len(log) /\ Len(log) \in Nat
  BY <1>1
<1>3. log[i] \in LegacyRow
  BY <1>1
<1> QED
  BY <1>2, <1>3 DEF LegacyRow

LEMMA NoRowIsRow == NoRow \in Row /\ NoRow.status = "absent"
BY DEF NoRow, Row, RowStatus, AnyConclusion

\* The rebuild keeps the row of a run that a reader of the old shape looked for.
LEMMA CollapsedIsLatest ==
  ASSUME NEW log \in Logs
  PROVE  Collapsed(log) = Latest(log) /\ Collapsed(log) \in Tables
<1>1. ASSUME NEW r \in Runs
      PROVE  Collapsed(log)[r] = Latest(log)[r] /\ Collapsed(log)[r] \in Row
  <2> DEFINE Mine == {i \in Kept(log) : log[i].run = r}
             Last(i) == /\ i \in DOMAIN log /\ log[i].run = r
                        /\ \A j \in DOMAIN log : log[j].run = r => j <= i
             Of == {i \in DOMAIN log : log[i].run = r}
  <2>1. \A i \in DOMAIN log : i \in Mine <=> Last(i)
    BY DEF Kept
  <2>2. \A i, j \in DOMAIN log : Last(i) /\ Last(j) => i = j
    BY LogRows
  <2>3. CASE Of = {}
    <3>1. Mine = {}
      BY <2>3 DEF Kept
    <3>2. \A i \in DOMAIN log : log[i].run # r
      BY <2>3
    <3>3. Collapsed(log)[r] = NoRow
      BY <3>1 DEF Collapsed
    <3>4. Latest(log)[r] = NoRow
      BY <3>2 DEF Latest
    <3> QED
      BY <3>3, <3>4, NoRowIsRow
  <2>4. CASE Of # {}
    <3>1. PICK i \in DOMAIN log : Last(i)
      <4>1. log \in Seq(LegacyRow)
        BY LogsAreSequences
      <4>2. Of \in SUBSET (1..Len(log)) /\ Len(log) \in Nat
        BY <4>1
      <4> HIDE DEF Of
      <4>3. PICK n \in Of : \A m \in Of : m <= n
        BY <2>4, <4>2, Largest
      <4> QED
        BY <4>3 DEF Of
    <3>2. Mine = {i}
      BY <2>1, <2>2, <3>1 DEF Kept
    <3>3. Collapsed(log)[r] = log[i].row
      <4>1. Mine # {} /\ (CHOOSE m \in Mine : TRUE) = i
        BY <3>2
      <4> QED
        BY <4>1 DEF Collapsed
    <3>4. Latest(log)[r] = log[i].row
      <4> DEFINE last == CHOOSE n \in DOMAIN log :
                   /\ log[n].run = r
                   /\ \A j \in DOMAIN log : log[j].run = r => j <= n
      <4>1. last = i
        BY <2>2, <3>1
      <4>2. ~ (\A n \in DOMAIN log : log[n].run # r)
        BY <3>1
      <4>3. Latest(log)[r] = log[last].row
        BY <4>2 DEF Latest
      <4> QED
        BY <4>1, <4>3
    <3> QED
      BY <3>1, <3>3, <3>4, LogRows
  <2> QED
    BY <2>3, <2>4
<1>2. /\ Collapsed(log) = [r \in Runs |-> Collapsed(log)[r]]
      /\ Latest(log) = [r \in Runs |-> Latest(log)[r]]
  BY DEF Collapsed, Latest
<1> HIDE DEF Collapsed, Latest
<1> QED
  BY <1>1, <1>2 DEF Tables
-----------------------------------------------------------------------------
LEMMA Fields ==
  ASSUME NEW d \in Databases
  PROVE  /\ d.shape \in {"absent", "legacy", "keyed"} /\ d.log \in Logs
         /\ d.rows \in Tables /\ d.scratch \in SUBSET Tables /\ d.tables \in 0..2
BY DEF Databases, Logs

LEMMA NoRunsIsTable == NoRuns \in Tables
BY NoRowIsRow DEF NoRuns, Tables

LEMMA StatesAreTables ==
  ASSUME NEW d \in Databases
  PROVE  StateOf(d) \in Tables
<1>1. Latest(d.log) \in Tables
  BY Fields, CollapsedIsLatest
<1> QED
  BY <1>1, NoRunsIsTable, Fields DEF StateOf

LEMMA FileType ==
  ASSUME TypeOK
  PROVE  /\ Len(commits) \in Nat \ {0} /\ DOMAIN commits = 1..Len(commits)
         /\ Len(commits) \in DOMAIN commits
         /\ Database \in Databases /\ \A i \in DOMAIN commits : commits[i] \in Databases
BY DEF TypeOK, Database

LEMMA Appended ==
  ASSUME TypeOK, NEW d \in Databases, commits' = Append(commits, d)
  PROVE  /\ commits' \in Seq(Databases) /\ commits' # <<>> /\ Database' = d
         /\ DOMAIN commits' = DOMAIN commits \cup {Len(commits) + 1}
         /\ \A i \in DOMAIN commits : commits'[i] = commits[i]
         /\ commits'[Len(commits) + 1] = d
<1>1. commits \in Seq(Databases) /\ Len(commits) \in Nat
  BY DEF TypeOK
<1>2. /\ commits' \in Seq(Databases) /\ Len(commits') = Len(commits) + 1
      /\ DOMAIN commits = 1..Len(commits) /\ DOMAIN commits' = 1..(Len(commits) + 1)
  BY <1>1
<1>3. /\ \A i \in 1..Len(commits) : commits'[i] = commits[i]
      /\ commits'[Len(commits) + 1] = d
  BY <1>1
<1> QED
  BY <1>1, <1>2, <1>3 DEF Database

LEMMA ArrivalFacts ==
  \A o \in Arrivals : o \in Observation /\ o.run \in Runs /\ o.updatedAt \in Nat
BY StoreAssumption DEF Observation, Time

LEMMA JobFacts ==
  ASSUME TypeOK, NEW j \in jobs
  PROVE  /\ j.at \in Processes /\ j.obs \in Arrivals /\ j.step \in {"storing", "stored"}
         /\ j.obs.run \in Runs
<1>1. j.at \in Processes /\ j.obs \in Arrivals /\ j.step \in {"storing", "stored"}
  BY DEF TypeOK
<1> QED
  BY <1>1, ArrivalFacts

(***************************************************************************)
(* What the two writing statements do to a row that a delivery told of.    *)
(***************************************************************************)
\* The row that an observation makes, field by field.
LEMMA RowMade ==
  ASSUME NEW o \in Observation
  PROVE  LET row == RowFrom(Normalize(o))
         IN  /\ row.status = Normalize(o).status /\ row.updatedAt = o.updatedAt
             /\ row \in Row /\ row # NoRow
<1> DEFINE n == Normalize(o)
           row == RowFrom(n)
<1>1. /\ n.status \in GhStatus \cup {"unknown"} /\ n.updatedAt = o.updatedAt
      /\ n.conclusion = o.conclusion
  BY DEF Normalize, Observation, GhStatus, ActiveStatus
<1>2. row.status = n.status /\ row.updatedAt = n.updatedAt /\ row.conclusion = n.conclusion
  BY DEF RowFrom
<1>3. row \in Row
  BY <1>1 DEF RowFrom, Row, RowStatus, Observation
<1>4. row.status # "absent"
  BY <1>1, <1>2 DEF GhStatus, ActiveStatus
<1> HIDE DEF row, n
<1>5. row # NoRow
  BY <1>4, NoRowIsRow
<1> QED
  BY <1>1, <1>2, <1>3, <1>5 DEF n, row

\* The guard drops every other observation of a run once its last word is stored.
LEMMA UpsertTells ==
  ASSUME NEW o \in Arrivals, NEW x \in Arrivals, NEW table \in Tables
  PROVE  LET new == [table EXCEPT ![o.run] = Upserted(@, o)]
         IN  /\ new \in Tables /\ new[o.run] # NoRow
             /\ Told(table, x) => Told(new, x)
             /\ LastWord(o) => new[o.run] = RowFrom(Normalize(o))
<1> DEFINE row == RowFrom(Normalize(o))
           new == [table EXCEPT ![o.run] = Upserted(@, o)]
           old == table[o.run]
<1>1. /\ o.run \in Runs /\ x.run \in Runs /\ old \in Row /\ row \in Row /\ row # NoRow
      /\ row.status = Normalize(o).status /\ row.updatedAt = o.updatedAt
      /\ o.updatedAt \in Nat /\ x.updatedAt \in Nat
  BY ArrivalFacts, RowMade DEF Tables
<1>2. Upserted(old, o) = IF old = NoRow \/ UpsertGuard(old, row) THEN row ELSE old
  BY DEF Upserted
<1>3. /\ new[o.run] = Upserted(old, o) /\ \A r \in Runs \ {o.run} : new[r] = table[r]
      /\ new \in Tables
  BY <1>1, <1>2 DEF Tables
<1>4. LastWord(o) => Upserted(old, o) = row
  BY <1>1, <1>2 DEF LastWord, UpsertGuard
<1>5. ASSUME Told(table, x), x.run = o.run, LastWord(x), x # o
      PROVE  new[x.run] = RowFrom(Normalize(x))
  <2>1. /\ old = RowFrom(Normalize(x)) /\ old # NoRow
        /\ old.status = "completed" /\ old.updatedAt = x.updatedAt
    BY <1>5, ArrivalFacts, RowMade DEF Told, LastWord
  <2>2. row.status # "completed" /\ row.updatedAt <= x.updatedAt
    BY <1>1, <1>5 DEF LastWord
  <2> HIDE DEF row, old
  <2>3. ~ UpsertGuard(old, row)
    BY <1>1, <2>1, <2>2 DEF UpsertGuard, ActiveStatus
  <2> QED
    BY <1>2, <1>3, <1>5, <2>1, <2>3
<1> HIDE DEF row, new, old
<1>6. new[o.run] # NoRow
  BY <1>1, <1>2, <1>3
<1>7. Told(table, x) => Told(new, x)
  BY <1>1, <1>3, <1>4, <1>5, <1>6 DEF Told, row
<1> QED
  BY <1>3, <1>4, <1>6, <1>7 DEF row, new

\* A close touches no row that says completed, and takes none away.
LEMMA CloseTells ==
  ASSUME NEW r \in Runs, NEW at \in Stamps, NEW x \in Arrivals, NEW table \in Tables
  PROVE  LET new == [table EXCEPT ![r] = Closed(@, at)]
         IN  new \in Tables /\ (Told(table, x) => Told(new, x))
<1> DEFINE new == [table EXCEPT ![r] = Closed(@, at)]
           unknown == [status |-> "unknown", conclusion |-> "", updatedAt |-> at]
<1>1. /\ at \in Time /\ table[r] \in Row /\ x.run \in Runs /\ x \in Observation
      /\ unknown.status = "unknown"
  BY ArrivalFacts, StoreAssumption DEF Tables
<1>2. unknown \in Row
  BY <1>1 DEF Row, RowStatus, AnyConclusion
<1>3. Closed(table[r], at) = IF table[r].status \in ActiveStatus THEN unknown ELSE table[r]
  BY DEF Closed
<1> HIDE DEF unknown
<1>4. /\ new[r] = Closed(table[r], at) /\ \A q \in Runs \ {r} : new[q] = table[q]
      /\ new \in Tables
  BY <1>1, <1>2, <1>3 DEF Tables
<1>5. table[r] # NoRow => new[r] # NoRow
  BY <1>1, <1>3, <1>4, NoRowIsRow
<1>6. table[r].status = "completed" => new[r] = table[r]
  BY <1>3, <1>4 DEF ActiveStatus
<1> HIDE DEF new
<1>7. RowFrom(Normalize(x)).status = Normalize(x).status
  BY <1>1, RowMade
<1>8. Told(table, x) => Told(new, x)
  BY <1>1, <1>4, <1>5, <1>6, <1>7 DEF Told, LastWord
<1> QED
  BY <1>4, <1>8 DEF new

LEMMA StoreInit == Init => StoreInv
<1> SUFFICES ASSUME Init PROVE StoreInv
  OBVIOUS
<1>1. PICK shape \in {"absent", "legacy", "keyed"}, tables \in 0..2 :
        \E log \in IF shape = "legacy" THEN LegacyLogs ELSE {<<>>} :
        \E table \in IF shape = "keyed" THEN [Runs -> Found] ELSE {NoRuns} :
          work = [shape |-> shape, log |-> log, rows |-> table,
                  scratch |-> {}, tables |-> tables]
  BY DEF Init
<1>2. PICK log \in IF shape = "legacy" THEN LegacyLogs ELSE {<<>>},
           table \in IF shape = "keyed" THEN [Runs -> Found] ELSE {NoRuns} :
        work = [shape |-> shape, log |-> log, rows |-> table,
                scratch |-> {}, tables |-> tables]
  BY <1>1
<1>a. log \in LegacyLogs \cup {<<>>} /\ table \in Tables
  BY NoRunsIsTable, StoreAssumption DEF Tables
<1>b. /\ work \in Databases /\ work.scratch = {}
      /\ work.shape # "keyed" => work.rows = NoRuns
  BY <1>2, <1>a DEF Databases
<1>c. /\ commits \in Seq(Databases) /\ commits # <<>> /\ DOMAIN commits = {1}
      /\ commits[1] = work
  BY <1>b DEF Init
<1>3. TypeOK
  BY <1>b, <1>c DEF Init, TypeOK
<1>4. FileOK
  BY <1>b, <1>c DEF FileOK
<1>5. TransactionOK /\ OpenOK /\ JobsOK /\ AckedIsStored
  BY DEF Init, TransactionOK, OpenOK, OpenAt, JobsOK, AckedIsStored
<1> QED
  BY <1>3, <1>4, <1>5 DEF StoreInv

InTransaction == {"copying", "dropping", "renaming", "committing"}
Places == Migrating \cup {"down", "serving", "draining", "closed", "cut"}

\* A process gets somewhere without touching the file.
LEMMA MoveInv ==
  ASSUME StoreInv, UNCHANGED fileVars, UNCHANGED <<jobs, acked>>,
         NEW p \in Processes, NEW to \in Places \ InTransaction,
         pc' = [pc EXCEPT ![p] = to], pc[p] \notin InTransaction,
         to \in {"schema", "serving", "draining"} => Database.shape # "legacy",
         to \in {"serving", "draining"} => Complete(Database),
         to \in {"serving", "draining", "cut"} \/ \A j \in jobs : j.at # p
  PROVE  StoreInv'
<1>1. TypeOK'
  BY DEF StoreInv, TypeOK, fileVars, Places
<1>2. Database' = Database /\ FileOK'
  BY DEF StoreInv, FileOK, fileVars, Database
<1>3. pc'[p] = to /\ \A q \in Processes : q # p => pc'[q] = pc[q]
  BY DEF StoreInv, TypeOK
<1>4. TransactionOK'
  <2>1. \A q \in Processes : q \in writer <=> pc'[q] \in InTransaction
    BY <1>3 DEF StoreInv, TransactionOK, InTransaction
  <2>2. ASSUME NEW q \in writer PROVE WorkOK(q)'
    <3>1. q \in Processes /\ q # p /\ pc'[q] = pc[q]
      BY <1>3 DEF StoreInv, TypeOK, TransactionOK, InTransaction
    <3> QED
      BY <1>2, <3>1 DEF StoreInv, TransactionOK, WorkOK, fileVars
  <2> QED
    BY <2>1, <2>2 DEF StoreInv, TransactionOK, fileVars, InTransaction
<1>5. OpenOK'
  BY <1>2, <1>3 DEF StoreInv, OpenOK, OpenAt
<1>6. JobsOK'
  <2> SUFFICES ASSUME NEW j \in jobs
               PROVE  /\ pc'[j.at] \in {"serving", "draining", "cut"}
                      /\ j.step = "stored" => Told(StateOf(Database), j.obs)'
    BY DEF JobsOK
  <2>1. j.at \in Processes
    BY JobFacts DEF StoreInv
  <2> QED
    BY <1>2, <1>3, <2>1 DEF StoreInv, JobsOK
<1>7. AckedIsStored'
  BY <1>2 DEF StoreInv, AckedIsStored
<1> QED
  BY <1>1, <1>2, <1>4, <1>5, <1>6, <1>7 DEF StoreInv

\* The deliveries move on: the file and the processes stay where they are.
LEMMA JobInv ==
  ASSUME StoreInv, UNCHANGED fileVars, UNCHANGED pc,
         jobs' \subseteq [at : Processes, obs : Arrivals, step : {"storing", "stored"}],
         \A j \in jobs' : j \in jobs \/ (j.step = "storing" /\ pc[j.at] = "serving"),
         acked' \subseteq Arrivals,
         \A o \in acked' : o \in acked \/ Told(StateOf(Database), o)
  PROVE  StoreInv'
<1>1. TypeOK'
  BY DEF StoreInv, TypeOK, fileVars
<1>2. Database' = Database /\ FileOK'
  BY DEF StoreInv, FileOK, fileVars, Database
<1>3. TransactionOK'
  BY <1>2 DEF StoreInv, TransactionOK, WorkOK, fileVars
<1>4. OpenOK'
  BY <1>2 DEF StoreInv, OpenOK, OpenAt
<1>5. JobsOK'
  BY <1>2 DEF StoreInv, JobsOK
<1>6. AckedIsStored'
  BY <1>2 DEF StoreInv, AckedIsStored
<1> QED
  BY <1>1, <1>2, <1>3, <1>4, <1>5, <1>6 DEF StoreInv

LEMMA EndsInv ==
  ASSUME StoreInv, NEW p \in Processes, Ends(p)
  PROVE  StoreInv'
<1> USE DEF Ends
<1>1. TypeOK'
  BY DEF StoreInv, TypeOK
<1>2. Database' = Database /\ FileOK'
  BY DEF StoreInv, FileOK, Database
<1>3. pc'[p] = "down" /\ \A q \in Processes : q # p => pc'[q] = pc[q]
  BY DEF StoreInv, TypeOK
<1>4. TransactionOK'
  <2>1. \A q \in Processes : q \in writer' <=> pc'[q] \in InTransaction
    BY <1>3 DEF StoreInv, TransactionOK, InTransaction
  <2>2. ASSUME NEW q \in writer' PROVE WorkOK(q)'
    <3>1. q \in writer /\ q \in Processes /\ pc'[q] = pc[q]
      BY <1>3 DEF StoreInv, TypeOK
    <3> QED
      BY <1>2, <3>1 DEF StoreInv, TransactionOK, WorkOK
  <2> QED
    BY <2>1, <2>2 DEF StoreInv, TransactionOK, InTransaction
<1>5. OpenOK'
  BY <1>2, <1>3 DEF StoreInv, OpenOK, OpenAt
<1>6. JobsOK'
  <2> SUFFICES ASSUME NEW j \in jobs'
               PROVE  /\ pc'[j.at] \in {"serving", "draining", "cut"}
                      /\ j.step = "stored" => Told(StateOf(Database), j.obs)'
    BY DEF JobsOK
  <2>1. j \in jobs /\ j.at # p /\ j.at \in Processes
    BY JobFacts DEF StoreInv
  <2> QED
    BY <1>2, <1>3, <2>1 DEF StoreInv, JobsOK
<1>7. AckedIsStored'
  BY <1>2 DEF StoreInv, AckedIsStored
<1> QED
  BY <1>1, <1>2, <1>4, <1>5, <1>6, <1>7 DEF StoreInv
\* A statement of a transaction: the file is as it was, the work is as expected.
LEMMA StatementInv ==
  ASSUME StoreInv, NEW p \in Processes, NEW to \in InTransaction,
         pc' = [pc EXCEPT ![p] = to],
         pc[p] \in InTransaction \cup {"collapsing"},
         writer \subseteq {p}, writer' = {p}, work' \in Databases,
         UNCHANGED <<commits, jobs, acked>>, WorkOK(p)'
  PROVE  StoreInv'
<1>1. TypeOK'
  BY DEF StoreInv, TypeOK, InTransaction, Migrating
<1>2. Database' = Database /\ FileOK'
  BY DEF StoreInv, FileOK, Database
<1>3. pc'[p] = to /\ \A q \in Processes : q # p => pc'[q] = pc[q]
  BY DEF StoreInv, TypeOK
<1>4. TransactionOK'
  <2>1. \A q \in Processes : q \in writer' <=> pc'[q] \in InTransaction
    BY <1>3 DEF StoreInv, TransactionOK, InTransaction
  <2>2. \A q \in writer' : WorkOK(q)'
    OBVIOUS
  <2> QED
    BY <2>1, <2>2 DEF TransactionOK, InTransaction
<1>5. OpenOK'
  BY <1>2, <1>3 DEF StoreInv, OpenOK, OpenAt, InTransaction
<1>6. JobsOK'
  <2> SUFFICES ASSUME NEW j \in jobs
               PROVE  /\ pc'[j.at] \in {"serving", "draining", "cut"}
                      /\ j.step = "stored" => Told(StateOf(Database), j.obs)'
    BY DEF JobsOK
  <2>1. j.at \in Processes
    BY JobFacts DEF StoreInv
  <2> QED
    BY <1>2, <1>3, <2>1 DEF StoreInv, JobsOK, InTransaction
<1>7. AckedIsStored'
  BY <1>2 DEF StoreInv, AckedIsStored
<1> QED
  BY <1>1, <1>2, <1>4, <1>5, <1>6, <1>7 DEF StoreInv

LEMMA MigrationInv ==
  ASSUME StoreInv, NEW p \in Processes,
         CreateScratch(p) \/ Copy(p) \/ Drop(p) \/ Rename(p)
  PROVE  StoreInv'
<1>1. /\ Database \in Databases /\ work \in Databases
      /\ Database.log \in Logs /\ work.log \in Logs /\ work.scratch \in SUBSET Tables
  BY FileType, Fields DEF StoreInv, TypeOK
<1>2. \A to : pc' = [pc EXCEPT ![p] = to] => pc'[p] = to
  BY DEF StoreInv, TypeOK
<1>3. commits' = commits => Database' = Database
  BY DEF Database
<1>4. CASE CreateScratch(p)
  <2>1. /\ pc[p] = "collapsing" /\ pc' = [pc EXCEPT ![p] = "copying"]
        /\ writer \subseteq {p} /\ writer' = {p} /\ commits' = commits
        /\ work' = [Database EXCEPT !.scratch = {NoRuns}] /\ jobs' = jobs /\ acked' = acked
    BY <1>4 DEF CreateScratch, Go, Statement
  <2>2. work' \in Databases
    BY <1>1, <2>1, NoRunsIsTable DEF Databases
  <2>3. /\ work'.tables = Database.tables /\ work'.shape = Database.shape
        /\ work'.log = Database.log
    BY <1>1, <2>1 DEF Databases
  <2>4. WorkOK(p)'
    BY <1>2, <1>3, <2>1, <2>3 DEF WorkOK
  <2> QED
    BY <2>1, <2>2, <2>4, StatementInv DEF InTransaction
<1>5. CASE Copy(p)
  <2>1. /\ pc[p] = "copying" /\ pc' = [pc EXCEPT ![p] = "dropping"] /\ work.shape = "legacy"
        /\ writer \subseteq {p} /\ writer' = {p} /\ commits' = commits
        /\ work' = [work EXCEPT !.scratch = {Collapsed(work.log)}]
        /\ jobs' = jobs /\ acked' = acked
    BY <1>5 DEF Copy, Go, Statement
  <2>2. /\ work.tables = Database.tables /\ work.shape = Database.shape
        /\ work.log = Database.log
    BY <2>1 DEF StoreInv, TransactionOK, WorkOK
  <2>3. Collapsed(work.log) \in Tables
    BY <1>1, CollapsedIsLatest
  <2>4. work' \in Databases /\ work'.tables = work.tables
        /\ work'.scratch = {Collapsed(work.log)}
    BY <1>1, <2>1, <2>3 DEF Databases
  <2>5. WorkOK(p)'
    BY <1>2, <1>3, <2>1, <2>2, <2>4 DEF WorkOK
  <2> QED
    BY <2>1, <2>4, <2>5, StatementInv DEF InTransaction
<1>6. CASE Drop(p)
  <2>1. /\ pc[p] = "dropping" /\ pc' = [pc EXCEPT ![p] = "renaming"]
        /\ writer \subseteq {p} /\ writer' = {p} /\ commits' = commits
        /\ work' = [work EXCEPT !.shape = "absent", !.log = <<>>]
        /\ jobs' = jobs /\ acked' = acked
    BY <1>6 DEF Drop, Go, Statement
  <2>2. /\ work.tables = Database.tables /\ Database.shape = "legacy"
        /\ work.scratch = {Collapsed(Database.log)}
    BY <2>1 DEF StoreInv, TransactionOK, WorkOK
  <2>3. work' \in Databases /\ work'.tables = work.tables /\ work'.scratch = work.scratch
    BY <1>1, <2>1 DEF Databases
  <2>4. WorkOK(p)'
    BY <1>2, <1>3, <2>1, <2>2, <2>3 DEF WorkOK
  <2> QED
    BY <2>1, <2>3, <2>4, StatementInv DEF InTransaction
<1>7. CASE Rename(p)
  <2>1. PICK table \in work.scratch :
          /\ pc[p] = "renaming" /\ pc' = [pc EXCEPT ![p] = "committing"]
          /\ writer \subseteq {p} /\ writer' = {p} /\ commits' = commits
          /\ work' = [work EXCEPT !.shape = "keyed", !.rows = table, !.scratch = {}]
          /\ jobs' = jobs /\ acked' = acked
    BY <1>7 DEF Rename, Go, Statement
  <2>2. /\ work.tables = Database.tables /\ Database.shape = "legacy"
        /\ table = Collapsed(Database.log) /\ table \in Tables
    BY <1>1, <2>1 DEF StoreInv, TransactionOK, WorkOK
  <2>3. /\ work' \in Databases /\ work'.tables = work.tables /\ work'.scratch = {}
        /\ work'.shape = "keyed" /\ work'.rows = table
    BY <1>1, <2>1, <2>2 DEF Databases
  <2>4. WorkOK(p)'
    BY <1>2, <1>3, <2>1, <2>2, <2>3 DEF WorkOK
  <2> QED
    BY <2>1, <2>3, <2>4, StatementInv DEF InTransaction
<1> QED
  BY <1>4, <1>5, <1>6, <1>7

\* A commit, of a migration or of a statement by itself: the file still says
\* what it was told, and what the open stores rely on stays.
LEMMA AppendInv ==
  ASSUME StoreInv, NEW d \in Databases, commits' = Append(commits, d),
         work' \in Databases, writer' = {}, acked' = acked,
         d.scratch = {}, d.shape # "keyed" => d.rows = NoRuns,
         \A o \in Arrivals : Told(StateOf(Database), o) => Told(StateOf(d), o),
         pc' \in [Processes -> Places \ InTransaction],
         \A p \in Processes :
           /\ pc'[p] \in {"schema", "serving", "draining"} => d.shape # "legacy"
           /\ pc'[p] \in {"serving", "draining"} => Complete(d),
         jobs' \subseteq [at : Processes, obs : Arrivals, step : {"storing", "stored"}],
         \A j \in jobs' :
           /\ pc'[j.at] \in {"serving", "draining", "cut"}
           /\ j.step = "stored" => j \in jobs \/ Told(StateOf(d), j.obs)
  PROVE  StoreInv'
<1>1. /\ commits' \in Seq(Databases) /\ commits' # <<>> /\ Database' = d
      /\ \A i \in DOMAIN commits' : commits'[i] = d \/ \E k \in DOMAIN commits : commits'[i] = commits[k]
  BY Appended DEF StoreInv
<1>2. TypeOK'
  BY <1>1 DEF StoreInv, TypeOK, Places
<1>3. FileOK'
  BY <1>1 DEF StoreInv, FileOK
<1>4. TransactionOK'
  BY DEF TransactionOK, InTransaction
<1>5. OpenOK'
  BY <1>1 DEF OpenOK, OpenAt
<1>6. \A o \in Arrivals : Told(StateOf(Database), o) => Told(StateOf(Database), o)'
  BY <1>1 DEF Told
<1>7. JobsOK'
  <2> SUFFICES ASSUME NEW j \in jobs', j.step = "stored"
               PROVE  Told(StateOf(Database), j.obs)'
    BY DEF JobsOK
  <2>1. CASE j \in jobs
    BY <1>6, <2>1, JobFacts DEF StoreInv, JobsOK
  <2>2. CASE j \notin jobs
    BY <1>1, <2>2 DEF Told
  <2> QED
    BY <2>1, <2>2
<1>8. AckedIsStored'
  BY <1>6 DEF StoreInv, TypeOK, AckedIsStored
<1> QED
  BY <1>2, <1>3, <1>4, <1>5, <1>7, <1>8 DEF StoreInv
\* A migration that commits changes nothing a reader can see.
LEMMA MigratedIsTheSame ==
  ASSUME StoreInv, NEW p \in Processes, pc[p] = "committing"
  PROVE  /\ p \in writer /\ writer = {p} /\ work.shape = "keyed" /\ work.scratch = {}
         /\ StateOf(work) = StateOf(Database) /\ Database.shape = "legacy"
<1>1. p \in writer /\ writer = {p} /\ WorkOK(p)
  BY DEF StoreInv, TransactionOK
<1>2. Database.shape = "legacy" /\ work.shape = "keyed" /\ work.scratch = {}
      /\ work.rows = Collapsed(Database.log)
  BY <1>1 DEF WorkOK
<1>3. Database.log \in Logs
  BY FileType, Fields DEF StoreInv
<1>4. StateOf(work) = Collapsed(Database.log) /\ StateOf(Database) = Latest(Database.log)
  BY <1>2 DEF StateOf
<1> QED
  BY <1>1, <1>2, <1>3, <1>4, CollapsedIsLatest

LEMMA AtRest ==
  ASSUME StoreInv, writer = {}
  PROVE  pc \in [Processes -> Places \ InTransaction]
BY DEF StoreInv, TypeOK, TransactionOK, InTransaction, Places

LEMMA CommitInv ==
  ASSUME StoreInv, NEW p \in Processes, Commit(p)
  PROVE  StoreInv'
<1>1. /\ pc[p] = "committing" /\ pc' = [pc EXCEPT ![p] = "schema"]
      /\ commits' = Append(commits, work) /\ writer' = {} /\ work' = work
      /\ jobs' = jobs /\ acked' = acked
  BY DEF Commit, Go
<1>2. /\ writer = {p} /\ work.shape = "keyed" /\ work.scratch = {}
      /\ StateOf(work) = StateOf(Database) /\ Database.shape = "legacy"
      /\ work \in Databases /\ Database \in Databases
  BY <1>1, MigratedIsTheSame, FileType DEF StoreInv, TypeOK
<1>3. pc'[p] = "schema" /\ \A q \in Processes : q # p => pc'[q] = pc[q]
  BY <1>1 DEF StoreInv, TypeOK
<1>4. pc' \in [Processes -> Places \ InTransaction]
  <2>1. "schema" \in Places \ InTransaction
    BY DEF Places, Migrating, InTransaction
  <2>2. \A q \in Processes : q # p => pc[q] \in Places \ InTransaction
    BY <1>2 DEF StoreInv, TypeOK, TransactionOK, InTransaction, Places
  <2> QED
    BY <1>1, <2>1, <2>2 DEF StoreInv, TypeOK
<1>5. \A q \in Processes : pc'[q] \notin {"serving", "draining"}
  BY <1>2, <1>3 DEF StoreInv, OpenOK
<1>6. ASSUME NEW j \in jobs PROVE pc'[j.at] \in {"serving", "draining", "cut"}
  BY <1>1, <1>3, JobFacts DEF StoreInv, JobsOK
<1>7. jobs' \subseteq [at : Processes, obs : Arrivals, step : {"storing", "stored"}]
  BY <1>1 DEF StoreInv, TypeOK
<1>8. \A o \in Arrivals : Told(StateOf(Database), o) => Told(StateOf(work), o)
  BY <1>2
<1> QED
  BY <1>1, <1>2, <1>4, <1>5, <1>6, <1>7, <1>8, AppendInv

\* What is written next to a schema that is not complete yet.
LEMMA SchemaStatement ==
  ASSUME StoreInv, NEW p \in Processes, Schema(p)
  PROVE  \E d \in Databases :
           /\ Write(d) /\ d.scratch = {} /\ d.shape = "keyed"
           /\ StateOf(d) = StateOf(Database)
           /\ ~ Complete(Database)
<1>1. /\ Database \in Databases /\ Database.shape \in {"absent", "keyed"}
      /\ Database.scratch = {}
      /\ Database.shape # "keyed" => Database.rows = NoRuns
      /\ ~ Complete(Database) /\ Database.tables \in 0..2
  BY FileType, Fields DEF StoreInv, FileOK, OpenOK, Schema, Database
<1>2. CASE Database.shape = "absent"
  <2> DEFINE d == [Database EXCEPT !.shape = "keyed"]
  <2>1. d \in Databases /\ d.scratch = {} /\ d.shape = "keyed" /\ d.rows = NoRuns
    BY <1>1, <1>2 DEF Databases
  <2>2. Write(d)
    BY <1>2 DEF Schema
  <2>3. StateOf(d) = NoRuns /\ StateOf(Database) = NoRuns
    BY <1>2, <2>1 DEF StateOf
  <2> QED
    BY <1>1, <2>1, <2>2, <2>3
<1>3. CASE Database.shape = "keyed"
  <2> DEFINE d == [Database EXCEPT !.tables = @ + 1]
  <2>1. Database.tables + 1 \in 0..2
    BY <1>1, <1>3 DEF Complete
  <2>2. /\ d \in Databases /\ d.scratch = {} /\ d.shape = "keyed"
        /\ d.rows = Database.rows
    BY <1>1, <1>3, <2>1 DEF Databases
  <2>3. Write(d)
    BY <1>3 DEF Schema
  <2>4. StateOf(d) = StateOf(Database)
    BY <1>3, <2>2 DEF StateOf
  <2> QED
    BY <1>1, <2>2, <2>3, <2>4
<1> QED
  BY <1>1, <1>2, <1>3

LEMMA SchemaInv ==
  ASSUME StoreInv, NEW p \in Processes, Schema(p)
  PROVE  StoreInv'
<1>1. PICK d \in Databases :
        /\ Write(d) /\ d.scratch = {} /\ d.shape = "keyed"
        /\ StateOf(d) = StateOf(Database) /\ ~ Complete(Database)
  BY SchemaStatement
<1>2. /\ commits' = Append(commits, d) /\ writer = {} /\ writer' = {} /\ work' = work
      /\ pc' = pc /\ jobs' = jobs /\ acked' = acked
  BY <1>1 DEF Write, Schema
<1>3. \A q \in Processes : pc[q] \notin {"serving", "draining"}
  BY <1>1 DEF StoreInv, OpenOK, OpenAt
<1>4. pc' \in [Processes -> Places \ InTransaction]
  BY <1>2, AtRest
<1>5. /\ jobs' \subseteq [at : Processes, obs : Arrivals, step : {"storing", "stored"}]
      /\ work' \in Databases /\ \A j \in jobs : pc[j.at] \in {"serving", "draining", "cut"}
  BY <1>2 DEF StoreInv, TypeOK, JobsOK
<1>6. \A o \in Arrivals : Told(StateOf(Database), o) => Told(StateOf(d), o)
  BY <1>1
<1> QED
  BY <1>1, <1>2, <1>3, <1>4, <1>5, <1>6, AppendInv

\* What a statement that writes a row makes of the file while a store is open on it.
Writing(d, table) ==
  /\ d \in Databases /\ d.shape = "keyed" /\ d.scratch = {} /\ d.tables = Database.tables
  /\ StateOf(d) = table

LEMMA OpenDatabase ==
  ASSUME StoreInv, NEW p \in Processes, OpenAt(p)
  PROVE  /\ Database.shape = "keyed" /\ Complete(Database) /\ Database \in Databases
         /\ Database.rows \in Tables /\ Database.scratch = {}
         /\ StateOf(Database) = Database.rows
<1>1. Database.shape = "keyed" /\ Complete(Database) /\ Database \in Databases
  BY FileType, Fields DEF StoreInv, OpenOK, OpenAt, Complete
<1> QED
  BY <1>1, FileType, Fields DEF StoreInv, FileOK, Database, StateOf

LEMMA WrittenDatabase ==
  ASSUME StoreInv, NEW p \in Processes, OpenAt(p)
  PROVE  /\ \A o \in Arrivals :
              Writing(Upsert(Database, o), [StateOf(Database) EXCEPT ![o.run] = Upserted(@, o)])
         /\ \A r \in Runs, at \in Stamps :
              Writing(Close(Database, r, at), [StateOf(Database) EXCEPT ![r] = Closed(@, at)])
<1>1. /\ Database.shape = "keyed" /\ Database \in Databases
      /\ Database.rows \in Tables /\ Database.scratch = {}
      /\ StateOf(Database) = Database.rows
  BY OpenDatabase
<1>2. ASSUME NEW table \in Tables
      PROVE  Writing([Database EXCEPT !.rows = table], table)
  BY <1>1 DEF Writing, Databases, StateOf
<1>3. ASSUME NEW o \in Arrivals
      PROVE  Writing(Upsert(Database, o), [StateOf(Database) EXCEPT ![o.run] = Upserted(@, o)])
  <2> DEFINE table == [Database.rows EXCEPT ![o.run] = Upserted(@, o)]
  <2>1. table \in Tables /\ Upsert(Database, o) = [Database EXCEPT !.rows = table]
    BY <1>1, UpsertTells DEF Upsert
  <2> HIDE DEF table
  <2>2. Writing(Upsert(Database, o), table)
    BY <1>2, <2>1
  <2> QED
    BY <1>1, <2>2 DEF table
<1>4. ASSUME NEW r \in Runs, NEW at \in Stamps
      PROVE  Writing(Close(Database, r, at), [StateOf(Database) EXCEPT ![r] = Closed(@, at)])
  <2> DEFINE table == [Database.rows EXCEPT ![r] = Closed(@, at)]
  <2>1. Closed(Database.rows[r], at) \in Row
    BY <1>1, StoreAssumption DEF Tables, Closed, Row, RowStatus, AnyConclusion
  <2>2. table \in Tables /\ Close(Database, r, at) = [Database EXCEPT !.rows = table]
    BY <1>1, <2>1 DEF Close, Tables
  <2> HIDE DEF table
  <2>3. Writing(Close(Database, r, at), table)
    BY <1>2, <2>2
  <2> QED
    BY <1>1, <2>3 DEF table
<1> QED
  BY <1>3, <1>4

\* A row is written: by a delivery, which is then stored, or by a sweep.
LEMMA WriteInv ==
  ASSUME StoreInv, NEW p \in Processes, OpenAt(p), NEW d, Write(d), pc' = pc, acked' = acked,
         Writing(d, StateOf(d)),
         \A o \in Arrivals : Told(StateOf(Database), o) => Told(StateOf(d), o),
         \/ jobs' = jobs
         \/ \E j \in jobs : /\ Told(StateOf(d), j.obs)
                            /\ jobs' = (jobs \ {j}) \cup {[j EXCEPT !.step = "stored"]}
  PROVE  StoreInv'
<1>1. Database.shape = "keyed" /\ Complete(Database) /\ Database \in Databases
  BY OpenDatabase
<1>2. d \in Databases /\ d.shape = "keyed" /\ d.scratch = {} /\ d.tables = Database.tables
  BY DEF Writing
<1>3. /\ commits' = Append(commits, d) /\ writer = {} /\ writer' = {} /\ work' = work
  BY DEF Write
<1>4. pc' \in [Processes -> Places \ InTransaction]
  BY <1>3, AtRest
<1>5. Complete(d)
  BY <1>1, <1>2 DEF Complete
<1>6. /\ jobs' \subseteq [at : Processes, obs : Arrivals, step : {"storing", "stored"}]
      /\ \A j \in jobs' :
           /\ pc'[j.at] \in {"serving", "draining", "cut"}
           /\ j.step = "stored" => j \in jobs \/ Told(StateOf(d), j.obs)
  <2>1. CASE jobs' = jobs
    BY <2>1 DEF StoreInv, TypeOK, JobsOK
  <2>2. CASE jobs' # jobs
    <3>1. PICK j \in jobs : /\ Told(StateOf(d), j.obs)
                            /\ jobs' = (jobs \ {j}) \cup {[j EXCEPT !.step = "stored"]}
      BY <2>2
    <3> DEFINE k == [j EXCEPT !.step = "stored"]
    <3>2. j \in [at : Processes, obs : Arrivals, step : {"storing", "stored"}]
      BY DEF StoreInv, TypeOK
    <3>3. /\ k \in [at : Processes, obs : Arrivals, step : {"storing", "stored"}]
          /\ k.at = j.at /\ k.obs = j.obs
      BY <3>2
    <3>4. \A i \in jobs' : i \in jobs \/ i = k
      BY <3>1
    <3> HIDE DEF k
    <3>5. pc'[k.at] \in {"serving", "draining", "cut"}
      BY <3>3 DEF StoreInv, JobsOK
    <3> QED
      BY <3>1, <3>3, <3>4, <3>5 DEF StoreInv, TypeOK, JobsOK
  <2> QED
    BY <2>1, <2>2
<1>7. work' \in Databases
  BY <1>3 DEF StoreInv, TypeOK
<1> QED
  BY <1>2, <1>3, <1>4, <1>5, <1>6, <1>7, AppendInv
\* The file is cut back to an earlier commit, or to its last one only.
LEMMA CutInv ==
  ASSUME StoreInv, NEW i \in DOMAIN commits, commits' = <<commits[i]>>, work' = work,
         \/ i = Len(commits) /\ UNCHANGED <<writer, pc, jobs, acked>>
         \/ /\ pc' = [p \in Processes |-> "down"]
            /\ writer' = {} /\ jobs' = {} /\ acked' = {}
  PROVE  StoreInv'
<1>1. /\ commits[i] \in Databases /\ commits' \in Seq(Databases) /\ commits' # <<>>
      /\ DOMAIN commits' = {1} /\ Database' = commits[i] /\ commits'[1] = commits[i]
  BY FileType DEF StoreInv, Database
<1>2. TypeOK'
  BY <1>1 DEF StoreInv, TypeOK
<1>3. FileOK'
  BY <1>1 DEF StoreInv, FileOK
<1>4. CASE i = Len(commits) /\ UNCHANGED <<writer, pc, jobs, acked>>
  <2>1. Database' = Database
    BY <1>1, <1>4 DEF Database
  <2>2. TransactionOK'
    BY <1>4, <2>1 DEF StoreInv, TransactionOK, WorkOK
  <2>3. OpenOK' /\ JobsOK' /\ AckedIsStored'
    BY <1>4, <2>1 DEF StoreInv, OpenOK, OpenAt, JobsOK, AckedIsStored
  <2> QED
    BY <1>2, <1>3, <2>2, <2>3 DEF StoreInv
<1>5. CASE /\ pc' = [p \in Processes |-> "down"]
           /\ writer' = {} /\ jobs' = {} /\ acked' = {}
  <2>1. TransactionOK' /\ OpenOK' /\ JobsOK' /\ AckedIsStored'
    BY <1>5 DEF TransactionOK, OpenOK, OpenAt, JobsOK, AckedIsStored
  <2> QED
    BY <1>2, <1>3, <2>1 DEF StoreInv
<1> QED
  BY <1>4, <1>5

LEMMA ProcessInv ==
  ASSUME StoreInv, NEW p \in Processes,
         \/ Start(p) \/ Inspect(p) \/ Serve(p) \/ Signal(p)
         \/ Drained(p) \/ DrainTimesOut(p) \/ ListenerFails(p)
  PROVE  StoreInv'
<1>1. ASSUME pc[p] \notin {"serving", "draining", "cut"}
      PROVE  \A j \in jobs : j.at # p
  BY <1>1 DEF StoreInv, JobsOK
<1>2. /\ {"down", "inspecting", "collapsing", "schema", "serving", "draining",
           "closed", "cut"} \subseteq Places \ InTransaction
      /\ InTransaction = {"copying", "dropping", "renaming", "committing"}
  BY DEF Places, Migrating, InTransaction
<1>3. CASE Start(p)
  BY <1>1, <1>2, <1>3, MoveInv DEF Start, Go
<1>4. CASE Inspect(p)
  <2>1. CASE Database.shape = "legacy"
    BY <1>1, <1>2, <1>4, <2>1, MoveInv DEF Inspect, Go
  <2>2. CASE Database.shape # "legacy"
    BY <1>1, <1>2, <1>4, <2>2, MoveInv DEF Inspect, Go
  <2> QED
    BY <2>1, <2>2
<1>5. CASE Serve(p)
  <2>1. Database.shape # "legacy"
    BY <1>5 DEF Serve, Go, StoreInv, OpenOK
  <2> QED
    BY <1>2, <1>5, <2>1, MoveInv DEF Serve, Go
<1>6. CASE Signal(p)
  <2>1. Database.shape # "legacy" /\ Complete(Database)
    BY <1>6 DEF Signal, Go, StoreInv, OpenOK, OpenAt
  <2> QED
    BY <1>2, <1>6, <2>1, MoveInv DEF Signal, Go
<1>7. CASE Drained(p)
  BY <1>2, <1>7, MoveInv DEF Drained, Go
<1>8. CASE DrainTimesOut(p)
  BY <1>2, <1>8, MoveInv DEF DrainTimesOut, Go
<1>9. CASE ListenerFails(p)
  BY <1>2, <1>9, MoveInv DEF ListenerFails, Go
<1> QED
  BY <1>3, <1>4, <1>5, <1>6, <1>7, <1>8, <1>9

LEMMA DeliveryInv ==
  ASSUME StoreInv,
         \/ \E p \in Processes, o \in Arrivals : Accept(p, o)
         \/ \E j \in jobs : Refuse(j) \/ Acknowledge(j)
  PROVE  StoreInv'
<1>1. CASE \E p \in Processes, o \in Arrivals : Accept(p, o)
  <2>1. PICK p \in Processes, o \in Arrivals : Accept(p, o)
    BY <1>1
  <2> DEFINE k == [at |-> p, obs |-> o, step |-> "storing"]
  <2>2. /\ jobs' = jobs \cup {k} /\ pc[p] = "serving" /\ acked' = acked
        /\ UNCHANGED fileVars /\ UNCHANGED pc
    BY <2>1 DEF Accept
  <2>3. k.at = p /\ k.step = "storing"
        /\ k \in [at : Processes, obs : Arrivals, step : {"storing", "stored"}]
    OBVIOUS
  <2> HIDE DEF k
  <2>4. jobs' \subseteq [at : Processes, obs : Arrivals, step : {"storing", "stored"}]
    BY <2>2, <2>3 DEF StoreInv, TypeOK
  <2>5. acked' \subseteq Arrivals
    BY <2>2 DEF StoreInv, TypeOK
  <2> QED
    BY <2>2, <2>3, <2>4, <2>5, JobInv
<1>2. CASE \E j \in jobs : Refuse(j) \/ Acknowledge(j)
  <2>1. PICK j \in jobs : Refuse(j) \/ Acknowledge(j)
    BY <1>2
  <2>2. /\ jobs' = jobs \ {j} /\ UNCHANGED fileVars /\ UNCHANGED pc
        /\ acked' = acked \/ (acked' = acked \cup {j.obs} /\ j.step = "stored")
    BY <2>1 DEF Refuse, Acknowledge
  <2>3. j.step = "stored" => Told(StateOf(Database), j.obs)
    BY DEF StoreInv, JobsOK
  <2>4. /\ acked' \subseteq Arrivals
        /\ jobs' \subseteq [at : Processes, obs : Arrivals, step : {"storing", "stored"}]
    BY <2>2, JobFacts DEF StoreInv, TypeOK
  <2> QED
    BY <2>2, <2>3, <2>4, JobInv
<1> QED
  BY <1>1, <1>2

\* A delivery that is stored, and the writes of a sweep.
LEMMA StoreKeepsInv ==
  ASSUME StoreInv, NEW j \in jobs, Store(j)
  PROVE  StoreInv'
<1>1. /\ OpenAt(j.at) /\ Write(Upsert(Database, j.obs)) /\ pc' = pc /\ acked' = acked
      /\ jobs' = (jobs \ {j}) \cup {[j EXCEPT !.step = "stored"]}
      /\ j.at \in Processes /\ j.obs \in Arrivals
  BY JobFacts DEF Store, StoreInv
<1> DEFINE d == Upsert(Database, j.obs)
<1>2. Writing(d, [StateOf(Database) EXCEPT ![j.obs.run] = Upserted(@, j.obs)])
  BY <1>1, WrittenDatabase
<1>3. StateOf(Database) \in Tables
  BY <1>1, OpenDatabase
<1> HIDE DEF d
<1>4. /\ Writing(d, StateOf(d)) /\ Told(StateOf(d), j.obs)
      /\ \A o \in Arrivals : Told(StateOf(Database), o) => Told(StateOf(d), o)
  BY <1>1, <1>2, <1>3, UpsertTells DEF Writing, Told
<1> QED
  BY <1>1, <1>4, WriteInv DEF d

LEMMA SweepKeepsInv ==
  ASSUME StoreInv, NEW p \in Processes, SweepWrites(p)
  PROVE  StoreInv'
<1>1. OpenAt(p) /\ pc' = pc /\ jobs' = jobs /\ acked' = acked
  BY DEF SweepWrites
<1>2. StateOf(Database) \in Tables
  BY <1>1, OpenDatabase
<1>3. ASSUME NEW o \in Arrivals, Write(Upsert(Database, o)) PROVE StoreInv'
  <2> DEFINE d == Upsert(Database, o)
  <2>1. Writing(d, [StateOf(Database) EXCEPT ![o.run] = Upserted(@, o)])
    BY <1>1, WrittenDatabase
  <2> HIDE DEF d
  <2>2. /\ Writing(d, StateOf(d))
        /\ \A x \in Arrivals : Told(StateOf(Database), x) => Told(StateOf(d), x)
    BY <1>2, <2>1, UpsertTells DEF Writing
  <2> QED
    BY <1>1, <1>3, <2>2, WriteInv DEF d
<1>4. ASSUME NEW r \in Runs, NEW at \in Stamps, Write(Close(Database, r, at))
      PROVE  StoreInv'
  <2> DEFINE d == Close(Database, r, at)
  <2>1. Writing(d, [StateOf(Database) EXCEPT ![r] = Closed(@, at)])
    BY <1>1, WrittenDatabase
  <2> HIDE DEF d
  <2>2. /\ Writing(d, StateOf(d))
        /\ \A x \in Arrivals : Told(StateOf(Database), x) => Told(StateOf(d), x)
    BY <1>2, <2>1, CloseTells DEF Writing
  <2> QED
    BY <1>1, <1>4, <2>2, WriteInv DEF d
<1> QED
  BY <1>3, <1>4 DEF SweepWrites

\* The steps, by what they do to the file.
Migrates == \E p \in Processes : CreateScratch(p) \/ Copy(p) \/ Drop(p) \/ Rename(p)
Moves ==
  \/ \E p \in Processes :
       \/ Start(p) \/ Inspect(p) \/ Serve(p) \/ Signal(p)
       \/ Drained(p) \/ DrainTimesOut(p) \/ ListenerFails(p)
  \/ \E p \in Processes, o \in Arrivals : Accept(p, o)
  \/ \E j \in jobs : Refuse(j) \/ Acknowledge(j)
  \/ \E p \in Processes : Ends(p)
Recording ==
  \/ \E p \in Processes : SweepWrites(p)
  \/ \E j \in jobs : Store(j)

\* Recording writes one row of a file that is open.
LEMMA Records ==
  ASSUME StoreInv, Recording
  PROVE  /\ \E p \in Processes : OpenAt(p)
         /\ \/ \E o \in Arrivals : Write(Upsert(Database, o))
            \/ \E r \in Runs, at \in Stamps : Write(Close(Database, r, at))
BY JobFacts DEF Recording, SweepWrites, Store, StoreInv

LEMMA Steps ==
  ASSUME Next
  PROVE  \/ Moves \/ Migrates \/ Recording
         \/ \E p \in Processes : Commit(p)
         \/ \E p \in Processes : Schema(p)
         \/ Sync \/ PowerFails
<1>1. CASE Stops
  BY <1>1 DEF Stops, Fails, Kill, Moves
<1>2. CASE \E p \in Processes : Opens(p)
  BY <1>2 DEF Opens, Refused, Moves, Migrates
<1>3. CASE \E p \in Processes : Start(p) \/ Drained(p) \/ DrainTimesOut(p) \/ Exit(p)
  BY <1>3 DEF Exit, Moves
<1>4. CASE \E p \in Processes : SweepWrites(p) \/ \E o \in Arrivals : Accept(p, o)
  BY <1>4 DEF Moves, Recording
<1>5. CASE \E j \in jobs : Handles(j)
  BY <1>5 DEF Handles, Moves, Recording
<1> QED
  BY <1>1, <1>2, <1>3, <1>4, <1>5 DEF Next

LEMMA NextInv ==
  ASSUME StoreInv, [Next]_vars
  PROVE  StoreInv'
<1>1. CASE Moves
  BY <1>1, ProcessInv, DeliveryInv, EndsInv DEF Moves
<1>2. CASE Migrates
  BY <1>2, MigrationInv DEF Migrates
<1>3. CASE Recording
  BY <1>3, StoreKeepsInv, SweepKeepsInv DEF Recording
<1>4. CASE \E p \in Processes : Commit(p)
  BY <1>4, CommitInv
<1>5. CASE \E p \in Processes : Schema(p)
  BY <1>5, SchemaInv
<1>6. CASE Sync
  <2>1. commits[Len(commits)] = Database /\ Len(commits) \in DOMAIN commits
    BY FileType DEF StoreInv, Database
  <2> QED
    BY <1>6, <2>1, CutInv DEF Sync
<1>7. CASE PowerFails
  BY <1>7, CutInv DEF PowerFails
<1>8. CASE UNCHANGED vars
  <2>1. /\ UNCHANGED fileVars /\ UNCHANGED <<pc, jobs, acked>>
        /\ jobs \subseteq [at : Processes, obs : Arrivals, step : {"storing", "stored"}]
        /\ acked \subseteq Arrivals
    BY <1>8 DEF vars, fileVars, StoreInv, TypeOK
  <2> QED
    BY <2>1, JobInv
<1> QED
  BY <1>1, <1>2, <1>3, <1>4, <1>5, <1>6, <1>7, <1>8, Steps

(* What is in the file, in the open transaction and under way fits         *)
(* together at every step of every process (Open, migrate, run).           *)
THEOREM StoreInvariance == Spec => []StoreInv
BY StoreInit, NextInv, PTL DEF Spec

(* A store that Open has handed out has the whole schema, keyed by run,    *)
(* and keeps it, whatever the other processes do (migrate).                *)
THEOREM SchemaIsServed == Spec => []ServesTheSchema
<1>1. StoreInv => ServesTheSchema
  <2> SUFFICES ASSUME StoreInv, NEW p \in Processes, OpenAt(p)
               PROVE  Database.shape = "keyed" /\ Database.tables = 2 /\ Database.scratch = {}
    BY DEF ServesTheSchema
  <2>1. Complete(Database) /\ Database.shape # "legacy"
    BY DEF StoreInv, OpenOK, OpenAt
  <2>2. Database.scratch = {} /\ Database.shape \in {"absent", "legacy", "keyed"}
    BY FileType, Fields DEF StoreInv, FileOK, Database
  <2> QED
    BY <2>1, <2>2 DEF Complete
<1> QED
  BY <1>1, StoreInvariance, PTL

(* What was acknowledged stays recorded while the power lasts              *)
(* (handleWorkflowRun).                                                    *)
THEOREM AckedStaysStored == Spec => []AckedIsStored
<1>1. StoreInv => AckedIsStored
  BY DEF StoreInv
<1> QED
  BY <1>1, StoreInvariance, PTL

-----------------------------------------------------------------------------
Recent == {StateOf(commits[i]) : i \in DOMAIN commits}

\* A commit adds what it says to what the file has said since the last sync.
LEMMA AppendedRecent ==
  ASSUME StoreInv, NEW d \in Databases, commits' = Append(commits, d)
  PROVE  StateOf(Database)' = StateOf(d) /\ Recent' = Recent \cup {StateOf(d)}
<1>1. /\ Database' = d /\ DOMAIN commits' = DOMAIN commits \cup {Len(commits) + 1}
      /\ \A i \in DOMAIN commits : commits'[i] = commits[i]
      /\ commits'[Len(commits) + 1] = d
  BY Appended DEF StoreInv
<1>2. Recent' = {StateOf(commits'[i]) : i \in DOMAIN commits'}
  BY DEF Recent
<1>3. Recent' \subseteq Recent \cup {StateOf(d)}
  BY <1>1, <1>2 DEF Recent
<1>4. Recent \cup {StateOf(d)} \subseteq Recent'
  BY <1>1, <1>2 DEF Recent
<1> QED
  BY <1>1, <1>3, <1>4

LEMMA CutRecent ==
  ASSUME StoreInv, NEW i \in DOMAIN commits, commits' = <<commits[i]>>
  PROVE  /\ StateOf(Database)' = StateOf(commits[i]) /\ Recent' = {StateOf(commits[i])}
         /\ StateOf(commits[i]) \in Recent
<1>1. Database' = commits[i] /\ DOMAIN commits' = {1} /\ commits'[1] = commits[i]
  BY DEF Database
<1>2. Recent' = {StateOf(commits'[k]) : k \in DOMAIN commits'}
  BY DEF Recent
<1> QED
  BY <1>1, <1>2 DEF Recent

\* The last commit is one of those since the last sync.
LEMMA StateIsRecent == ASSUME StoreInv PROVE StateOf(Database) \in Recent
BY FileType DEF StoreInv, Recent, Database

LEMMA StepsOfTheLedger ==
  ASSUME StoreInv, [Next]_vars
  PROVE  \/ UNCHANGED <<StateOf(Database), Recent>>
         \/ \E o \in Arrivals :
              /\ StateOf(Database)' = [StateOf(Database) EXCEPT ![o.run] = Upserted(@, o)]
              /\ Recent' = Recent \cup {StateOf(Database)'}
         \/ \E r \in Runs, at \in Stamps :
              /\ StateOf(Database)' = [StateOf(Database) EXCEPT ![r] = Closed(@, at)]
              /\ Recent' = Recent \cup {StateOf(Database)'}
         \/ StateOf(Database)' = StateOf(Database) /\ Recent' = {StateOf(Database)'}
         \/ StateOf(Database)' \in Recent /\ Recent' = {StateOf(Database)'}
<1>1. CASE commits' = commits
  BY <1>1 DEF Recent, Database
<1>2. ASSUME NEW d \in Databases, commits' = Append(commits, d), StateOf(d) = StateOf(Database)
      PROVE  UNCHANGED <<StateOf(Database), Recent>>
  BY <1>2, AppendedRecent, StateIsRecent
<1>3. CASE Recording
  <2>1. PICK p \in Processes : OpenAt(p)
    BY <1>3, Records
  <2>2. ASSUME NEW d, NEW table, Write(d), Writing(d, table)
        PROVE  StateOf(Database)' = table /\ Recent' = Recent \cup {StateOf(Database)'}
    BY <2>2, AppendedRecent DEF Write, Writing
  <2>3. CASE \E o \in Arrivals : Write(Upsert(Database, o))
    <3>1. PICK o \in Arrivals : Write(Upsert(Database, o))
      BY <2>3
    <3>2. Writing(Upsert(Database, o), [StateOf(Database) EXCEPT ![o.run] = Upserted(@, o)])
      BY <2>1, WrittenDatabase
    <3>3. /\ StateOf(Database)' = [StateOf(Database) EXCEPT ![o.run] = Upserted(@, o)]
          /\ Recent' = Recent \cup {StateOf(Database)'}
      BY <2>2, <3>1, <3>2
    <3> QED
      BY <3>3
  <2>4. CASE \E r \in Runs, at \in Stamps : Write(Close(Database, r, at))
    <3>1. PICK r \in Runs, at \in Stamps : Write(Close(Database, r, at))
      BY <2>4
    <3>2. Writing(Close(Database, r, at), [StateOf(Database) EXCEPT ![r] = Closed(@, at)])
      BY <2>1, WrittenDatabase
    <3>3. /\ StateOf(Database)' = [StateOf(Database) EXCEPT ![r] = Closed(@, at)]
          /\ Recent' = Recent \cup {StateOf(Database)'}
      BY <2>2, <3>1, <3>2
    <3> QED
      BY <3>3
  <2> QED
    BY <1>3, <2>3, <2>4, Records
<1>4. CASE \E p \in Processes : Commit(p)
  <2>1. PICK p \in Processes : Commit(p)
    BY <1>4
  <2>2. /\ pc[p] = "committing" /\ commits' = Append(commits, work) /\ work \in Databases
    BY <2>1 DEF Commit, Go, StoreInv, TypeOK
  <2>3. StateOf(work) = StateOf(Database)
    BY <2>2, MigratedIsTheSame
  <2> QED
    BY <1>2, <2>2, <2>3
<1>5. CASE \E p \in Processes : Schema(p)
  <2>1. PICK d \in Databases : Write(d) /\ StateOf(d) = StateOf(Database)
    BY <1>5, SchemaStatement
  <2> QED
    BY <1>2, <2>1 DEF Write
<1>6. CASE Sync
  <2>1. Database = commits[Len(commits)] /\ Len(commits) \in DOMAIN commits
    BY FileType DEF StoreInv, Database
  <2> QED
    BY <1>6, <2>1, CutRecent DEF Sync
<1>7. CASE PowerFails
  BY <1>7, CutRecent DEF PowerFails
<1>8. CASE Migrates
  BY <1>1, <1>8 DEF Migrates, CreateScratch, Copy, Drop, Rename, Statement
<1>9. CASE Moves
  BY <1>1, <1>9 DEF Moves, Start, Inspect, Serve, Signal, Drained, DrainTimesOut,
       ListenerFails, Accept, Refuse, Acknowledge, Ends, fileVars
<1>10. CASE UNCHANGED vars
  BY <1>1, <1>10 DEF vars
<1> QED
  BY <1>3, <1>4, <1>5, <1>6, <1>7, <1>8, <1>9, <1>10, Steps

(* Every step of every process, a migration's above all, is a step of the  *)
(* ledger or changes nothing in it (Open, UpsertWorkflowRun).              *)
THEOREM LedgerImplemented == Spec => ImplementsLedger
<1>1. Init => Ledger!Init
  <2> SUFFICES ASSUME Init PROVE Recent = {StateOf(Database)}
    BY DEF Ledger!Init, Recent
  <2>1. commits = <<work>>
    BY DEF Init
  <2> QED
    BY <2>1 DEF Recent, Database
<1>2. StoreInv /\ [Next]_vars => [Ledger!Next]_(Ledger!vars)
  <2> SUFFICES ASSUME StoreInv, [Next]_vars PROVE [Ledger!Next]_(Ledger!vars)
    OBVIOUS
  <2>1. CASE UNCHANGED <<StateOf(Database), Recent>>
    BY <2>1 DEF Ledger!vars, Recent
  <2>a. /\ \A row, o : Ledger!Upserted(row, o) = Upserted(row, o)
        /\ \A row, at : Ledger!Closed(row, at) = Closed(row, at)
    BY DEF Ledger!Upserted, Upserted, Ledger!NoRow, NoRow, Ledger!RowFrom, RowFrom,
      Ledger!Normalize, Normalize, Ledger!UpsertGuard, UpsertGuard,
      Ledger!ActiveStatus, ActiveStatus, Ledger!NoTime, NoTime, Ledger!Closed, Closed
  <2>2. CASE \E o \in Arrivals :
               /\ StateOf(Database)' = [StateOf(Database) EXCEPT ![o.run] = Upserted(@, o)]
               /\ Recent' = Recent \cup {StateOf(Database)'}
    BY <2>2, <2>a DEF Ledger!Next, Ledger!Record, Ledger!Recorded, Recent
  <2>5. CASE \E r \in Runs, at \in Stamps :
               /\ StateOf(Database)' = [StateOf(Database) EXCEPT ![r] = Closed(@, at)]
               /\ Recent' = Recent \cup {StateOf(Database)'}
    BY <2>5, <2>a DEF Ledger!Next, Ledger!Record, Ledger!ClosedAt, Recent
  <2>3. CASE StateOf(Database)' = StateOf(Database) /\ Recent' = {StateOf(Database)'}
    BY <2>3 DEF Ledger!Next, Ledger!Sync, Recent
  <2>4. CASE StateOf(Database)' \in Recent /\ Recent' = {StateOf(Database)'}
    BY <2>4 DEF Ledger!Next, Ledger!PowerFails, Recent
  <2> QED
    BY <2>1, <2>2, <2>3, <2>4, <2>5, StepsOfTheLedger
<1> QED
  BY <1>1, <1>2, StoreInvariance, PTL DEF Spec, ImplementsLedger, Ledger!Spec
=============================================================================
