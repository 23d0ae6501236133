-------------------------- MODULE QueueDepthTrend --------------------------
(***************************************************************************)
(* The queue-depth trend: the gate in front of the snapshot a webhook      *)
(* delivery takes (maybeSnapshotQueueDepth), the snapshot that ends a      *)
(* sweep, and the transaction in which both are recorded.  Deliveries are  *)
(* handled concurrently, one goroutine each, and the gate is one atomic    *)
(* integer that is loaded in one step and compared and swapped in another. *)
(*                                                                         *)
(* Time is counted in the minutes that matter here; a delivery may read    *)
(* its clock in one and get to the gate in the next, since it first waits  *)
(* for the database to store the run.                                      *)
(***************************************************************************)
EXTENDS Integers, Sequences

CONSTANTS
  Deliveries,  \* workflow_run deliveries, retries included
  Sweeps,      \* sweeps that get as far as recordQueueDepthSnapshot
  MaxMinute,   \* bound: the last minute of a behaviour
  Depths       \* the readings of the queue depth

ASSUME GateAssumption ==
  /\ Deliveries \cap Sweeps = {}
  /\ MaxMinute \in Nat \ {0} /\ Depths # {}

Minutes == 1..MaxMinute
Recorders == Deliveries \cup Sweeps

VARIABLES
  minute,              \* the minute it is
  lastSnapshotMinute,  \* the gate; 0 when the process starts
  pc,                  \* where each delivery or sweep is
  capturedAt,          \* the minute it has read
  prev,                \* the gate a delivery has loaded
  depth,               \* the reading it is about to record
  updated,             \* rows its UPDATE has affected
  writer,              \* who holds SQLite's write lock, at most one
  points,              \* queue_depth_snapshots: minute -> rows, oldest first
  claims,              \* history: claims of each minute since the process began
  backwards            \* history: those that moved the gate to an earlier minute

vars == <<minute, lastSnapshotMinute, pc, capturedAt, prev, depth, updated,
          writer, points, claims, backwards>>

SomeDepth == CHOOSE d \in Depths : TRUE

Init ==
  /\ minute = 1 /\ lastSnapshotMinute = 0
  /\ pc = [a \in Recorders |-> "new"]
  /\ capturedAt = [a \in Recorders |-> 1]
  /\ prev = [h \in Deliveries |-> 0]
  /\ depth = [a \in Recorders |-> SomeDepth]
  /\ updated = [a \in Recorders |-> 0]
  /\ writer = {}
  /\ points = [m \in Minutes |-> <<>>]
  /\ claims = [m \in Minutes |-> 0] /\ backwards = 0

Go(a, from, to) == pc[a] = from /\ pc' = [pc EXCEPT ![a] = to]

Tick ==
  /\ minute < MaxMinute /\ minute' = minute + 1
  /\ UNCHANGED <<lastSnapshotMinute, pc, capturedAt, prev, depth, updated,
                 writer, points, claims, backwards>>

(***************************************************************************)
(* A delivery, from handleWorkflowRun to its claim of a minute.            *)
(***************************************************************************)
Receive(h) ==
  /\ Go(h, "new", "storing")
  /\ capturedAt' = [capturedAt EXCEPT ![h] = minute]
  /\ UNCHANGED <<minute, lastSnapshotMinute, prev, depth, updated, writer,
                 points, claims, backwards>>

\* The run is stored, or it is not and the delivery is answered 500.
StoreRun(h) ==
  /\ Go(h, "storing", "gate") \/ Go(h, "storing", "done")
  /\ UNCHANGED <<minute, lastSnapshotMinute, capturedAt, prev, depth, updated,
                 writer, points, claims, backwards>>

LoadGate(h) ==
  /\ Go(h, "gate", IF lastSnapshotMinute = capturedAt[h] THEN "done" ELSE "claiming")
  /\ prev' = [prev EXCEPT ![h] = lastSnapshotMinute]
  /\ UNCHANGED <<minute, lastSnapshotMinute, capturedAt, depth, updated,
                 writer, points, claims, backwards>>

\* The gate is set without being compared.
WrongClaim(h) ==
  /\ Go(h, "claiming", "scanning")
  /\ lastSnapshotMinute' = capturedAt[h]
  /\ claims' = [claims EXCEPT ![capturedAt[h]] = @ + 1]
  /\ backwards' = IF lastSnapshotMinute > capturedAt[h] THEN backwards + 1 ELSE backwards
  /\ UNCHANGED <<minute, capturedAt, prev, depth, updated, writer, points>>

Claim(h) ==
  /\ lastSnapshotMinute = prev[h]
  /\ Go(h, "claiming", "scanning")
  /\ lastSnapshotMinute' = capturedAt[h]
  /\ claims' = [claims EXCEPT ![capturedAt[h]] = @ + 1]
  /\ backwards' = IF prev[h] > capturedAt[h] THEN backwards + 1 ELSE backwards
  /\ UNCHANGED <<minute, capturedAt, prev, depth, updated, writer, points>>

LoseClaim(h) ==
  /\ lastSnapshotMinute # prev[h]
  /\ Go(h, "claiming", "done")
  /\ UNCHANGED <<minute, lastSnapshotMinute, capturedAt, prev, depth, updated,
                 writer, points, claims, backwards>>

\* The claimed minute stays claimed when the scan fails.
ScanFails(h) ==
  /\ Go(h, "scanning", "done")
  /\ UNCHANGED <<minute, lastSnapshotMinute, capturedAt, prev, depth, updated,
                 writer, points, claims, backwards>>

QueueDepth(h) ==
  /\ Go(h, "scanning", "recording")
  /\ \E d \in Depths : depth' = [depth EXCEPT ![h] = d]
  /\ UNCHANGED <<minute, lastSnapshotMinute, capturedAt, prev, updated, writer,
                 points, claims, backwards>>

\* recordQueueDepthSnapshot of a sweep: no gate, and its clock is read last.
TakeReading(s) ==
  /\ Go(s, "new", "recording")
  /\ \E d \in Depths : depth' = [depth EXCEPT ![s] = d]
  /\ capturedAt' = [capturedAt EXCEPT ![s] = minute]
  /\ UNCHANGED <<minute, lastSnapshotMinute, prev, updated, writer, points,
                 claims, backwards>>

(***************************************************************************)
(* RecordQueueDepthSnapshot.                                               *)
(***************************************************************************)
\* Nobody waits for the write lock.
WrongUpdatePoint(a) ==
  /\ Go(a, "recording", "committing")
  /\ writer' = writer \cup {a}
  /\ updated' = [updated EXCEPT ![a] = Len(points[capturedAt[a]])]
  /\ UNCHANGED <<minute, lastSnapshotMinute, capturedAt, prev, depth, points,
                 claims, backwards>>

\* The UPDATE is the first statement of the transaction and takes the write
\* lock, whether or not it finds a row.
UpdatePoint(a) ==
  /\ writer = {}
  /\ Go(a, "recording", "committing")
  /\ writer' = {a}
  /\ updated' = [updated EXCEPT ![a] = Len(points[capturedAt[a]])]
  /\ UNCHANGED <<minute, lastSnapshotMinute, capturedAt, prev, depth, points,
                 claims, backwards>>

\* The INSERT is made whatever the UPDATE affected.
WrongRowsAfter(rows, affected, d) == Append(rows, d)

\* The rows of a minute once the UPDATE, and the INSERT if any, are committed.
RowsAfter(rows, affected, d) ==
  IF affected = 0 THEN Append(rows, d) ELSE [i \in DOMAIN rows |-> d]

CommitPoint(a) ==
  /\ Go(a, "committing", "done")
  /\ points' = [points EXCEPT
       ![capturedAt[a]] = RowsAfter(@, updated[a], depth[a])]
  /\ writer' = writer \ {a}
  /\ UNCHANGED <<minute, lastSnapshotMinute, capturedAt, prev, depth, updated,
                 claims, backwards>>

\* Any statement fails, or the wait for the lock does: the transaction rolls back.
RecordFails(a) ==
  /\ Go(a, "recording", "done") \/ Go(a, "committing", "done")
  /\ writer' = writer \ {a}
  /\ UNCHANGED <<minute, lastSnapshotMinute, capturedAt, prev, depth, updated,
                 points, claims, backwards>>

(***************************************************************************)
(* A restart cuts short what is under way and forgets the gate, not the    *)
(* table; the history begins anew with the process.                        *)
(***************************************************************************)
Restart ==
  /\ lastSnapshotMinute' = 0
  /\ pc' = [a \in Recorders |-> IF pc[a] = "new" THEN "new" ELSE "done"]
  /\ writer' = {}
  /\ claims' = [m \in Minutes |-> 0] /\ backwards' = 0
  /\ UNCHANGED <<minute, capturedAt, prev, depth, updated, points>>

Handle(h) ==
  \/ Receive(h) \/ StoreRun(h) \/ LoadGate(h) \/ Claim(h) \/ LoseClaim(h)
  \/ ScanFails(h) \/ QueueDepth(h)

RecordSnapshot(a) == UpdatePoint(a) \/ CommitPoint(a) \/ RecordFails(a)

Next ==
  \/ Tick \/ Restart
  \/ \E h \in Deliveries : Handle(h)
  \/ \E s \in Sweeps : TakeReading(s)
  \/ \E a \in Recorders : RecordSnapshot(a)

Spec == Init /\ [][Next]_vars

(***************************************************************************)
(* Correctness.                                                            *)
(***************************************************************************)
\* Every variable has its type.
TypeOK ==
  /\ minute \in Minutes /\ lastSnapshotMinute \in 0..MaxMinute
  /\ pc \in [Recorders -> {"new", "storing", "gate", "claiming", "scanning",
                           "recording", "committing", "done"}]
  /\ capturedAt \in [Recorders -> Minutes]
  /\ prev \in [Deliveries -> 0..MaxMinute]
  /\ depth \in [Recorders -> Depths]
  /\ updated \in [Recorders -> Nat]
  /\ writer \subseteq Recorders
  /\ points \in [Minutes -> Seq(Depths)]
  /\ claims \in [Minutes -> Nat] /\ backwards \in Nat

\* However many deliveries a storm brings, a minute is claimed, and the depth
\* scanned, again only as often as a delivery that had read an earlier minute
\* took the gate back: the compare-and-swap lets no two deliveries of one
\* minute through on the same value of the gate.
RescansOnlyAfterStragglers == \A m \in Minutes : claims[m] <= 1 + backwards

\* RecordQueueDepthSnapshot keeps the promise of TrendSeries: though nothing in
\* the schema forbids a second row for a minute, and deliveries and sweeps record
\* concurrently, every transaction, be it committed, failed or cut short, is one
\* reading recorded as the only row of its minute, or nothing.
Trend == INSTANCE TrendSeries WITH series <- points

ImplementsTrend == Trend!Spec

(***************************************************************************)
(* The inductive invariant behind the theorems of QueueDepthTrendProofs.   *)
(***************************************************************************)
\* The gate stands at or after every minute claimed, but for the times it was
\* taken back; and no delivery is about to claim the minute it found there.
GateOK ==
  /\ \A m \in Minutes :
       claims[m] <= backwards + (IF lastSnapshotMinute >= m THEN 1 ELSE 0)
  /\ \A h \in Deliveries : pc[h] = "claiming" => prev[h] # capturedAt[h]

\* A transaction past its UPDATE holds the write lock, and the rows it has
\* counted are still those of its minute.
LockOK ==
  \A a \in Recorders : pc[a] = "committing" =>
    writer = {a} /\ updated[a] = Len(points[capturedAt[a]])

ClocksOK == \A a \in Recorders : capturedAt[a] <= minute

OnePointPerMinute == \A m \in Minutes : Len(points[m]) <= 1

\* The parts together, what is known of deliveries and transactions under way.
TrendInv == TypeOK /\ GateOK /\ LockOK /\ ClocksOK /\ OnePointPerMinute
=============================================================================
