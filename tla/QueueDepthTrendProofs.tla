----------------------- MODULE QueueDepthTrendProofs -----------------------
(***************************************************************************)
(* Proofs about the queue-depth trend: TrendInv is inductive, whatever the *)
(* number of deliveries, sweeps and minutes; it bounds the scans, and with *)
(* it every transaction is a step of the abstract series.                  *)
(***************************************************************************)
EXTENDS QueueDepthTrend, TLAPS

LEMMA TrendInit == Init => TrendInv
<1> SUFFICES ASSUME Init PROVE TrendInv
  OBVIOUS
<1>1. 1 \in Minutes /\ SomeDepth \in Depths
  BY GateAssumption DEF Minutes, SomeDepth
<1>2. <<>> \in Seq(Depths) /\ Len(<<>>) = 0
  OBVIOUS
<1>3. TypeOK
  BY <1>1, <1>2, GateAssumption DEF Init, TypeOK, Recorders
<1>4. GateOK
  BY GateAssumption DEF Init, GateOK, Minutes, Recorders
<1>5. LockOK /\ ClocksOK /\ OnePointPerMinute
  BY <1>2 DEF Init, LockOK, ClocksOK, OnePointPerMinute
<1> QED
  BY <1>3, <1>4, <1>5 DEF TrendInv

\* The steps that leave the gate, the table and every transaction alone.
Quiet == UNCHANGED <<minute, lastSnapshotMinute, points, claims, backwards, writer, updated>>

LEMMA QuietInv ==
  ASSUME TrendInv, Quiet, NEW a \in Recorders, NEW to,
         to \in {"storing", "gate", "claiming", "scanning", "recording", "done"},
         pc[a] # "committing", pc' = [pc EXCEPT ![a] = to],
         \/ UNCHANGED capturedAt
         \/ pc[a] = "new" /\ capturedAt' = [capturedAt EXCEPT ![a] = minute],
         \/ UNCHANGED prev
         \/ a \in Deliveries /\ prev' = [prev EXCEPT ![a] = lastSnapshotMinute],
         to = "claiming" => UNCHANGED capturedAt /\ lastSnapshotMinute # capturedAt[a]
                              /\ prev' = [prev EXCEPT ![a] = lastSnapshotMinute],
         depth' \in [Recorders -> Depths]
  PROVE  TrendInv'
<1>1. /\ capturedAt \in [Recorders -> Minutes] /\ minute \in Minutes /\ Minutes \subseteq Int
      /\ prev \in [Deliveries -> 0..MaxMinute] /\ lastSnapshotMinute \in 0..MaxMinute
      /\ pc \in [Recorders -> {"new", "storing", "gate", "claiming", "scanning",
                               "recording", "committing", "done"}]
  BY GateAssumption DEF TrendInv, TypeOK, Minutes
<1>2. TypeOK'
  <2>1. capturedAt' \in [Recorders -> Minutes] /\ prev' \in [Deliveries -> 0..MaxMinute]
    BY <1>1
  <2>2. pc' \in [Recorders -> {"new", "storing", "gate", "claiming", "scanning",
                              "recording", "committing", "done"}]
    BY <1>1
  <2> QED
    BY <2>1, <2>2 DEF TrendInv, TypeOK, Quiet
<1>3. GateOK'
  <2>1. \A m \in Minutes :
          claims'[m] <= backwards' + (IF lastSnapshotMinute' >= m THEN 1 ELSE 0)
    BY DEF TrendInv, GateOK, Quiet
  <2>2. ASSUME NEW h \in Deliveries, pc'[h] = "claiming"
        PROVE  prev'[h] # capturedAt'[h]
    <3>1. h \in Recorders
      BY DEF Recorders
    <3>2. CASE h = a
      BY <1>1, <2>2, <3>1, <3>2
    <3>3. CASE h # a
      <4>1. pc[h] = "claiming" /\ prev'[h] = prev[h] /\ capturedAt'[h] = capturedAt[h]
        BY <1>1, <2>2, <3>1, <3>3
      <4> QED
        BY <4>1 DEF TrendInv, GateOK
    <3> QED
      BY <3>2, <3>3
  <2> QED
    BY <2>1, <2>2 DEF GateOK
<1>4. LockOK'
  <2> SUFFICES ASSUME NEW x \in Recorders, pc'[x] = "committing"
               PROVE  writer' = {x} /\ updated'[x] = Len(points'[capturedAt'[x]])
    BY DEF LockOK
  <2>1. x # a /\ pc[x] = "committing"
    BY <1>1
  <2>2. capturedAt'[x] = capturedAt[x]
    BY <1>1, <2>1
  <2> QED
    BY <2>1, <2>2 DEF TrendInv, LockOK, Quiet
<1>5. ClocksOK'
  BY <1>1 DEF TrendInv, ClocksOK, Quiet
<1>6. OnePointPerMinute'
  BY DEF TrendInv, OnePointPerMinute, Quiet
<1> QED
  BY <1>2, <1>3, <1>4, <1>5, <1>6 DEF TrendInv

\* A successful compare-and-swap: a claim of a later minute uses up the room the
\* gate has left, and a claim of an earlier one pays for itself.
LEMMA ClaimInv ==
  ASSUME TrendInv, NEW h \in Deliveries, Claim(h)
  PROVE  TrendInv'
<1> DEFINE m == capturedAt[h]
           gate == lastSnapshotMinute
<1>1. /\ m \in Minutes /\ prev[h] = gate /\ h \in Recorders /\ pc[h] = "claiming"
      /\ gate \in 0..MaxMinute /\ lastSnapshotMinute' = m
      /\ claims \in [Minutes -> Nat] /\ claims' = [claims EXCEPT ![m] = claims[m] + 1]
      /\ backwards \in Nat /\ MaxMinute \in Nat
      /\ backwards' = IF gate > m THEN backwards + 1 ELSE backwards
      /\ pc' = [pc EXCEPT ![h] = "scanning"]
  BY GateAssumption DEF TrendInv, TypeOK, Claim, Recorders, Go
<1>2. TypeOK'
  <2>1. claims' \in [Minutes -> Nat] /\ backwards' \in Nat /\ lastSnapshotMinute' \in 0..MaxMinute
    BY <1>1 DEF Minutes
  <2> QED
    BY <1>1, <2>1 DEF TrendInv, TypeOK, Claim
<1>3. GateOK'
  <2>1. ASSUME NEW x \in Minutes
        PROVE  claims'[x] <= backwards' + (IF lastSnapshotMinute' >= x THEN 1 ELSE 0)
    <3>1. claims[x] <= backwards + (IF gate >= x THEN 1 ELSE 0)
      BY DEF TrendInv, GateOK
    <3>2. gate # m
      BY <1>1 DEF TrendInv, GateOK
    <3>3. CASE x = m
      BY <1>1, <3>1, <3>2, <3>3 DEF Minutes
    <3>4. CASE x # m
      BY <1>1, <3>1, <3>4 DEF Minutes
    <3> QED
      BY <3>3, <3>4
  <2>2. ASSUME NEW x \in Deliveries, pc'[x] = "claiming"
        PROVE  prev'[x] # capturedAt'[x]
    <3>1. pc[x] = "claiming" /\ UNCHANGED <<prev, capturedAt>>
      BY <1>1, <2>2 DEF Claim, TrendInv, TypeOK, Recorders
    <3> QED
      BY <3>1 DEF TrendInv, GateOK
  <2> QED
    BY <2>1, <2>2 DEF GateOK
<1>4. LockOK'
  BY <1>1 DEF TrendInv, TypeOK, LockOK, Claim
<1>5. ClocksOK' /\ OnePointPerMinute'
  BY DEF TrendInv, ClocksOK, OnePointPerMinute, Claim
<1> QED
  BY <1>2, <1>3, <1>4, <1>5 DEF TrendInv

\* The UPDATE: nobody else is in a transaction.
LEMMA UpdateInv ==
  ASSUME TrendInv, NEW a \in Recorders, UpdatePoint(a)
  PROVE  TrendInv'
<1>1. /\ pc[a] = "recording" /\ pc' = [pc EXCEPT ![a] = "committing"]
      /\ writer = {} /\ writer' = {a}
      /\ updated' = [updated EXCEPT ![a] = Len(points[capturedAt[a]])]
      /\ UNCHANGED <<minute, lastSnapshotMinute, capturedAt, prev, depth, points,
                     claims, backwards>>
  BY DEF UpdatePoint, Go
<1>2. Len(points[capturedAt[a]]) \in Nat
  BY DEF TrendInv, TypeOK
<1>3. TypeOK'
  BY <1>1, <1>2 DEF TrendInv, TypeOK
<1>4. GateOK'
  BY <1>1 DEF TrendInv, TypeOK, GateOK, Recorders
<1>5. LockOK'
  BY <1>1 DEF TrendInv, TypeOK, LockOK
<1>6. ClocksOK' /\ OnePointPerMinute'
  BY <1>1 DEF TrendInv, ClocksOK, OnePointPerMinute
<1> QED
  BY <1>3, <1>4, <1>5, <1>6 DEF TrendInv

\* What the transaction makes of the rows of its minute: one row, the reading.
LEMMA OneRow ==
  ASSUME TrendInv, NEW a \in Recorders, pc[a] = "committing"
  PROVE  RowsAfter(points[capturedAt[a]], updated[a], depth[a]) = <<depth[a]>>
<1> DEFINE old == points[capturedAt[a]]
<1>1. old \in Seq(Depths) /\ Len(old) <= 1 /\ updated[a] = Len(old) /\ Len(old) \in Nat
  BY DEF TrendInv, TypeOK, LockOK, OnePointPerMinute
<1>2. CASE Len(old) = 0
  <2>1. old = <<>>
    BY <1>1, <1>2
  <2> QED
    BY <1>1, <1>2, <2>1 DEF RowsAfter
<1>3. CASE Len(old) = 1
  BY <1>1, <1>3 DEF RowsAfter
<1>4. Len(old) = 0 \/ Len(old) = 1
  <2>1. \A n \in Nat : n <= 1 => n = 0 \/ n = 1
    OBVIOUS
  <2> QED
    BY <1>1, <2>1, Zenon
<1> QED
  BY <1>2, <1>3, <1>4

LEMMA CommitFacts ==
  ASSUME TrendInv, NEW a \in Recorders, CommitPoint(a)
  PROVE  points' = [points EXCEPT ![capturedAt[a]] = <<depth[a]>>]
<1>1. pc[a] = "committing"
  BY DEF CommitPoint, Go
<1> QED
  BY <1>1, OneRow DEF CommitPoint

\* A transaction that ends, committed or not, was the only one.
LEMMA EndInv ==
  ASSUME TrendInv, NEW a \in Recorders, pc[a] \in {"recording", "committing"},
         pc' = [pc EXCEPT ![a] = "done"], writer' = writer \ {a},
         UNCHANGED <<minute, lastSnapshotMinute, capturedAt, prev, depth, updated,
                     claims, backwards>>,
         \/ UNCHANGED points
         \/ pc[a] = "committing" /\ points' = [points EXCEPT ![capturedAt[a]] = <<depth[a]>>]
  PROVE  TrendInv'
<1>1. points' \in [Minutes -> Seq(Depths)] /\ OnePointPerMinute'
  <2>1. <<depth[a]>> \in Seq(Depths) /\ Len(<<depth[a]>>) = 1
    BY DEF TrendInv, TypeOK
  <2>2. points' \in [Minutes -> Seq(Depths)]
    BY <2>1 DEF TrendInv, TypeOK
  <2>3. ASSUME NEW m \in Minutes
        PROVE  Len(points'[m]) <= 1
    <3>1. Len(points[m]) <= 1 /\ points \in [Minutes -> Seq(Depths)]
      BY DEF TrendInv, TypeOK, OnePointPerMinute
    <3>2. points'[m] = points[m] \/ points'[m] = <<depth[a]>>
      BY <3>1
    <3>3. CASE points'[m] = points[m]
      BY ONLY <3>1, <3>3
    <3>4. CASE points'[m] = <<depth[a]>>
      BY ONLY <2>1, <3>4
    <3> QED
      BY <3>2, <3>3, <3>4
  <2> QED
    BY <2>2, <2>3 DEF OnePointPerMinute
<1>2. TypeOK'
  BY <1>1 DEF TrendInv, TypeOK
<1>3. GateOK'
  BY DEF TrendInv, TypeOK, GateOK, Recorders
<1>4. LockOK'
  <2> SUFFICES ASSUME NEW x \in Recorders, pc'[x] = "committing"
               PROVE  writer' = {x} /\ updated'[x] = Len(points'[capturedAt'[x]])
    BY DEF LockOK
  <2>1. x # a /\ pc[x] = "committing"
    BY DEF TrendInv, TypeOK
  <2>2. writer = {x} /\ updated[x] = Len(points[capturedAt[x]])
    BY <2>1 DEF TrendInv, LockOK
  <2>3. pc[a] # "committing"
    BY <2>1, <2>2 DEF TrendInv, LockOK
  <2> QED
    BY <2>1, <2>2, <2>3
<1>5. ClocksOK'
  BY DEF TrendInv, ClocksOK
<1> QED
  BY <1>1, <1>2, <1>3, <1>4, <1>5 DEF TrendInv

LEMMA RecordInv ==
  ASSUME TrendInv, NEW a \in Recorders, RecordSnapshot(a)
  PROVE  TrendInv'
<1>1. CASE UpdatePoint(a)
  BY <1>1, UpdateInv
<1>2. CASE CommitPoint(a)
  BY <1>2, CommitFacts, EndInv DEF CommitPoint, Go
<1>3. CASE RecordFails(a)
  BY <1>3, EndInv DEF RecordFails, Go
<1> QED
  BY <1>1, <1>2, <1>3 DEF RecordSnapshot

LEMMA HandleInv ==
  ASSUME TrendInv, NEW h \in Deliveries, Handle(h)
  PROVE  TrendInv'
<1>1. h \in Recorders /\ depth \in [Recorders -> Depths]
  BY DEF TrendInv, TypeOK, Recorders
<1>2. CASE Receive(h)
  BY <1>1, <1>2, QuietInv DEF Receive, Go, Quiet
<1>3. CASE StoreRun(h)
  BY <1>1, <1>3, QuietInv DEF StoreRun, Go, Quiet
<1>4. CASE LoadGate(h)
  <2>1. CASE lastSnapshotMinute = capturedAt[h]
    BY <1>1, <1>4, <2>1, QuietInv DEF LoadGate, Go, Quiet
  <2>2. CASE lastSnapshotMinute # capturedAt[h]
    BY <1>1, <1>4, <2>2, QuietInv DEF LoadGate, Go, Quiet
  <2> QED
    BY <2>1, <2>2
<1>5. CASE LoseClaim(h) \/ ScanFails(h)
  BY <1>1, <1>5, QuietInv DEF LoseClaim, ScanFails, Go, Quiet
<1>6. CASE QueueDepth(h)
  <2>1. depth' \in [Recorders -> Depths]
    BY <1>1, <1>6 DEF QueueDepth
  <2> QED
    BY <1>1, <1>6, <2>1, QuietInv DEF QueueDepth, Go, Quiet
<1> QED
  BY <1>2, <1>3, <1>4, <1>5, <1>6, ClaimInv DEF Handle

LEMMA TakeReadingInv ==
  ASSUME TrendInv, NEW s \in Sweeps, TakeReading(s)
  PROVE  TrendInv'
<1>1. s \in Recorders /\ depth' \in [Recorders -> Depths]
  BY DEF TrendInv, TypeOK, Recorders, TakeReading
<1> QED
  BY <1>1, QuietInv DEF TakeReading, Go, Quiet

LEMMA TickInv == TrendInv /\ Tick => TrendInv'
<1> SUFFICES ASSUME TrendInv, Tick PROVE TrendInv'
  OBVIOUS
<1>1. /\ minute' \in Minutes /\ minute' = minute + 1
      /\ minute \in Int /\ capturedAt \in [Recorders -> Int]
  BY GateAssumption DEF TrendInv, TypeOK, Tick, Minutes
<1>2. TypeOK' /\ GateOK'
  BY <1>1 DEF TrendInv, TypeOK, GateOK, Tick
<1>3. LockOK' /\ OnePointPerMinute'
  BY DEF TrendInv, LockOK, OnePointPerMinute, Tick
<1>4. ClocksOK'
  BY <1>1 DEF TrendInv, ClocksOK, Tick
<1> QED
  BY <1>2, <1>3, <1>4 DEF TrendInv

LEMMA RestartInv == TrendInv /\ Restart => TrendInv'
<1> SUFFICES ASSUME TrendInv, Restart PROVE TrendInv'
  OBVIOUS
<1>1. pc' \in [Recorders -> {"new", "done"}] /\ MaxMinute \in Nat
  BY GateAssumption DEF Restart
<1>2. TypeOK'
  BY <1>1 DEF TrendInv, TypeOK, Restart
<1>3. GateOK'
  BY <1>1 DEF Restart, GateOK, Minutes, Recorders
<1>4. LockOK' /\ ClocksOK' /\ OnePointPerMinute'
  BY <1>1 DEF TrendInv, LockOK, ClocksOK, OnePointPerMinute, Restart
<1> QED
  BY <1>2, <1>3, <1>4 DEF TrendInv

LEMMA TrendNext == TrendInv /\ [Next]_vars => TrendInv'
<1> SUFFICES ASSUME TrendInv, [Next]_vars PROVE TrendInv'
  OBVIOUS
<1>1. CASE UNCHANGED vars
  BY <1>1 DEF vars, TrendInv, TypeOK, GateOK, LockOK, ClocksOK, OnePointPerMinute
<1> QED
  BY <1>1, TickInv, RestartInv, HandleInv, TakeReadingInv, RecordInv DEF Next

\* The invariant holds in every state of the trend.
THEOREM TrendInvariance == Spec => []TrendInv
BY TrendInit, TrendNext, PTL DEF Spec

\* Any number of deliveries scan the queue depth of a minute at most once more
\* than the gate has been taken back.
THEOREM ScansAreBounded == Spec => []RescansOnlyAfterStragglers
<1>1. TrendInv => RescansOnlyAfterStragglers
  <2> SUFFICES ASSUME TrendInv, NEW m \in Minutes PROVE claims[m] <= 1 + backwards
    BY DEF RescansOnlyAfterStragglers
  <2>1. /\ claims[m] \in Nat /\ backwards \in Nat
        /\ claims[m] <= backwards + (IF lastSnapshotMinute >= m THEN 1 ELSE 0)
    BY DEF TrendInv, TypeOK, GateOK
  <2> QED
    BY <2>1
<1> QED
  BY <1>1, TrendInvariance, PTL

\* RecordQueueDepthSnapshot implements the abstract series: a commit records one
\* reading, the clock passes, and nothing else shows.
THEOREM TrendImplemented == Spec => ImplementsTrend
<1>1. Init => Trend!Init
  BY DEF Init, Trend!Init, Minutes, Trend!Minutes
<1>2. TrendInv /\ [Next]_vars => [Trend!Next]_<<minute, points>>
  <2> SUFFICES ASSUME TrendInv, [Next]_vars
               PROVE  Trend!Next \/ UNCHANGED <<minute, points>>
    OBVIOUS
  <2>1. CASE Tick
    BY <2>1 DEF Tick, Trend!Next, Trend!Pass
  <2>2. ASSUME NEW a \in Recorders, CommitPoint(a)
        PROVE  Trend!Next
    <3>1. /\ capturedAt[a] \in Trend!Minutes /\ capturedAt[a] <= minute
          /\ depth[a] \in Depths
      BY DEF TrendInv, TypeOK, ClocksOK, Minutes, Trend!Minutes
    <3>2. Trend!Record(capturedAt[a], depth[a])
      BY <2>2, <3>1, CommitFacts DEF CommitPoint, Trend!Record
    <3> QED
      BY <3>1, <3>2 DEF Trend!Next
  <2>3. CASE Restart \/ UNCHANGED vars
    BY <2>3 DEF Restart, vars
  <2>4. CASE \E h \in Deliveries : Handle(h)
    BY <2>4 DEF Handle, Receive, StoreRun, LoadGate, Claim, LoseClaim, ScanFails, QueueDepth
  <2>5. CASE \E s \in Sweeps : TakeReading(s)
    BY <2>5 DEF TakeReading
  <2>6. CASE \E a \in Recorders : RecordSnapshot(a)
    BY <2>2, <2>6 DEF RecordSnapshot, UpdatePoint, RecordFails
  <2> QED
    BY <2>1, <2>3, <2>4, <2>5, <2>6 DEF Next
<1> QED
  BY <1>1, <1>2, TrendInvariance, PTL DEF Spec, ImplementsTrend, Trend!Spec
=============================================================================
