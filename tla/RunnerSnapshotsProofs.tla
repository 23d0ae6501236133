----------------------- MODULE RunnerSnapshotsProofs -----------------------
(***************************************************************************)
(* Proofs about runner capacity, for any number of groups, of sweeps       *)
(* beside each other, and any page size: a reading under way is one of the *)
(* group whose turn it is, taken since its turn came, and so is what is    *)
(* recorded.                                                               *)
(***************************************************************************)
EXTENDS RunnerSnapshots, TLAPS

LEMMA FirstPageType ==
  ASSUME NEW c \in Capacities
  PROVE  FirstPage(c) \subseteq Readings
<1>1. c.total \in Nat /\ c.busy \in Nat
  BY RunnersAssumption DEF Readings
<1>2. Min2(c.total, PageSize) \in Nat
  BY <1>1, RunnersAssumption DEF Min2
<1> QED
  BY <1>1, <1>2 DEF FirstPage, Readings

LEMMA FirstIsOne ==
  ASSUME NEW some \in SUBSET Groups, NEW g \in First(some), NEW h \in First(some)
  PROVE  g = h /\ g \in Groups
BY RunnersAssumption DEF First

LEMMA FirstIsInside ==
  ASSUME NEW some \in SUBSET Groups
  PROVE  First(some) \subseteq some /\ First({}) = {}
BY DEF First

LEMMA RunnersInit == Init => RunnersInv
<1> SUFFICES ASSUME Init PROVE RunnersInv
  OBVIOUS
<1>1. TypeOK
  BY RunnersAssumption DEF Init, TypeOK
<1>2. ReadingsOK
  BY RunnersAssumption DEF Init, ReadingsOK, Current, First
<1> QED
  BY <1>1, <1>2 DEF RunnersInv

LEMMA ChangeInv ==
  ASSUME RunnersInv, NEW g \in Groups, NEW c \in Capacities \cup {Absent}, Change(g, c)
  PROVE  RunnersInv'
<1> USE DEF Change
<1>1. TypeOK'
  <2>1. changes' \in 0..MaxChanges
    BY RunnersAssumption DEF RunnersInv, TypeOK
  <2>2. was' \in [Sweepers -> SUBSET (Capacities \cup {Absent})]
    BY DEF RunnersInv, TypeOK
  <2> QED
    BY <2>1, <2>2 DEF RunnersInv, TypeOK
<1>2. ASSUME NEW s \in Sweepers
      PROVE  /\ was[s] \subseteq was'[s]
             /\ g \in Current(s) => c \in was'[s]
             /\ Current(s)' = Current(s) /\ Current(s) \subseteq Groups
  BY FirstIsInside DEF Current, RunnersInv, TypeOK
<1>3. ReadingsOK'
  <2> SUFFICES ASSUME NEW s \in Sweepers
               PROVE  /\ pc'[s] \in {"idle", "listing"} => groups'[s] = {}
                      /\ \A h \in Current(s) : capacity'[h] \in was'[s]
                      /\ pc'[s] = "recording" =>
                           \E k \in was'[s] : k # Absent /\ snap'[s] \in FirstPage(k)
    BY <1>2 DEF ReadingsOK
  <2>1. \A h \in Current(s) : capacity'[h] \in was'[s]
    BY <1>2 DEF RunnersInv, TypeOK, ReadingsOK
  <2> QED
    BY <1>2, <2>1 DEF RunnersInv, ReadingsOK
<1> QED
  BY <1>1, <1>3 DEF RunnersInv

\* A sweeper goes on to another group, or ends its sweep: no reading is held.
LEMMA TurnInv ==
  ASSUME RunnersInv, NEW s \in Sweepers, NEW rest \in SUBSET Groups, Turn(s, rest),
         NEW to \in {"idle", "listing", "reading"}, pc' = [pc EXCEPT ![s] = to],
         to # "reading" => rest = {},
         snap' = snap \/ snap' = [snap EXCEPT ![s] = Absent],
         UNCHANGED <<capacity, changes>>,
         latest' \in [Groups -> Readings \cup {Absent}]
  PROVE  RunnersInv'
<1>1. was' = [was EXCEPT ![s] = {capacity[g] : g \in First(rest)}]
      /\ groups' = [groups EXCEPT ![s] = rest]
  BY DEF Turn
<1>2. {capacity[g] : g \in First(rest)} \subseteq Capacities \cup {Absent}
  BY FirstIsInside DEF RunnersInv, TypeOK
<1>3. TypeOK'
  BY <1>1, <1>2 DEF RunnersInv, TypeOK
<1>4. ReadingsOK'
  <2> SUFFICES ASSUME NEW q \in Sweepers
               PROVE  /\ pc'[q] \in {"idle", "listing"} => groups'[q] = {}
                      /\ \A h \in First(groups'[q]) : capacity'[h] \in was'[q]
                      /\ pc'[q] = "recording" =>
                           \E k \in was'[q] : k # Absent /\ snap'[q] \in FirstPage(k)
    BY DEF ReadingsOK, Current
  <2>1. CASE q = s
    BY <1>1, <2>1 DEF RunnersInv, TypeOK
  <2>2. CASE q # s
    <3>1. /\ pc'[q] = pc[q] /\ groups'[q] = groups[q] /\ was'[q] = was[q]
          /\ snap'[q] = snap[q]
      BY <1>1, <2>2 DEF RunnersInv, TypeOK
    <3> QED
      BY <3>1 DEF RunnersInv, ReadingsOK, Current
  <2> QED
    BY <2>1, <2>2
<1> QED
  BY <1>3, <1>4 DEF RunnersInv

\* A sweeper that has no group in hand moves on without one.
LEMMA MoveInv ==
  ASSUME RunnersInv, NEW s \in Sweepers, groups[s] = {},
         NEW to \in {"idle", "listing", "reading"}, pc' = [pc EXCEPT ![s] = to],
         UNCHANGED <<capacity, changes, groups, snap, latest, was>>
  PROVE  RunnersInv'
<1>1. TypeOK'
  BY DEF RunnersInv, TypeOK
<1>2. \A q \in Sweepers : Current(q)' = Current(q)
  BY DEF Current
<1>3. ReadingsOK'
  BY <1>2 DEF RunnersInv, TypeOK, ReadingsOK
<1> QED
  BY <1>1, <1>3 DEF RunnersInv

LEMMA ReadInv ==
  ASSUME RunnersInv, NEW s \in Sweepers, NEW g \in Groups, ListRunnerGroupRunners(s, g)
  PROVE  RunnersInv'
<1> USE DEF ListRunnerGroupRunners
<1>1. PICK c \in FirstPage(capacity[g]) : snap' = [snap EXCEPT ![s] = c]
  OBVIOUS
<1>2. capacity[g] \in Capacities /\ capacity[g] \in was[s] /\ c \in Readings
  BY FirstPageType, <1>1 DEF RunnersInv, TypeOK, ReadingsOK
<1>3. TypeOK'
  BY <1>1, <1>2 DEF RunnersInv, TypeOK
<1>4. \A q \in Sweepers : Current(q)' = Current(q)
  BY DEF Current
<1>5. snap'[s] = c /\ \A q \in Sweepers : q # s => snap'[q] = snap[q] /\ pc'[q] = pc[q]
  BY <1>1 DEF RunnersInv, TypeOK
<1>6. ReadingsOK'
  <2> SUFFICES ASSUME NEW q \in Sweepers
               PROVE  /\ pc'[q] \in {"idle", "listing"} => groups[q] = {}
                      /\ \A h \in Current(q) : capacity[h] \in was[q]
                      /\ pc'[q] = "recording" =>
                           \E k \in was[q] : k # Absent /\ snap'[q] \in FirstPage(k)
    BY <1>4 DEF ReadingsOK
  <2>1. CASE q = s
    BY <1>1, <1>2, <1>5, <2>1 DEF RunnersInv, TypeOK, ReadingsOK
  <2>2. CASE q # s
    BY <1>5, <2>2 DEF RunnersInv, ReadingsOK
  <2> QED
    BY <2>1, <2>2
<1> QED
  BY <1>3, <1>6 DEF RunnersInv

LEMMA StepInv ==
  ASSUME RunnersInv, NEW s \in Sweepers, Begin(s) \/ Step(s)
  PROVE  RunnersInv'
<1>0. /\ groups[s] \in SUBSET Groups /\ groups[s] \ Current(s) \in SUBSET Groups
      /\ latest \in [Groups -> Readings \cup {Absent}]
  BY DEF RunnersInv, TypeOK
<1>1. CASE Begin(s)
  BY <1>1, MoveInv DEF Begin, RunnersInv, ReadingsOK
<1>2. CASE ListRunnerGroups(s)
  <2>1. FirstGroups \in SUBSET Groups
    BY DEF FirstGroups, Existing
  <2> QED
    BY <1>0, <1>2, <2>1, TurnInv DEF ListRunnerGroups
<1>3. CASE ListRunnerGroupsFails(s)
  BY <1>3, MoveInv DEF ListRunnerGroupsFails, RunnersInv, ReadingsOK
<1>4. CASE \E g \in Groups : ListRunnerGroupRunners(s, g)
  BY <1>4, ReadInv
<1>5. CASE RunnersFail(s)
  <2>1. pc' = [pc EXCEPT ![s] = "reading"]
    BY <1>5 DEF RunnersFail, RunnersInv, TypeOK
  <2> QED
    BY <1>0, <1>5, <2>1, TurnInv DEF RunnersFail
<1>6. CASE \E g \in Groups : RecordRunnerSnapshot(s, g)
  <2>1. PICK g \in Groups : RecordRunnerSnapshot(s, g)
    BY <1>6
  <2>2. latest' \in [Groups -> Readings \cup {Absent}]
    <3>1. snap[s] \in Readings \cup {Absent}
      BY DEF RunnersInv, TypeOK
    <3> QED
      BY <1>0, <2>1, <3>1 DEF RecordRunnerSnapshot
  <2> QED
    BY <1>0, <2>1, <2>2, TurnInv DEF RecordRunnerSnapshot, Recorded
<1>7. CASE RecordFails(s)
  BY <1>0, <1>7, TurnInv DEF RecordFails, Recorded
<1>8. CASE Finish(s)
  BY <1>8, MoveInv DEF Finish
<1> QED
  BY <1>1, <1>2, <1>3, <1>4, <1>5, <1>6, <1>7, <1>8 DEF Step

(* The types, and that a reading in hand is one of the group whose turn it *)
(* is since it came (pollRunners), whatever sweeps overlap.                *)
THEOREM RunnersInvariance == Spec => []RunnersInv
<1>1. RunnersInv /\ [Next]_vars => RunnersInv'
  <2> SUFFICES ASSUME RunnersInv, [Next]_vars PROVE RunnersInv'
    OBVIOUS
  <2>1. CASE Restart
    <3>1. TypeOK'
      BY <2>1 DEF Restart, RunnersInv, TypeOK
    <3>2. ReadingsOK'
      BY <2>1 DEF Restart, ReadingsOK, Current, First
    <3> QED
      BY <3>1, <3>2 DEF RunnersInv
  <2>2. CASE \E s \in Sweepers : Begin(s) \/ Step(s)
    BY <2>2, StepInv
  <2>3. CASE \E g \in Groups, c \in Capacities \cup {Absent} : Change(g, c)
    BY <2>3, ChangeInv
  <2>4. CASE UNCHANGED vars
    <3>1. TypeOK'
      BY <2>4 DEF vars, RunnersInv, TypeOK
    <3>2. ReadingsOK'
      BY <2>4 DEF vars, RunnersInv, ReadingsOK, Current
    <3> QED
      BY <3>1, <3>2 DEF RunnersInv
  <2> QED
    BY <2>1, <2>2, <2>3, <2>4 DEF Next
<1> QED
  BY <1>1, RunnersInit, PTL DEF Spec

\* A row that changes is given a reading taken of its group in its turn.
LEMMA RecordedIsRead ==
  ASSUME RunnersInv, Next, NEW g \in Groups, latest'[g] # latest[g]
  PROVE  \E s \in Sweepers :
           /\ g \in Current(s)
           /\ \E c \in was[s] : c # Absent /\ latest'[g] \in FirstPage(c)
<1>1. PICK s \in Sweepers, h \in Groups : RecordRunnerSnapshot(s, h)
  BY DEF Next, Restart, Begin, Step, ListRunnerGroups, ListRunnerGroupsFails,
         ListRunnerGroupRunners, RunnersFail, RecordFails, Finish, Change
<1>2. g = h /\ latest'[g] = snap[s]
  BY <1>1 DEF RecordRunnerSnapshot, RunnersInv, TypeOK
<1> QED
  BY <1>1, <1>2 DEF RecordRunnerSnapshot, Recorded, RunnersInv, ReadingsOK

(* What is shown of a group changes only to what a page showed of it while *)
(* the sweep that recorded it was at this group (RecordRunnerSnapshot).    *)
THEOREM ShownIsTrue == Spec => ShownWasTrue
<1>1. RunnersInv /\ [Next]_vars =>
        [\A g \in Groups : latest'[g] # latest[g] =>
           \E s \in Sweepers :
             /\ g \in Current(s)
             /\ \E c \in was[s] : c # Absent /\ latest'[g] \in FirstPage(c)]_vars
  BY RecordedIsRead DEF vars
<1> QED
  BY <1>1, RunnersInvariance, PTL DEF Spec, ShownWasTrue

\* One page holds all of a group that is no larger, and is full of a larger one.
LEMMA FirstPageIsExact ==
  ASSUME NEW c \in Capacities, NEW shown \in FirstPage(c)
  PROVE  IF c.total <= PageSize THEN shown = c
         ELSE shown.total = PageSize /\ shown.busy <= c.busy
<1>1. c \in Readings /\ c.busy <= c.total
  BY RunnersAssumption
<1>2. c.total \in Nat /\ c.busy \in Nat /\ c = [total |-> c.total, busy |-> c.busy]
  BY <1>1 DEF Readings
<1> DEFINE total == Min2(c.total, PageSize)
<1>3. PICK b \in 0..c.busy :
        /\ b <= total /\ c.busy - b <= c.total - total
        /\ shown = [total |-> total, busy |-> b]
  BY DEF FirstPage
<1>4. CASE c.total <= PageSize
  <2>1. total = c.total
    BY <1>2, <1>4, RunnersAssumption DEF Min2
  <2>2. b = c.busy
    BY <1>2, <1>3, <2>1
  <2> QED
    BY <1>2, <1>3, <1>4, <2>1, <2>2
<1>5. CASE ~ (c.total <= PageSize)
  <2>1. total = PageSize
    BY <1>2, <1>5, RunnersAssumption DEF Min2
  <2> QED
    BY <1>2, <1>3, <1>5, <2>1
<1> QED
  BY <1>4, <1>5

(* A group of no more than a page is shown with the counts it had at one   *)
(* moment of its turn, whatever sweeps overlap (ListRunnerGroupRunners).   *)
THEOREM ShownIsExact == Spec => ShownWasExact
<1>1. RunnersInv /\ [Next]_vars =>
        [\A g \in Groups : latest'[g] # latest[g] =>
           \E s \in Sweepers :
             /\ g \in Current(s)
             /\ \E c \in was[s] :
                  /\ c # Absent
                  /\ IF c.total <= PageSize THEN latest'[g] = c
                     ELSE latest'[g].total = PageSize /\ latest'[g].busy <= c.busy]_vars
  <2> SUFFICES ASSUME RunnersInv, Next, NEW g \in Groups, latest'[g] # latest[g]
               PROVE  \E s \in Sweepers :
                        /\ g \in Current(s)
                        /\ \E c \in was[s] :
                             /\ c # Absent
                             /\ IF c.total <= PageSize THEN latest'[g] = c
                                ELSE latest'[g].total = PageSize /\ latest'[g].busy <= c.busy
    BY DEF vars
  <2>1. PICK s \in Sweepers :
          /\ g \in Current(s)
          /\ \E c \in was[s] : c # Absent /\ latest'[g] \in FirstPage(c)
    BY RecordedIsRead
  <2>2. PICK c \in was[s] : c # Absent /\ latest'[g] \in FirstPage(c)
    BY <2>1
  <2>3. c \in Capacities
    BY <2>2 DEF RunnersInv, TypeOK
  <2>4. IF c.total <= PageSize THEN latest'[g] = c
        ELSE latest'[g].total = PageSize /\ latest'[g].busy <= c.busy
    BY <2>2, <2>3, FirstPageIsExact
  <2> QED
    BY <2>1, <2>2, <2>4
<1> QED
  BY <1>1, RunnersInvariance, PTL DEF Spec, ShownWasExact
=============================================================================
