------------------------ MODULE ActiveRunListProofs ------------------------
(***************************************************************************)
(* Proofs about ListActiveWorkflowRuns, for any number of runs and any     *)
(* size of page.  The invariant says of every run that has been active     *)
(* since the call and has not been found where the call will still find    *)
(* it: no run gets in front of a page that is still to come but by a newer *)
(* one leaving the list.                                                   *)
(***************************************************************************)
EXTENDS ActiveRunList, FiniteSetTheorems, TLAPS

\* The runs before r on a list, by the statuses of one state.
Newer(statuses, st, r) == {q \in Runs : statuses[q] = st /\ q > r}

LEMMA NewerIsFinite ==
  ASSUME NEW f, NEW st, NEW r
  PROVE  IsFiniteSet(Newer(f, st, r)) /\ Cardinality(Newer(f, st, r)) \in Nat
<1>1. Newer(f, st, r) \in SUBSET Runs
  BY DEF Newer
<1> QED
  BY <1>1, ListAssumption, FS_Subset, FS_CardinalityType

LEMMA AheadCounts ==
  ASSUME NEW st, NEW r
  PROVE  /\ Ahead(st, r) = Cardinality(Newer(status, st, r))
         /\ Ahead(st, r) \in Nat
<1>1. {q \in OnList(st) : q > r} = Newer(status, st, r)
  BY DEF OnList, Newer
<1> QED
  BY <1>1, NewerIsFinite DEF Ahead

LEMMA AheadCountsNext ==
  ASSUME NEW r, at' = at
  PROVE  /\ Ahead(at, r)' = Cardinality(Newer(status', at, r))
         /\ Ahead(at, r)' \in Nat
<1>1. {q \in {p \in Runs : status'[p] = at} : q > r} = Newer(status', at, r)
  BY DEF Newer
<1>2. Ahead(at, r)' = Cardinality({q \in {p \in Runs : status'[p] = at} : q > r})
  BY DEF Ahead, OnList
<1> QED
  BY <1>1, <1>2, NewerIsFinite

\* A run has fewer runs before it than its list is long.
LEMMA AheadIsShorter ==
  ASSUME NEW st, NEW r \in Runs, status[r] = st
  PROVE  /\ Ahead(st, r) < Cardinality(OnList(st))
         /\ Cardinality(OnList(st)) \in Nat
<1>1. OnList(st) \in SUBSET Runs /\ r \in OnList(st)
  BY DEF OnList
<1>2. Newer(status, st, r) \in SUBSET OnList(st) /\ r \notin Newer(status, st, r)
  BY ListAssumption DEF Newer, OnList
<1>3. IsFiniteSet(OnList(st)) /\ Cardinality(OnList(st)) \in Nat
  BY <1>1, ListAssumption, FS_Subset, FS_CardinalityType
<1>4. /\ Cardinality(Newer(status, st, r)) <= Cardinality(OnList(st))
      /\ Cardinality(OnList(st)) # Cardinality(Newer(status, st, r))
  BY <1>1, <1>2, <1>3, FS_Subset
<1> QED
  BY <1>3, <1>4, AheadCounts, NewerIsFinite

LEMMA PageBounds ==
  ASSUME NEW n \in Nat
  PROVE  n * PageSize \in Nat /\ (1 - 1) * PageSize = 0 /\ (n + 1 - 1) * PageSize = n * PageSize
BY ListAssumption

LEMMA ListInit == Init => ListInv
BY ListAssumption DEF Init, ListInv, TypeOK

\* A change of a run on GitHub, other than the run asked about, brings that one
\* forward only by leaving its list.
LEMMA StaysAhead ==
  ASSUME TypeOK, NEW x \in Runs, NEW to, NEW r \in Runs, r # x,
         status' = [status EXCEPT ![x] = to], at' = at,
         ~ (status[x] = at /\ x > r)
  PROVE  Ahead(at, r)' >= Ahead(at, r)
<1>1. Newer(status, at, r) \in SUBSET Newer(status', at, r)
  BY DEF TypeOK, Newer
<1>2. Cardinality(Newer(status, at, r)) <= Cardinality(Newer(status', at, r))
  BY <1>1, NewerIsFinite, FS_Subset
<1> QED
  BY <1>2, AheadCounts, AheadCountsNext, NewerIsFinite

LEMMA ChangeInv ==
  ASSUME ListInv, NEW x \in Runs, Queue(x) \/ BeginRun(x) \/ Finish(x)
  PROVE  ListInv'
<1>1. PICK to \in Statuses :
        /\ Changes(x, to)
        /\ to = "in_progress" => status[x] = "queued"
        /\ to = "queued" => status[x] = "other"
  BY DEF Queue, BeginRun, Finish, Statuses
<1>2. /\ status' = [status EXCEPT ![x] = to]
      /\ at' = at /\ page' = page /\ all' = all
      /\ shifted \subseteq shifted'
  BY <1>1 DEF Changes, callVars
<1>3. TypeOK'
  BY <1>1, <1>2 DEF Changes, ListInv, TypeOK, OnList
<1>4. ASSUME NEW r \in steady'
      PROVE  /\ r \in steady /\ r \in Runs /\ status'[r] \in Listed
             /\ r = x => to # "other"
  BY <1>1, <1>2, <1>4 DEF Changes, ListInv, TypeOK, Statuses, Listed
<1>5. ASSUME NEW r \in steady', at' \in Listed \cup {"done"}
      PROVE  StillToCome(r)'
  <2>1. r \in steady /\ r \in Runs /\ (r = x => to # "other")
    BY <1>4, <1>5
  <2>2. StillToCome(r)
    BY <1>2, <1>5, <2>1 DEF ListInv
  <2>3. CASE r \in all \cup shifted
    BY <1>2, <2>3 DEF StillToCome
  <2>4. CASE at = "queued" /\ status[r] = "in_progress"
    <3>1. r # x
      BY <1>1, <2>1, <2>4 DEF Changes, Statuses
    <3>2. status'[r] = status[r]
      BY <1>2, <2>1, <3>1 DEF ListInv, TypeOK
    <3> QED
      BY <1>2, <2>4, <3>2 DEF StillToCome
  <2>5. CASE at \in Listed /\ status[r] = at /\ Ahead(at, r) >= (page - 1) * PageSize
    <3>1. CASE r = x
      <4>1. at = "queued" /\ status'[r] = "in_progress"
        BY <1>1, <1>2, <2>1, <2>5, <3>1 DEF Changes, Statuses, Listed, ListInv, TypeOK
      <4> QED
        BY <1>2, <4>1 DEF StillToCome
    <3>2. CASE r # x /\ status[x] = at /\ x > r /\ page > 1
      BY <1>1, <2>1, <2>5, <3>2 DEF Changes, StillToCome, OnList
    <3>3. CASE r # x /\ ~ (status[x] = at /\ x > r /\ page > 1)
      <4>1. status'[r] = at
        BY <1>2, <2>1, <2>5, <3>3 DEF ListInv, TypeOK
      <4>2. page \in Nat \ {0} /\ page - 1 \in Nat /\ (page - 1) * PageSize \in Nat
        BY PageBounds DEF ListInv, TypeOK
      <4>3. Ahead(at, r)' \in Nat /\ Ahead(at, r) \in Nat
        BY <1>2, AheadCounts, AheadCountsNext
      <4>4. Ahead(at, r)' >= (page - 1) * PageSize
        <5>1. CASE page = 1
          BY <4>3, <5>1, PageBounds
        <5>2. CASE page # 1
          <6>1. /\ TypeOK /\ at' = at /\ r # x /\ r \in Runs
                /\ ~ (status[x] = at /\ x > r)
            BY <1>2, <2>1, <3>3, <4>2, <5>2 DEF ListInv
          <6>2. Ahead(at, r)' >= Ahead(at, r)
            <7>1. status' = [status EXCEPT ![x] = to]
              BY <1>2
            <7> QED
              BY <6>1, <7>1, StaysAhead
          <6> QED
            BY <2>5, <4>2, <4>3, <6>2
        <5> QED
          BY <5>1, <5>2
      <4> QED
        BY <1>2, <2>5, <4>1, <4>4 DEF StillToCome
    <3> QED
      BY <3>1, <3>2, <3>3
  <2> QED
    BY <2>2, <2>3, <2>4, <2>5 DEF StillToCome
<1> QED
  BY <1>3, <1>4, <1>5 DEF ListInv

LEMMA CallInv ==
  ASSUME ListInv, Call
  PROVE  ListInv'
<1>1. TypeOK'
  BY DEF Call, ListInv, TypeOK, OnList
<1>2. ASSUME NEW r \in steady'
      PROVE  status'[r] \in Listed /\ StillToCome(r)'
  <2>1. status[r] \in Listed /\ status' = status /\ at' = "queued" /\ page' = 1
    BY <1>2 DEF Call, OnList, Listed
  <2>2. Ahead(at, r)' \in Nat
    <3>1. Ahead(at, r)' = Cardinality(Newer(status', at', r))
      <4>1. {q \in {p \in Runs : status'[p] = at'} : q > r} = Newer(status', at', r)
        BY DEF Newer
      <4> QED
        BY <4>1 DEF Ahead, OnList
    <3> QED
      BY <3>1, NewerIsFinite
  <2> QED
    BY <2>1, <2>2, PageBounds DEF StillToCome, Listed
<1> QED
  BY <1>1, <1>2 DEF ListInv

LEMMA GetPageInv ==
  ASSUME ListInv, GetPage
  PROVE  ListInv'
<1> USE DEF GetPage
<1>1. page \in Nat \ {0} /\ page - 1 \in Nat
  BY DEF ListInv, TypeOK
<1>2. TypeOK'
  BY <1>1 DEF ListInv, TypeOK, Page, OnList, Listed, After
<1>3. ASSUME NEW r \in steady'
      PROVE  r \in steady /\ r \in Runs /\ status'[r] = status[r] /\ status[r] \in Listed
  BY <1>3 DEF ListInv, TypeOK
<1>4. ASSUME NEW r \in steady', at' \in Listed \cup {"done"}
      PROVE  StillToCome(r)'
  <2>1. r \in Runs /\ StillToCome(r)
    BY <1>3, <1>4 DEF ListInv, Listed
  <2>2. Ahead(at, r)' \in Nat
    <3>1. {q \in {p \in Runs : status'[p] = at'} : q > r} = Newer(status', at', r)
      BY DEF Newer
    <3>2. Ahead(at, r)' = Cardinality(Newer(status', at', r))
      BY <3>1 DEF Ahead, OnList
    <3> QED
      BY <3>2, NewerIsFinite
  <2>3. CASE r \in all \cup shifted
    BY <2>3 DEF StillToCome
  <2>4. CASE at = "queued" /\ status[r] = "in_progress"
    <3>1. CASE NextPage(at, page)
      BY <2>4, <3>1 DEF StillToCome
    <3>2. CASE ~ NextPage(at, page)
      BY <2>2, <2>4, <3>2, PageBounds DEF StillToCome, After, Listed
    <3> QED
      BY <3>1, <3>2
  <2>5. CASE at \in Listed /\ status[r] = at /\ Ahead(at, r) >= (page - 1) * PageSize
    <3>1. CASE Ahead(at, r) < page * PageSize
      <4>1. r \in Page(at, page)
        BY <2>1, <2>5, <3>1 DEF Page, OnList
      <4> QED
        BY <4>1 DEF StillToCome
    <3>2. CASE ~ (Ahead(at, r) < page * PageSize)
      <4>1. page * PageSize \in Nat /\ Ahead(at, r) \in Nat
        BY <1>1, PageBounds, AheadCounts
      <4>2. NextPage(at, page)
        <5>1. /\ Ahead(at, r) < Cardinality(OnList(at))
              /\ Cardinality(OnList(at)) \in Nat
          BY <2>1, <2>5, AheadIsShorter
        <5> QED
          BY <3>2, <4>1, <5>1 DEF NextPage
      <4>3. at' = at /\ page' = page + 1 /\ status' = status
        BY <4>2
      <4>4. (page' - 1) * PageSize = page * PageSize
        BY <1>1, <4>3, PageBounds
      <4>5. Ahead(at, r)' = Ahead(at, r)
        BY <4>3 DEF Ahead, OnList
      <4> QED
        BY <2>5, <3>2, <4>1, <4>3, <4>4, <4>5 DEF StillToCome
    <3> QED
      BY <3>1, <3>2
  <2> QED
    BY <2>1, <2>3, <2>4, <2>5 DEF StillToCome
<1> QED
  BY <1>2, <1>3, <1>4 DEF ListInv

(* A run active all through the call is found, has moved up, or will still *)
(* be found (ListActiveWorkflowRuns): an invariant of every repository.    *)
THEOREM ListInvariance == Spec => []ListInv
<1>1. Init => ListInv
  BY ListInit
<1>2. ListInv /\ [Next]_vars => ListInv'
  <2> SUFFICES ASSUME ListInv, [Next]_vars PROVE ListInv'
    OBVIOUS
  <2>1. CASE \E r \in Runs : Queue(r) \/ BeginRun(r) \/ Finish(r)
    BY <2>1, ChangeInv
  <2>2. CASE Call
    BY <2>2, CallInv
  <2>3. CASE GetPage
    BY <2>3, GetPageInv
  <2>4. CASE PageFails
    <3>1. TypeOK'
      BY <2>4 DEF PageFails, ListInv, TypeOK
    <3> QED
      BY <2>4, <3>1 DEF PageFails, ListInv, Listed
  <2>5. CASE UNCHANGED vars
    <3>1. TypeOK'
      BY <2>5 DEF vars, ListInv, TypeOK
    <3>2. ASSUME NEW r \in steady PROVE StillToCome(r)' <=> StillToCome(r)
      BY <2>5 DEF vars, StillToCome, Ahead, OnList
    <3> QED
      BY <2>5, <3>1, <3>2 DEF vars, ListInv
  <2> QED
    BY <2>1, <2>2, <2>3, <2>4, <2>5 DEF Next
<1> QED
  BY <1>1, <1>2, PTL DEF Spec

(* Whatever the pages and the runs do, the answer of a call lacks only     *)
(* those of the lasting runs that a newer one has made move up.            *)
THEOREM LastingRunsAreFound == Spec => []MissedOnlyIfShifted
<1>1. ListInv => MissedOnlyIfShifted
  BY DEF ListInv, MissedOnlyIfShifted, StillToCome, Listed
<1> QED
  BY <1>1, ListInvariance, PTL

\* Lists that fit a page are never read past it.
OnePage == page = 1 /\ shifted = {}

(* A repository whose runs fit one page is listed completely, which is     *)
(* what Poller takes for granted of each of its lists.                     *)
THEOREM ShortListsAreComplete == Spec => []CompleteWhenShort
<1>1. CASE Cardinality(Runs) <= PageSize
  <2>1. Init => OnePage
    BY DEF Init, OnePage
  <2>2. OnePage /\ [Next]_vars => OnePage'
    <3> SUFFICES ASSUME OnePage, [Next]_vars PROVE OnePage'
      OBVIOUS
    <3>1. ASSUME NEW r \in Runs, Queue(r) \/ BeginRun(r) \/ Finish(r)
          PROVE  OnePage'
      BY <3>1 DEF Queue, BeginRun, Finish, Changes, callVars, OnePage
    <3>2. CASE GetPage
      <4>1. Cardinality(OnList(at)) <= Cardinality(Runs) /\ Cardinality(OnList(at)) \in Nat
        <5>1. OnList(at) \in SUBSET Runs
          BY DEF OnList
        <5> QED
          BY <5>1, ListAssumption, FS_Subset, FS_CardinalityType
      <4>2. Cardinality(Runs) \in Nat
        BY ListAssumption, FS_CardinalityType
      <4>3. ~ NextPage(at, page)
        BY <1>1, <4>1, <4>2, ListAssumption DEF NextPage, OnePage
      <4> QED
        BY <3>2, <4>3 DEF GetPage, OnePage
    <3> QED
      BY <3>1, <3>2 DEF Next, Call, PageFails, OnePage, vars
  <2>3. MissedOnlyIfShifted /\ OnePage => CompleteWhenShort
    BY DEF MissedOnlyIfShifted, OnePage, CompleteWhenShort
  <2> QED
    BY <2>1, <2>2, <2>3, LastingRunsAreFound, PTL DEF Spec
<1>2. CASE ~ (Cardinality(Runs) <= PageSize)
  <2>1. CompleteWhenShort
    BY <1>2 DEF CompleteWhenShort
  <2> QED
    BY <2>1, PTL
<1> QED
  BY <1>1, <1>2
=============================================================================
