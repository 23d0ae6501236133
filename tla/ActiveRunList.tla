--------------------------- MODULE ActiveRunList ---------------------------
(***************************************************************************)
(* ListActiveWorkflowRuns, page by page: one repository's queued runs, and *)
(* then those in progress, while the runs go on changing.  Poller takes    *)
(* each of these lists for a single answer; this module says what that     *)
(* leaves out.                                                             *)
(*                                                                         *)
(* GitHub, which is external, lists the newest run first.  A run that gets *)
(* a status, by a re-run for instance, enters that list at its place by    *)
(* age, and one that loses it leaves the list.                             *)
(***************************************************************************)
EXTENDS Integers, FiniteSets

CONSTANTS
  Runs,     \* numbered by age: a newer run has the greater number
  PageSize  \* runs on a page: 100

ASSUME ListAssumption ==
  Runs \subseteq Nat /\ IsFiniteSet(Runs) /\ PageSize \in Nat \ {0}

Statuses == {"queued", "in_progress", "other"}
Listed == {"queued", "in_progress"}

VARIABLES
  status,  \* of each run on GitHub
  at,      \* the status whose pages are being read
  page,    \* the page to be asked for next
  all,     \* the runs found so far
  steady,  \* history: runs active ever since the call
  shifted  \* history: runs that moved up when a newer one left the list being
           \* read, after its first page was

vars == <<status, at, page, all, steady, shifted>>
callVars == <<at, page, all>>

OnList(st) == {r \in Runs : status[r] = st}
Ahead(st, r) == Cardinality({q \in OnList(st) : q > r})

\* The runs on a page, and whether it has a successor (NextPage # 0).
Page(st, n) ==
  {r \in OnList(st) : (n - 1) * PageSize <= Ahead(st, r) /\ Ahead(st, r) < n * PageSize}
NextPage(st, n) == Cardinality(OnList(st)) > n * PageSize

Init ==
  /\ status \in [Runs -> Statuses]
  /\ at = "idle" /\ page = 1 /\ all = {}
  /\ steady = {} /\ shifted = {}

(* GitHub: a run is queued, begins, finishes or is cancelled, is run again.*)
Changes(r, to) ==
  LET from == status[r]
      passed == {q \in OnList(from) : q < r}
  IN /\ from # to
     /\ status' = [status EXCEPT ![r] = to]
     /\ steady' = (IF to = "other" THEN steady \ {r} ELSE steady)
     /\ shifted' = (IF from = at /\ page > 1 THEN shifted \cup passed ELSE shifted)
     /\ UNCHANGED callVars

Queue(r) == status[r] = "other" /\ Changes(r, "queued")
BeginRun(r) == status[r] = "queued" /\ Changes(r, "in_progress")
Finish(r) == Changes(r, "other")

(* The call: for each status, pages until there is no next one.  An error  *)
(* on any page is the error of the whole, and what was found is dropped.   *)
Call ==
  /\ at \in {"idle", "done", "failed"}
  /\ at' = "queued" /\ page' = 1 /\ all' = {}
  /\ steady' = OnList("queued") \cup OnList("in_progress") /\ shifted' = {}
  /\ UNCHANGED status

After(st) == IF st = "queued" THEN "in_progress" ELSE "done"

WrongGetPage ==
  /\ at \in Listed
  /\ all' = all \cup Page(at, page)
  /\ at' = (IF NextPage(at, page) THEN at ELSE After(at))
  /\ page' = (IF NextPage(at, page) THEN page + 1 ELSE page)
  /\ UNCHANGED <<status, steady, shifted>>
GetPage ==
  /\ at \in Listed
  /\ all' = all \cup Page(at, page)
  /\ at' = (IF NextPage(at, page) THEN at ELSE After(at))
  /\ page' = (IF NextPage(at, page) THEN page + 1 ELSE 1)
  /\ UNCHANGED <<status, steady, shifted>>

WrongPageFails ==
  /\ at \in Listed /\ at' = "done" /\ UNCHANGED all
  /\ page' = 1 /\ UNCHANGED <<status, steady, shifted>>
PageFails ==
  /\ at \in Listed /\ at' = "failed" /\ all' = {}
  /\ page' = 1 /\ UNCHANGED <<status, steady, shifted>>

Next ==
  \/ \E r \in Runs : Queue(r) \/ BeginRun(r) \/ Finish(r)
  \/ Call \/ GetPage \/ PageFails

Spec == Init /\ [][Next]_vars
-----------------------------------------------------------------------------
TypeOK ==
  /\ status \in [Runs -> Statuses]
  /\ at \in {"idle", "queued", "in_progress", "done", "failed"}
  /\ page \in Nat \ {0}
  /\ all \subseteq Runs /\ steady \subseteq Runs /\ shifted \subseteq Runs

(* A run active for as long as the call lasts is in its answer, although   *)
(* the pages and the two lists are read at different times and the run may *)
(* go from one list to the other, unless it moved up, past the pages still *)
(* to come, when a newer run left a list of more than one page.  This is   *)
(* all that closing the runs which the answer lacks can rely on.           *)
MissedOnlyIfShifted == at = "done" => steady \subseteq all \cup shifted

(* The argument for it: what has not been found is still to come.          *)
StillToCome(r) ==
  \/ r \in all \cup shifted
  \/ at = "queued" /\ status[r] = "in_progress"
  \/ at \in Listed /\ status[r] = at /\ Ahead(at, r) >= (page - 1) * PageSize

ListInv ==
  /\ TypeOK
  /\ \A r \in steady :
       /\ status[r] \in Listed
       /\ at \in Listed \cup {"done"} => StillToCome(r)

(* An answer of no more than one page each is complete: the lists are then *)
(* two answers, as Poller has them.                                        *)
CompleteWhenShort ==
  Cardinality(Runs) <= PageSize => (at = "done" => steady \subseteq all)
=============================================================================
