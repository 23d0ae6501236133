-------------------------- MODULE RunnerSnapshots --------------------------
(***************************************************************************)
(* Runner capacity: pollRunners, run by the loop and by refreshes beside   *)
(* it, and what LatestRunnerSnapshots makes of the rows it records.  Both  *)
(* lists it works from are one page of GitHub's, which is external: groups *)
(* and runners come, go and change between any two calls.                  *)
(*                                                                         *)
(* The table is append-only and only the row of each group with the        *)
(* highest id is read, the one inserted last; that row is what is kept.    *)
(***************************************************************************)
EXTENDS Integers, FiniteSets

CONSTANTS
  Groups,      \* runner groups, numbered in the order GitHub lists them
  Loop,        \* the goroutine of Run
  Refreshers,  \* requests in RefreshNow
  Capacities,  \* how many runners, total and busy, a group may have
  PageSize,    \* entries on a page: 100
  MaxChanges   \* bound: what happens to the groups on GitHub

Sweepers == {Loop} \cup Refreshers
Readings == [total : Nat, busy : Nat]

ASSUME RunnersAssumption ==
  /\ Groups \subseteq Nat /\ Loop \notin Refreshers
  /\ Capacities \subseteq {c \in Readings : c.busy <= c.total}
  /\ PageSize \in Nat \ {0} /\ MaxChanges \in Nat

VARIABLES
  capacity,  \* GitHub: total and busy runners of each group, if there is one
  changes,   \* how often that has changed
  pc,        \* where each sweeper is
  groups,    \* groups it has still to deal with, the first one now
  snap,      \* the reading it is about to record
  latest,    \* the latest row of each group
  was        \* history: the capacity of its current group since its turn came

vars == <<capacity, changes, pc, groups, snap, latest, was>>

Absent == [total |-> 0, busy |-> -1]

Min2(a, b) == IF a < b THEN a ELSE b

\* The last entry of a full page is dropped.
WrongFirstPage(c) ==
  LET total == Min2(c.total, PageSize - 1)
  IN {[total |-> total, busy |-> b] :
        b \in {n \in 0..c.busy : n <= total /\ c.busy - n <= c.total - total}}

\* The counts over the first page of a group's runners, which may be any of them.
FirstPage(c) ==
  LET total == Min2(c.total, PageSize)
  IN {[total |-> total, busy |-> b] :
        b \in {n \in 0..c.busy : n <= total /\ c.busy - n <= c.total - total}}

Init ==
  /\ capacity \in [Groups -> Capacities \cup {Absent}] /\ changes = 0
  /\ pc = [s \in Sweepers |-> "idle"]
  /\ groups = [s \in Sweepers |-> {}]
  /\ snap = [s \in Sweepers |-> Absent]
  /\ latest = [g \in Groups |-> Absent]
  /\ was = [s \in Sweepers |-> {}]

First(some) == {g \in some : \A h \in some : g <= h}
Current(s) == First(groups[s])

Change(g, c) ==
  /\ changes < MaxChanges /\ changes' = changes + 1
  /\ capacity' = [capacity EXCEPT ![g] = c]
  /\ was' = [s \in Sweepers |->
       IF g \in Current(s) THEN was[s] \cup {c} ELSE was[s]]
  /\ UNCHANGED <<pc, groups, snap, latest>>

(* pollRunners, unless skipForRateLimit says not to: the groups, then the  *)
(* runners of each in turn; a group whose runners cannot be listed, or     *)
(* whose reading cannot be recorded, is passed over.                       *)
Begin(s) ==
  /\ pc[s] = "idle" /\ pc' = [pc EXCEPT ![s] = "listing"]
  /\ UNCHANGED <<capacity, changes, groups, snap, latest, was>>

Existing == {g \in Groups : capacity[g] # Absent}
Before(g) == {h \in Existing : h < g}

\* The last group of a full page is dropped.
WrongFirstGroups == {g \in Existing : Cardinality(Before(g)) < PageSize - 1}

FirstGroups == {g \in Existing : Cardinality(Before(g)) < PageSize}

\* A sweeper's next group has its turn.
Turn(s, rest) ==
  /\ groups' = [groups EXCEPT ![s] = rest]
  /\ was' = [was EXCEPT ![s] = {capacity[g] : g \in First(rest)}]

ListRunnerGroups(s) ==
  /\ pc[s] = "listing" /\ pc' = [pc EXCEPT ![s] = "reading"]
  /\ Turn(s, FirstGroups)
  /\ UNCHANGED <<capacity, changes, snap, latest>>

ListRunnerGroupsFails(s) ==
  /\ pc[s] = "listing" /\ pc' = [pc EXCEPT ![s] = "idle"]
  /\ UNCHANGED <<capacity, changes, groups, snap, latest, was>>

ListRunnerGroupRunners(s, g) ==
  /\ pc[s] = "reading" /\ g \in Current(s)
  /\ capacity[g] # Absent
  /\ pc' = [pc EXCEPT ![s] = "recording"]
  /\ \E c \in FirstPage(capacity[g]) : snap' = [snap EXCEPT ![s] = c]
  /\ UNCHANGED <<capacity, changes, groups, latest, was>>

\* The group may be gone by now.
WrongRunnersFail(s) ==
  /\ pc[s] = "reading" /\ groups[s] # {}
  /\ pc' = [pc EXCEPT ![s] = "recording"]
  /\ snap' = [snap EXCEPT ![s] = [total |-> 0, busy |-> 0]]
  /\ UNCHANGED <<capacity, changes, groups, latest, was>>
WrongReturn(s) ==
  /\ pc[s] = "reading" /\ groups[s] # {}
  /\ Turn(s, {})
  /\ UNCHANGED <<capacity, changes, pc, snap, latest>>
RunnersFail(s) ==
  /\ pc[s] = "reading" /\ groups[s] # {}
  /\ Turn(s, groups[s] \ Current(s))
  /\ UNCHANGED <<capacity, changes, pc, snap, latest>>

Recorded(s) ==
  /\ pc[s] = "recording" /\ pc' = [pc EXCEPT ![s] = "reading"]
  /\ Turn(s, groups[s] \ Current(s)) /\ snap' = [snap EXCEPT ![s] = Absent]
  /\ UNCHANGED <<capacity, changes>>

RecordRunnerSnapshot(s, g) ==
  Recorded(s) /\ g \in Current(s) /\ latest' = [latest EXCEPT ![g] = snap[s]]

RecordFails(s) == Recorded(s) /\ UNCHANGED latest

Finish(s) ==
  /\ pc[s] = "reading" /\ groups[s] = {}
  /\ pc' = [pc EXCEPT ![s] = "idle"]
  /\ UNCHANGED <<capacity, changes, groups, snap, latest, was>>

\* The process ends, in the middle of a group, and starts again.
Restart ==
  /\ \E s \in Sweepers : groups[s] # {}
  /\ pc' = [s \in Sweepers |-> "idle"]
  /\ groups' = [s \in Sweepers |-> {}] /\ snap' = [s \in Sweepers |-> Absent]
  /\ was' = [s \in Sweepers |-> {}]
  /\ UNCHANGED <<capacity, changes, latest>>

Step(s) ==
  \/ ListRunnerGroups(s) \/ ListRunnerGroupsFails(s)
  \/ \E g \in Groups : ListRunnerGroupRunners(s, g) \/ RecordRunnerSnapshot(s, g)
  \/ RunnersFail(s) \/ RecordFails(s) \/ Finish(s)

Next ==
  \/ Restart
  \/ \E s \in Sweepers : Begin(s) \/ Step(s)
  \/ \E g \in Groups, c \in Capacities \cup {Absent} : Change(g, c)

Spec == Init /\ [][Next]_vars

(* The loop's ticker goes on firing and the budget is not exhausted for    *)
(* ever; the groups can be listed, and a reading of each recorded, now and *)
(* then; the process does not restart for ever.  Nothing of refreshes.     *)
FairSpec ==
  /\ Spec /\ <>[][~ Restart]_vars
  /\ SF_vars(Begin(Loop)) /\ WF_vars(Step(Loop))
  /\ SF_vars(ListRunnerGroups(Loop))
  /\ \A g \in Groups : SF_vars(RecordRunnerSnapshot(Loop, g))
-----------------------------------------------------------------------------
TypeOK ==
  /\ capacity \in [Groups -> Capacities \cup {Absent}] /\ changes \in 0..MaxChanges
  /\ pc \in [Sweepers -> {"idle", "listing", "reading", "recording"}]
  /\ groups \in [Sweepers -> SUBSET Groups]
  /\ snap \in [Sweepers -> Readings \cup {Absent}]
  /\ latest \in [Groups -> Readings \cup {Absent}]
  /\ was \in [Sweepers -> SUBSET (Capacities \cup {Absent})]

(* A reading under way is one of the group whose turn it is.               *)
ReadingsOK ==
  \A s \in Sweepers :
    /\ pc[s] \in {"idle", "listing"} => groups[s] = {}
    /\ \A g \in Current(s) : capacity[g] \in was[s]
    /\ pc[s] = "recording" => \E c \in was[s] : c # Absent /\ snap[s] \in FirstPage(c)

RunnersInv == TypeOK /\ ReadingsOK

(* What the dashboard is shown of a group changes only to what the group   *)
(* was, as far as a page shows it, while the sweep that recorded it was at *)
(* this group: never to a failed list's counts, to another group's, or to  *)
(* those of a group that does not exist.                                   *)
ShownWasTrue ==
  [][\A g \in Groups : latest'[g] # latest[g] =>
       \E s \in Sweepers :
         /\ g \in Current(s)
         /\ \E c \in was[s] : c # Absent /\ latest'[g] \in FirstPage(c)]_vars

(* Of a group with no more runners than a page has, both counts are shown  *)
(* as they were together at one moment; only of a larger one is anything   *)
(* left out, and then the total shown is that of a full page.              *)
ShownWasExact ==
  [][\A g \in Groups : latest'[g] # latest[g] =>
       \E s \in Sweepers :
         /\ g \in Current(s)
         /\ \E c \in was[s] :
              /\ c # Absent
              /\ IF c.total <= PageSize THEN latest'[g] = c
                 ELSE latest'[g].total = PageSize /\ latest'[g].busy <= c.busy]_vars

(* A group that stays as it is and among the first a page of groups holds, *)
(* and whose own list is answered now and then, is shown as it is in the   *)
(* end, and stays so: whatever fails for the other groups, and though a    *)
(* refresh may be late to record what it read long before.                 *)
ShowsWhatStays ==
  \A g \in Groups :
    /\ SF_vars(ListRunnerGroupRunners(Loop, g))
    /\ <>[](capacity[g] # Absent /\ Cardinality(Before(g)) < PageSize)
    /\ <>[][UNCHANGED capacity[g]]_vars
    => <>[](latest[g] \in FirstPage(capacity[g]))
=============================================================================
