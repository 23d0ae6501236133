---------------------------- MODULE TrendSeries ----------------------------
(***************************************************************************)
(* What the queue-depth trend promises its readers: a series with at most  *)
(* one point per minute, where recording a reading sets the point of its   *)
(* minute, which is never a minute to come, and touches no other.  A point *)
(* is a sequence of one reading, and the empty sequence is no point.       *)
(***************************************************************************)
EXTENDS Integers

CONSTANTS
  MaxMinute,  \* bound: the last minute of a behaviour
  Depths      \* the readings of the queue depth

Minutes == 1..MaxMinute

VARIABLES minute,  \* the minute it is
          series   \* minute -> point

Init == minute = 1 /\ series = [m \in Minutes |-> <<>>]

Pass ==
  /\ minute < MaxMinute /\ minute' = minute + 1
  /\ UNCHANGED series

Record(m, depth) ==
  /\ m <= minute
  /\ series' = [series EXCEPT ![m] = <<depth>>]
  /\ UNCHANGED minute

Next == Pass \/ \E m \in Minutes, depth \in Depths : Record(m, depth)

Spec == Init /\ [][Next]_<<minute, series>>
=============================================================================
