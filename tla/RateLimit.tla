----------------------------- MODULE RateLimit -----------------------------
(***************************************************************************)
(* RateLimitTracker: what the monitor knows of its GitHub budget, learnt   *)
(* from the headers of the answers that pass through it.                   *)
(*                                                                         *)
(* Instants are kept as the time left until them, 0 once they are past:    *)
(* the code only compares them with the clock and with each other, and an  *)
(* instant never set (IsZero) behaves like one that is past.               *)
(***************************************************************************)
EXTENDS Integers

CONSTANT Minute  \* the pause for a refusal that names no time

VARIABLES
  remaining,  \* status.Remaining
  resetIn,    \* status.ResetAt
  backoff     \* backoffUntil

tracker == <<remaining, resetIn, backoff>>

Later(a, b) == IF a > b THEN a ELSE b
Less(t) == IF t > 0 THEN t - 1 ELSE 0

(* An answer has a status, rate-limit headers or none, a Retry-After or    *)
(* none, and a body that reads, or not, like a refusal for a rate limit:   *)
(* one of the three texts retryAfter looks for.  A Retry-After of 0 stands *)
(* for any that is no positive number, such as a date.                     *)
NoRetryAfter == -1

TrackerInit == remaining = 0 /\ resetIn = 0 /\ backoff = 0

(* wait: how long a request that looks now has to wait. *)
WrongUntil ==
  IF backoff > 0 THEN backoff ELSE IF remaining <= 0 THEN resetIn ELSE 0
Until ==
  IF remaining <= 0 /\ resetIn > backoff THEN resetIn ELSE backoff

(* rateLimitedLocked: whether the tracker reports a limit, and until when. *)
WrongLimited == remaining <= 0 /\ resetIn > 0
Limited == backoff > 0 \/ (remaining <= 0 /\ resetIn > 0)
RetryIn == IF backoff > 0 THEN backoff ELSE resetIn

(* retryAfter: whether an answer asks for a pause, and for how long.       *)
(* ResetAt is the one the answer has just set.                             *)
AsksForPause(a) ==
  \/ a.status = 429 \/ a.retryAfter # NoRetryAfter
  \/ a.status = 403 /\ (a.text \/ (a.headers /\ a.remaining <= 0))

PauseTime(a, reset) ==
  IF a.retryAfter > 0 THEN a.retryAfter
  ELSE IF reset > 0 THEN reset ELSE Minute

Pause(a, reset) ==
  IF /\ a.status = 403 /\ a.retryAfter = NoRetryAfter
     /\ a.headers /\ a.remaining <= 0
  THEN reset ELSE PauseTime(a, reset)

(* The part of RoundTrip under the lock: the headers of an answer, which   *)
(* take the place of whatever another answer has said.                     *)
WrongApplyHeaders(a) ==
  LET reset == IF a.headers THEN a.resetIn ELSE resetIn
  IN /\ IF AsksForPause(a)
          THEN backoff' = Pause(a, reset) /\ UNCHANGED remaining
          ELSE /\ remaining' = (IF a.headers THEN a.remaining ELSE remaining)
               /\ UNCHANGED backoff
     /\ resetIn' = reset
ApplyHeaders(a) ==
  LET reset == IF a.headers THEN a.resetIn ELSE resetIn
  IN /\ remaining' = (IF a.headers THEN a.remaining ELSE remaining)
     /\ resetIn' = reset
     /\ backoff' = (IF AsksForPause(a) THEN Pause(a, reset) ELSE backoff)

Pass == remaining' = remaining /\ resetIn' = Less(resetIn) /\ backoff' = Less(backoff)
=============================================================================
