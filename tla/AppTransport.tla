---------------------------- MODULE AppTransport ----------------------------
(***************************************************************************)
(* The App client's transport: concurrent callers (the sweeps' workers,    *)
(* refreshes, cancellations) share one installation token behind a mutex   *)
(* and one rate-limit tracker, through which the token is minted as well.  *)
(* GitHub is external: a budget per window, refusals, tokens that expire.  *)
(*                                                                         *)
(* Times are what is left, as in RateLimit, and Tick passes one unit of    *)
(* all of them.  A request and its answer may be under way for any time;   *)
(* the callers' own steps take none, so Tick waits for those.              *)
(***************************************************************************)
EXTENDS RateLimit

CONSTANTS
  Callers,    \* requests that can be under way at the same time
  Quota,      \* requests GitHub grants in a window
  Window,     \* length of a window
  Margin,     \* what a cached token must have left: 2 minutes
  TokenLife,  \* validity of an installation token: an hour
  JwtLife,    \* validity of the App's JWT: 9 minutes
  Penalty     \* length of a secondary limit

ASSUME TransportAssumption ==
  /\ {Minute, Quota, Window, JwtLife, Penalty} \subseteq Nat \ {0}
  /\ Margin \in Nat /\ TokenLife \in Nat /\ TokenLife > Margin

VARIABLES
  left, windowIn, penalty,  \* GitHub: budget, time to its reset, secondary limit
  mutex,       \* appTransport.mu: the caller that holds it, at most one
  tokenIn,     \* time to expiresAt; 0 when there is no token
  pc,          \* where each caller is
  credential,  \* what its request carries: the time to its expiry and, as history,
               \*   what that was when the caller took it
  sleep,       \* time left of its wait
  answer,      \* the answer on its way to it, with the life of a new token
  slept,       \* history: the length of its last wait
  asked,       \* history: the longest pause an answer has named, what is left
  news,        \* history: callers asleep when an answer that named one came in
  shortened,   \* history: an answer has made the tracker's wait shorter
  newest,      \* history: the caller with GitHub's latest answer, unread
  informed     \* history: GitHub's latest answer is the one read last

github == <<left, windowIn, penalty>>
history == <<slept, asked, news, shortened, newest, informed>>
vars == <<tracker, github, mutex, tokenIn, pc, credential, sleep, answer, history>>

Budgets == 0..Quota
Times == 0..Later(Later(Window, Minute), Penalty)
Lives == 0..Later(TokenLife, JwtLife)
Credentials == [kind : {"none", "jwt", "cached", "minted"}, left : Lives, had : Lives]
NoCredential == [kind |-> "none", left |-> 0, had |-> 0]

Replies ==
  [status : {200, 401, 403, 429}, headers : BOOLEAN, remaining : Budgets,
   resetIn : Times, retryAfter : Times \cup {NoRetryAfter}, text : BOOLEAN, token : 0..TokenLife]

Headers(status, budget, retryAfter, text) ==
  [status |-> status, headers |-> TRUE, remaining |-> budget,
   resetIn |-> windowIn, retryAfter |-> retryAfter, text |-> text, token |-> 0]
Unauthorized ==
  [status |-> 401, headers |-> FALSE, remaining |-> 0,
   resetIn |-> 0, retryAfter |-> NoRetryAfter, text |-> FALSE, token |-> 0]

Init ==
  /\ TrackerInit
  /\ left = Quota /\ windowIn = Window /\ penalty = 0
  /\ mutex = {} /\ tokenIn = 0
  /\ pc = [r \in Callers |-> "idle"]
  /\ credential = [r \in Callers |-> NoCredential]
  /\ sleep = [r \in Callers |-> 0]
  /\ answer = [r \in Callers |-> Unauthorized]
  /\ slept = [r \in Callers |-> 0] /\ asked = 0 /\ news = {}
  /\ shortened = FALSE /\ newest = {} /\ informed = FALSE

Go(r, from, to) == pc[r] = from /\ pc' = [pc EXCEPT ![r] = to]
Carry(r, kind, life) ==
  credential' = [credential EXCEPT ![r] = [kind |-> kind, left |-> life, had |-> life]]

(* RoundTrip of the App client, and Lock in installationToken. *)
Start(r) ==
  /\ Go(r, "idle", "locking")
  /\ UNCHANGED <<tracker, github, mutex, tokenIn, credential, sleep, answer, history>>

WrongFresh == tokenIn > 0
Fresh == tokenIn > Margin

TakeToken(r) ==
  /\ mutex = {} /\ Fresh
  /\ Go(r, "locking", "looking") /\ Carry(r, "cached", tokenIn)
  /\ UNCHANGED <<tracker, github, mutex, tokenIn, sleep, answer, history>>

WrongSignJwt(r) ==
  /\ ~ Fresh
  /\ Go(r, "locking", "looking") /\ Carry(r, "jwt", JwtLife)
  /\ UNCHANGED <<tracker, github, mutex, tokenIn, sleep, answer, history>>
SignJwt(r) ==
  /\ mutex = {} /\ ~ Fresh
  /\ mutex' = {r}
  /\ Go(r, "locking", "looking") /\ Carry(r, "jwt", JwtLife)
  /\ UNCHANGED <<tracker, github, tokenIn, sleep, answer, history>>

(* wait: one look at the tracker, then a timer; nothing is looked at again *)
(* when it fires.                                                          *)
Send(r) ==
  /\ Until = 0 /\ Go(r, "looking", "sent")
  /\ slept' = [slept EXCEPT ![r] = 0]
  /\ UNCHANGED <<tracker, github, mutex, tokenIn, credential, sleep, answer,
                 asked, news, shortened, newest, informed>>

Sleep(r) ==
  /\ Until > 0 /\ Go(r, "looking", "asleep")
  /\ sleep' = [sleep EXCEPT ![r] = Until] /\ slept' = [slept EXCEPT ![r] = Until]
  /\ news' = news \ {r}
  /\ UNCHANGED <<tracker, github, mutex, tokenIn, credential, answer,
                 asked, shortened, newest, informed>>

Wake(r) ==
  /\ sleep[r] = 0 /\ Go(r, "asleep", "sent")
  /\ UNCHANGED <<tracker, github, mutex, tokenIn, credential, sleep, answer, history>>

(* An error on the way: a mint gives the mutex back. *)
Leave(r) ==
  /\ pc' = [pc EXCEPT ![r] = "idle"]
  /\ credential' = [credential EXCEPT ![r] = NoCredential]
  /\ sleep' = [sleep EXCEPT ![r] = 0] /\ slept' = [slept EXCEPT ![r] = 0]
  /\ answer' = [answer EXCEPT ![r] = Unauthorized]
  /\ newest' = newest \ {r} /\ news' = news \ {r}

WrongFail(r) == Leave(r) /\ UNCHANGED mutex
Fail(r) == Leave(r) /\ mutex' = mutex \ {r}

Cancel(r) ==
  /\ pc[r] = "asleep" /\ Fail(r)
  /\ UNCHANGED <<tracker, github, tokenIn, asked, shortened, informed>>

(* The connection fails or the context ends, before or after GitHub has    *)
(* dealt with the request.                                                 *)
Lose(r) ==
  /\ pc[r] \in {"sent", "answered"} /\ Fail(r)
  /\ UNCHANGED <<tracker, github, tokenIn, asked, shortened, informed>>

(* GitHub answers: a credential that has expired is refused as such; a     *)
(* valid one is served within the budget, refused without, or refused for  *)
(* a secondary limit, with a time, without, or with one that does not read.*)
Reply(r, a) ==
  /\ Go(r, "sent", "answered") /\ answer' = [answer EXCEPT ![r] = a]
  /\ UNCHANGED <<tracker, windowIn, mutex, tokenIn, credential, sleep,
                 slept, asked, news, shortened>>

Deny(r) ==
  /\ credential[r].left = 0
  /\ Reply(r, Unauthorized)
  /\ UNCHANGED <<left, penalty, newest, informed>>

Admit(r) ==
  credential[r].left > 0 /\ newest' = {r} /\ informed' = FALSE

Serve(r) ==
  /\ Admit(r) /\ penalty = 0 /\ left > 0
  /\ left' = left - 1
  /\ \E status \in {200, 403} :
       Reply(r, [Headers(status, left', NoRetryAfter, FALSE) EXCEPT !.token =
         IF credential[r].kind = "jwt" /\ status = 200 THEN TokenLife ELSE 0])
  /\ UNCHANGED penalty

RefuseSpent(r) ==
  /\ Admit(r) /\ penalty = 0 /\ left = 0
  /\ UNCHANGED <<left, penalty>>
  /\ \E status \in {403, 429} : Reply(r, Headers(status, left, NoRetryAfter, TRUE))

RefuseHasty(r) ==
  /\ Admit(r)
  /\ penalty' = (IF penalty = 0 THEN Penalty ELSE penalty) /\ UNCHANGED left
  /\ \E retryAfter \in {NoRetryAfter, 0, penalty'} : Reply(r, Headers(403, left, retryAfter, TRUE))

(* The pause an answer names, by Retry-After or by a spent budget. *)
Named(a) ==
  Later(a.retryAfter, IF a.headers /\ a.remaining <= 0 THEN a.resetIn ELSE 0)

Observe(r, a) ==
  /\ asked' = Later(asked, Named(a))
  /\ shortened' = ((shortened \/ Until' < Until) /\ asked' > 0)
  /\ news' = (IF Named(a) > 0 THEN Callers ELSE news)
  /\ newest' = newest \ {r}
  /\ informed' = (IF a.headers THEN newest = {r} ELSE informed)

(* An answer reaches its caller: its headers, and the token when it is the *)
(* answer to a mint, whose caller goes on with its own request.            *)
ReadToken(r) ==
  LET a == answer[r]
  IN /\ credential[r].kind = "jwt" /\ a.status = 200
     /\ ApplyHeaders(a) /\ Observe(r, a)
     /\ tokenIn' = a.token /\ mutex' = mutex \ {r}
     /\ Go(r, "answered", "looking") /\ Carry(r, "minted", a.token)
     /\ answer' = [answer EXCEPT ![r] = Unauthorized]
     /\ UNCHANGED <<github, sleep, slept>>

ReadAnswer(r) ==
  LET a == answer[r]
  IN /\ pc[r] = "answered" /\ ~ (credential[r].kind = "jwt" /\ a.status = 200)
     /\ ApplyHeaders(a) /\ Observe(r, a)
     /\ pc' = [pc EXCEPT ![r] = "idle"] /\ mutex' = mutex \ {r}
     /\ credential' = [credential EXCEPT ![r] = NoCredential]
     /\ slept' = [slept EXCEPT ![r] = 0]
     /\ answer' = [answer EXCEPT ![r] = Unauthorized]
     /\ UNCHANGED <<github, tokenIn, sleep>>

(* A unit of time passes once no caller has a step of its own to take. *)
Busy(r) ==
  \/ pc[r] = "looking"
  \/ pc[r] = "asleep" /\ sleep[r] = 0
  \/ pc[r] = "locking" /\ mutex = {}

Tick ==
  /\ \A r \in Callers : ~ Busy(r)
  /\ Pass
  /\ windowIn' = (IF windowIn > 1 THEN windowIn - 1 ELSE Window)
  /\ left' = (IF windowIn > 1 THEN left ELSE Quota)
  /\ penalty' = Less(penalty) /\ tokenIn' = Less(tokenIn)
  /\ credential' = [r \in Callers |->
       [credential[r] EXCEPT !.left = Less(credential[r].left)]]
  /\ sleep' = [r \in Callers |-> Less(sleep[r])]
  /\ answer' = [r \in Callers |->
       [answer[r] EXCEPT !.resetIn = Less(answer[r].resetIn), !.token = Less(answer[r].token)]]
  /\ asked' = Less(asked) /\ shortened' = (shortened /\ asked > 1)
  /\ newest' = (IF windowIn > 1 THEN newest ELSE {})
  /\ informed' = (informed /\ windowIn > 1)
  /\ UNCHANGED <<mutex, pc, slept, news>>

GitHubAnswers(r) == Deny(r) \/ Serve(r) \/ RefuseSpent(r) \/ RefuseHasty(r)
Enter(r) == TakeToken(r) \/ SignJwt(r)
Look(r) == Send(r) \/ Sleep(r)
Read(r) == ReadToken(r) \/ ReadAnswer(r)

Next ==
  \/ Tick
  \/ \E r \in Callers :
       \/ Start(r) \/ Enter(r) \/ Look(r) \/ Wake(r) \/ Cancel(r)
       \/ GitHubAnswers(r) \/ Lose(r) \/ Read(r)

Spec == Init /\ [][Next]_vars

(* The callers' own steps are taken, time passes, and a call to GitHub     *)
(* ends in an answer or an error: nothing in the code bounds it (the       *)
(* clients have no Timeout).  Go's mutex serves its waiters in turn once   *)
(* one of them has waited for a millisecond, hence the strong fairness.    *)
FairSpec ==
  /\ Spec /\ SF_vars(Tick)
  /\ \A r \in Callers :
       /\ SF_vars(Enter(r)) /\ WF_vars(Look(r)) /\ WF_vars(Wake(r))
       /\ WF_vars(GitHubAnswers(r)) /\ WF_vars(Read(r))
-----------------------------------------------------------------------------
TypeOK ==
  /\ remaining \in Budgets /\ {resetIn, backoff, asked} \subseteq Times
  /\ left \in Budgets /\ windowIn \in 1..Window /\ penalty \in 0..Penalty
  /\ mutex \subseteq Callers /\ tokenIn \in 0..TokenLife
  /\ pc \in [Callers -> {"idle", "locking", "looking", "asleep", "sent", "answered"}]
  /\ credential \in [Callers -> Credentials]
  /\ sleep \in [Callers -> Times] /\ slept \in [Callers -> Times]
  /\ answer \in [Callers -> Replies]
  /\ news \subseteq Callers /\ newest \subseteq Callers
  /\ shortened \in BOOLEAN /\ informed \in BOOLEAN

(* Whoever holds the mutex is minting a token because the one in the cache *)
(* is stale, at most one caller does, and callers without a credential are *)
(* those that have not had the mutex yet.                                  *)
OneMinter ==
  /\ mutex # {} => ~ Fresh
  /\ \A r \in Callers : r \in mutex <=> credential[r].kind = "jwt"
  /\ \A q, r \in mutex : q = r
  /\ \A r \in Callers :
       credential[r].kind = "none" <=> pc[r] \in {"idle", "locking"}

(* What the tracker answers the poller and the dashboard (RateLimited)     *)
(* agrees with what it does to a request (wait): a limit is reported       *)
(* exactly when a request would be held up, and never for longer than that.*)
ReportIsTrue == (Limited <=> Until > 0) /\ (Limited => RetryIn <= Until)

(* Whenever GitHub's latest answer is the one that was read last, no       *)
(* matter how many were read before it and what they said, the tracker     *)
(* knows the budget: refusals and failed requests count as well.           *)
KnowsTheBudget == informed => remaining = left /\ resetIn = windowIn

(* What the rest hangs on: the pauses named are waited for unless an       *)
(* answer has shortened the wait; a credential ages only while its caller  *)
(* waits, a token taken from the cache had more than the margin left then, *)
(* a JWT was new; GitHub's latest answer says what is left of the budget.  *)
Waited(r) == IF pc[r] = "asleep" THEN slept[r] - sleep[r] ELSE 0

Waits ==
  /\ ~ shortened => Until >= asked
  /\ \A r \in Callers :
       /\ pc[r] = "asleep" => slept[r] >= sleep[r] /\ slept[r] > 0
       /\ pc[r] = "asleep" /\ ~ shortened /\ r \notin news => sleep[r] >= asked
       /\ pc[r] \in {"looking", "asleep"} =>
            credential[r].left + Waited(r) >= credential[r].had
       /\ credential[r].kind = "cached" => credential[r].had > Margin
       /\ credential[r].kind = "jwt" => credential[r].had = JwtLife

LatestAnswers ==
  \A r \in newest :
    pc[r] = "answered" /\ answer[r].headers =>
      answer[r].remaining = left /\ answer[r].resetIn = windowIn

(* The inductive invariant. *)
TransportInv == TypeOK /\ OneMinter /\ KnowsTheBudget /\ LatestAnswers /\ Waits

Leaves(r) == pc[r] \in {"looking", "asleep"} /\ pc'[r] = "sent"

(* Nothing is sent within a pause that an answer has named, by Retry-After *)
(* or by a spent budget, but by a caller that was already asleep when that *)
(* answer came in (wait does not look again), or after another answer has  *)
(* made the wait shorter (RoundTrip overwrites what it knew).              *)
PauseIsKept ==
  [][\A r \in Callers :
       Leaves(r) /\ asked > 0 => shortened \/ (pc[r] = "asleep" /\ r \in news)]_vars

(* A token is minted only when the one in the cache has no more than the   *)
(* margin left, however many callers find it stale at the same time.       *)
MintsWhenStale ==
  [][\A r \in Callers :
       credential[r].kind = "jwt" /\ credential'[r].kind = "minted"
         => tokenIn <= Margin]_vars

(* A request leaves with an expired credential only after the tracker has  *)
(* made it wait for all the time that the credential had when it was taken:*)
(* more than the margin for a token from the cache, a JWT's whole life for *)
(* a mint.  A token just minted may have had little or nothing: its life   *)
(* runs while the answer that brings it is under way, and installationToken*)
(* hands it on without a look at expiresAt, so a caller whose mint was     *)
(* answered that late sends it expired with no wait at all.  newAppClient  *)
(* says of every request that it carries "a valid, auto-refreshed          *)
(* installation token"; this is what is left of that.                      *)
ExpiresOnlyAsleep ==
  [][\A r \in Callers :
       Leaves(r) /\ credential[r].left = 0 =>
         /\ Waited(r) >= credential[r].had
         /\ credential[r].kind = "cached" => pc[r] = "asleep" /\ slept[r] > Margin
         /\ credential[r].kind = "jwt" => pc[r] = "asleep" /\ slept[r] >= JwtLife]_vars

(* Every request ends, with an answer or an error: a mint that waits for   *)
(* the rate limit holds the others up, and none of them for ever.          *)
EveryRequestEnds == \A r \in Callers : pc[r] = "locking" ~> pc[r] = "idle"
=============================================================================
