------------------------- MODULE AppTransportProofs -------------------------
(***************************************************************************)
(* The invariant of AppTransport for any number of callers and any budget, *)
(* window, margin and lifetimes, and the action properties it gives.       *)
(***************************************************************************)
EXTENDS AppTransport, TLAPS

(* The greater of two numbers, and time running down to zero. *)
LEMMA LaterNat ==
  ASSUME NEW a \in Nat, NEW b \in Nat
  PROVE  Later(a, b) \in Nat /\ Later(a, b) >= a /\ Later(a, b) >= b
BY DEF Later

LEMMA LessUpTo ==
  ASSUME NEW n \in Nat, NEW t \in 0..n
  PROVE  Less(t) \in 0..n /\ (t > 0 => Less(t) = t - 1) /\ (t = 0 => Less(t) = 0)
BY DEF Less

(* The assumption on the constants, one at a time. *)
LEMMA Positive ==
  /\ Minute \in Nat /\ Minute > 0 /\ Quota \in Nat /\ Quota > 0
  /\ Window \in Nat /\ Window > 0 /\ JwtLife \in Nat /\ JwtLife > 0
  /\ Penalty \in Nat /\ Penalty > 0
  /\ Margin \in Nat /\ TokenLife \in Nat /\ TokenLife > Margin
BY TransportAssumption

(* The longest time there is, as one number. *)
LEMMA TimesUpTo ==
  \E n \in Nat : /\ Times = 0..n
                 /\ Window \in 1..n /\ Minute \in 1..n /\ Penalty \in 1..n
<1> DEFINE m == Later(Window, Minute)
           n == Later(m, Penalty)
<1>1. m \in Nat /\ m >= Window /\ m >= Minute
  BY LaterNat, TransportAssumption
<1>2. n \in Nat /\ n >= m /\ n >= Penalty
  <2> HIDE DEF m
  <2> QED BY <1>1, LaterNat, TransportAssumption
<1>3. Window \in 1..n /\ Minute \in 1..n /\ Penalty \in 1..n
  <2> HIDE DEF m, n
  <2> QED BY <1>1, <1>2, TransportAssumption
<1>4. Times = 0..n
  BY DEF Times
<1> QED BY <1>2, <1>3, <1>4

LEMMA LivesUpTo ==
  \E n \in Nat : Lives = 0..n /\ TokenLife \in 1..n /\ JwtLife \in 1..n
<1> DEFINE n == Later(TokenLife, JwtLife)
<1>1. n \in Nat /\ n >= TokenLife /\ n >= JwtLife
  BY LaterNat, TransportAssumption
<1>2. TokenLife \in 1..n /\ JwtLife \in 1..n
  <2> HIDE DEF n
  <2> QED BY <1>1, TransportAssumption
<1>3. Lives = 0..n
  BY DEF Lives
<1> QED BY <1>1, <1>2, <1>3

(* The headers of an answer leave the tracker with a budget and times. *)
LEMMA ApplyTyped ==
  ASSUME TypeOK, NEW r \in Callers, ApplyHeaders(answer[r])
  PROVE  remaining' \in Budgets /\ resetIn' \in Times /\ backoff' \in Times
<1> DEFINE a == answer[r]
           reset == IF a.headers THEN a.resetIn ELSE resetIn
<1>1. a \in Replies /\ reset \in Times
  BY DEF TypeOK, Replies
<1>2. Pause(a, reset) \in Times
  <2> HIDE DEF a, reset
  <2> QED BY <1>1, TimesUpTo DEF Pause, PauseTime, Replies, NoRetryAfter
<1>3. backoff' \in Times
  <2>1. backoff' = IF AsksForPause(a) THEN Pause(a, reset) ELSE backoff
    BY DEF ApplyHeaders
  <2> QED BY <1>2, <2>1 DEF TypeOK
<1>4. remaining' \in Budgets /\ resetIn' \in Times
  BY <1>1 DEF ApplyHeaders, Replies, TypeOK
<1> QED BY <1>3, <1>4

(* An answer remains one when a token is put in, and while time passes. *)
LEMMA TokenTyped ==
  ASSUME NEW a \in Replies, NEW k \in 0..TokenLife
  PROVE  [a EXCEPT !.token = k] \in Replies
BY DEF Replies

LEMMA ResetTyped ==
  ASSUME NEW a \in Replies, NEW t \in Times
  PROVE  [a EXCEPT !.resetIn = t] \in Replies
BY DEF Replies

LEMMA UnauthorizedTyped == Unauthorized \in Replies
BY TransportAssumption, TimesUpTo DEF Unauthorized, Replies, Budgets
-----------------------------------------------------------------------------
LEMMA TypeInit == Init => TypeOK
<1> SUFFICES ASSUME Init PROVE TypeOK
  OBVIOUS
<1>1. NoCredential \in Credentials
  BY LivesUpTo DEF NoCredential, Credentials
<1>2. 0 \in Times /\ 0 \in Budgets /\ Quota \in Budgets
      /\ 0 \in 0..Penalty /\ 0 \in 0..TokenLife /\ Window \in 1..Window
  BY TimesUpTo, Positive DEF Budgets
<1> QED BY <1>1, <1>2, UnauthorizedTyped DEF Init, TrackerInit, TypeOK

(* Every variable keeps its type. *)
LEMMA TypeStep == TypeOK /\ [Next]_vars => TypeOK'
<1> SUFFICES ASSUME TypeOK, [Next]_vars PROVE TypeOK'
  OBVIOUS
<1>0. 0 \in Times /\ NoCredential \in Credentials /\ Unauthorized \in Replies
  BY TimesUpTo, LivesUpTo, UnauthorizedTyped DEF NoCredential, Credentials
<1>1. ASSUME NEW r \in Callers, Start(r) PROVE TypeOK'
  BY <1>1 DEF Start, Go, TypeOK, tracker, github, history
<1>2. ASSUME NEW r \in Callers, Enter(r) PROVE TypeOK'
  <2>1. PICK kind \in {"cached", "jwt"}, life \in Lives : Carry(r, kind, life)
    BY <1>2, LivesUpTo, TransportAssumption
       DEF Enter, TakeToken, SignJwt, TypeOK
  <2>2. credential' \in [Callers -> Credentials]
    BY <2>1 DEF Carry, Credentials, TypeOK
  <2> QED BY <1>2, <2>2
          DEF Enter, TakeToken, SignJwt, Go, TypeOK, tracker, github, history
<1>3. ASSUME NEW r \in Callers, Look(r) PROVE TypeOK'
  <2>1. Until \in Times
    BY DEF Until, TypeOK
  <2> QED BY <1>0, <1>3, <2>1
          DEF Look, Send, Sleep, Go, TypeOK, tracker, github, history
<1>4. ASSUME NEW r \in Callers, Wake(r) PROVE TypeOK'
  BY <1>4 DEF Wake, Go, TypeOK, tracker, github, history
<1>5. ASSUME NEW r \in Callers, Cancel(r) \/ Lose(r) PROVE TypeOK'
  BY <1>0, <1>5 DEF Cancel, Lose, Fail, Leave, TypeOK, tracker, github
<1>6. ASSUME NEW r \in Callers, GitHubAnswers(r) PROVE TypeOK'
  <2>0. windowIn \in 1..Window /\ windowIn \in Times /\ 0 \in 0..TokenLife
    BY Positive, TimesUpTo DEF TypeOK
  <2>1. left' \in Budgets /\ penalty' \in 0..Penalty
    <3>1. Deny(r) \/ RefuseSpent(r) => left' = left /\ penalty' = penalty
      BY DEF Deny, RefuseSpent
    <3>2. Serve(r) => left > 0 /\ left' = left - 1 /\ penalty' = penalty
      BY DEF Serve
    <3>3. RefuseHasty(r) => left' = left /\ penalty' \in {penalty, Penalty}
      BY DEF RefuseHasty
    <3>4. left \in 0..Quota /\ penalty \in 0..Penalty
      BY DEF TypeOK, Budgets
    <3> QED BY <1>6, <3>1, <3>2, <3>3, <3>4, Positive DEF GitHubAnswers, Budgets
  <2>2. \E a \in Replies : Reply(r, a)
    <3>1. CASE Deny(r)
      BY <1>0, <3>1 DEF Deny
    <3>2. CASE Serve(r)
      <4>1. PICK s \in {200, 403} :
              Reply(r, [Headers(s, left', NoRetryAfter, FALSE) EXCEPT !.token =
                IF credential[r].kind = "jwt" /\ s = 200 THEN TokenLife ELSE 0])
        BY <3>2 DEF Serve
      <4> DEFINE k == IF credential[r].kind = "jwt" /\ s = 200 THEN TokenLife ELSE 0
      <4>2. k \in 0..TokenLife /\ windowIn \in 1..Window
        BY Positive DEF TypeOK
      <4>3. Headers(s, left', NoRetryAfter, FALSE) \in Replies
        BY <1>0, <2>0, <2>1 DEF Headers, Replies
      <4> HIDE DEF k
      <4>4. [Headers(s, left', NoRetryAfter, FALSE) EXCEPT !.token = k] \in Replies
        BY <4>2, <4>3, TokenTyped
      <4> QED BY <4>1, <4>4 DEF k
    <3>3. CASE RefuseSpent(r)
      <4>1. PICK s \in {403, 429} : Reply(r, Headers(s, left, NoRetryAfter, TRUE))
        BY <3>3 DEF RefuseSpent
      <4>2. Headers(s, left, NoRetryAfter, TRUE) \in Replies
        BY <1>0, <2>0 DEF Headers, Replies, TypeOK
      <4> QED BY <4>1, <4>2
    <3>4. CASE RefuseHasty(r)
      <4>1. PICK t \in {NoRetryAfter, 0, penalty'} : Reply(r, Headers(403, left, t, TRUE))
        BY <3>4 DEF RefuseHasty
      <4>2. t \in Times \cup {NoRetryAfter}
        BY <1>0, <2>1, TimesUpTo
      <4>3. Headers(403, left, t, TRUE) \in Replies
        BY <2>0, <4>2 DEF Headers, Replies, TypeOK
      <4> QED BY <4>1, <4>3
    <3> QED BY <1>6, <3>1, <3>2, <3>3, <3>4 DEF GitHubAnswers
  <2>3. newest' \subseteq Callers /\ informed' \in BOOLEAN
    BY <1>6 DEF GitHubAnswers, Deny, Serve, RefuseSpent, RefuseHasty, Admit, TypeOK
  <2> QED BY <2>1, <2>2, <2>3 DEF Reply, Go, TypeOK, tracker
<1>7. ASSUME NEW r \in Callers, Read(r) PROVE TypeOK'
  <2>1. ApplyHeaders(answer[r]) /\ Observe(r, answer[r])
    BY <1>7 DEF Read, ReadToken, ReadAnswer
  <2>2. remaining' \in Budgets /\ resetIn' \in Times /\ backoff' \in Times
    BY <2>1, ApplyTyped
  <2>3. Named(answer[r]) \in Times
    BY <1>0, TimesUpTo DEF Named, Later, TypeOK, Replies, NoRetryAfter
  <2>4. asked' \in Times /\ shortened' \in BOOLEAN /\ informed' \in BOOLEAN
        /\ news' \subseteq Callers /\ newest' \subseteq Callers
    BY <2>1, <2>3 DEF Observe, Later, TypeOK
  <2>5. answer[r].token \in 0..TokenLife /\ answer[r].token \in Lives
    BY LivesUpTo DEF TypeOK, Replies
  <2>6. credential' \in [Callers -> Credentials]
    BY <1>0, <1>7, <2>5 DEF Read, ReadToken, ReadAnswer, Carry, Credentials, TypeOK
  <2>7. answer' \in [Callers -> Replies]
    BY <1>0, <1>7 DEF Read, ReadToken, ReadAnswer, TypeOK
  <2> QED BY <1>0, <1>7, <2>2, <2>4, <2>5, <2>6, <2>7
          DEF Read, ReadToken, ReadAnswer, Go, github, TypeOK
<1>8. ASSUME Tick PROVE TypeOK'
  <2>1. \A t \in Times : Less(t) \in Times
    BY TimesUpTo, LessUpTo
  <2>2. \A r \in Callers : credential'[r] \in Credentials
    BY <1>8, LivesUpTo, LessUpTo DEF Tick, Credentials, TypeOK
  <2>3. \A r \in Callers : answer'[r] \in Replies
    <3> SUFFICES ASSUME NEW r \in Callers PROVE answer'[r] \in Replies
      OBVIOUS
    <3>1. Less(answer[r].resetIn) \in Times
      BY <2>1 DEF TypeOK, Replies
    <3>2. Less(answer[r].token) \in 0..TokenLife
      BY LessUpTo, TransportAssumption DEF TypeOK, Replies
    <3>3. answer'[r] = [[answer[r] EXCEPT !.resetIn = Less(answer[r].resetIn)]
                          EXCEPT !.token = Less(answer[r].token)]
      BY <1>8 DEF Tick
    <3>4. answer[r] \in Replies
      BY DEF TypeOK
    <3>5. [answer[r] EXCEPT !.resetIn = Less(answer[r].resetIn)] \in Replies
      BY <3>1, <3>4, ResetTyped
    <3> QED BY <3>2, <3>3, <3>5, TokenTyped
  <2>4. windowIn' \in 1..Window /\ left' \in Budgets
    <3>1. windowIn \in 1..Window /\ left \in 0..Quota
      BY DEF TypeOK, Budgets
    <3>2. /\ windowIn' = (IF windowIn > 1 THEN windowIn - 1 ELSE Window)
          /\ left' = (IF windowIn > 1 THEN left ELSE Quota)
      BY <1>8 DEF Tick
    <3> QED BY <3>1, <3>2, Positive DEF Budgets
  <2>5. penalty' \in 0..Penalty /\ tokenIn' \in 0..TokenLife
    BY <1>8, LessUpTo, TransportAssumption DEF Tick, TypeOK
  <2>6. /\ credential' = [r \in Callers |-> credential'[r]]
        /\ answer' = [r \in Callers |-> answer'[r]]
    BY <1>8 DEF Tick
  <2>7. credential' \in [Callers -> Credentials] /\ answer' \in [Callers -> Replies]
    BY <2>2, <2>3, <2>6
  <2>8. remaining' \in Budgets /\ {resetIn', backoff', asked'} \subseteq Times
    BY <1>8, <2>1 DEF Tick, Pass, TypeOK
  <2>9. sleep' \in [Callers -> Times] /\ newest' \subseteq Callers
        /\ shortened' \in BOOLEAN /\ informed' \in BOOLEAN
    BY <1>8, <2>1 DEF Tick, TypeOK
  <2> QED BY <1>8, <2>4, <2>5, <2>7, <2>8, <2>9 DEF Tick, TypeOK
<1>9. CASE UNCHANGED vars
  BY <1>9 DEF vars, tracker, github, history, TypeOK, Budgets, Times, Lives,
              Credentials, Replies
<1> QED BY <1>1, <1>2, <1>3, <1>4, <1>5, <1>6, <1>7, <1>8, <1>9 DEF Next
-----------------------------------------------------------------------------
(* Whatever GitHub answers, it is an answer with the budget as it is. *)
LEMMA RepliesOfGitHub ==
  ASSUME NEW r \in Callers, GitHubAnswers(r)
  PROVE  \/ Deny(r)
         \/ newest' = {r} /\ informed' = FALSE /\ \E a : Reply(r, a)
             /\ a.remaining = left' /\ a.resetIn = windowIn
<1>1. CASE Serve(r)
  <2>1. PICK s \in {200, 403} :
          Reply(r, [Headers(s, left', NoRetryAfter, FALSE) EXCEPT !.token =
            IF credential[r].kind = "jwt" /\ s = 200 THEN TokenLife ELSE 0])
    BY <1>1 DEF Serve
  <2> DEFINE k == IF credential[r].kind = "jwt" /\ s = 200 THEN TokenLife ELSE 0
             a == [Headers(s, left', NoRetryAfter, FALSE) EXCEPT !.token = k]
  <2>2. a.remaining = left' /\ a.resetIn = windowIn
    <3> HIDE DEF k
    <3> QED BY DEF Headers
  <2>3. Reply(r, a)
    BY <2>1
  <2>4. newest' = {r} /\ informed' = FALSE
    BY <1>1 DEF Serve, Admit
  <2> HIDE DEF a
  <2> QED BY <2>2, <2>3, <2>4
<1>2. CASE RefuseSpent(r) \/ RefuseHasty(r)
  <2>1. left' = left /\ newest' = {r} /\ informed' = FALSE
    BY <1>2 DEF RefuseSpent, RefuseHasty, Admit
  <2>2. PICK s, t : Reply(r, Headers(s, left, t, TRUE))
    <3>1. CASE RefuseSpent(r)
      BY <3>1 DEF RefuseSpent
    <3>2. CASE RefuseHasty(r)
      BY <3>2 DEF RefuseHasty
    <3> QED BY <1>2, <3>1, <3>2
  <2> DEFINE a == Headers(s, left, t, TRUE)
  <2>3. a.remaining = left' /\ a.resetIn = windowIn
    BY <2>1 DEF Headers
  <2> HIDE DEF a
  <2> QED BY <2>1, <2>2, <2>3 DEF a
<1> QED BY <1>1, <1>2 DEF GitHubAnswers

(* The mutex, its holder and the credentials, and the age of the cache. *)
LEMMA MinterStep == TypeOK /\ OneMinter /\ [Next]_vars => OneMinter'
<1> SUFFICES ASSUME TypeOK, OneMinter, [Next]_vars PROVE OneMinter'
  OBVIOUS
<1>1. ASSUME NEW r \in Callers, Start(r) PROVE OneMinter'
  BY <1>1 DEF Start, Go, OneMinter, Fresh, TypeOK
<1>2. ASSUME NEW r \in Callers, TakeToken(r) PROVE OneMinter'
  BY <1>2 DEF TakeToken, Go, Carry, OneMinter, Fresh, TypeOK
<1>3. ASSUME NEW r \in Callers, SignJwt(r) PROVE OneMinter'
  BY <1>3 DEF SignJwt, Go, Carry, OneMinter, Fresh, TypeOK
<1>4. ASSUME NEW r \in Callers, Look(r) \/ Wake(r) PROVE OneMinter'
  BY <1>4 DEF Look, Send, Sleep, Wake, Go, OneMinter, Fresh, TypeOK
<1>5. ASSUME NEW r \in Callers, Cancel(r) \/ Lose(r) PROVE OneMinter'
  BY <1>5 DEF Cancel, Lose, Fail, Leave, NoCredential, OneMinter, Fresh, TypeOK
<1>6. ASSUME NEW r \in Callers, GitHubAnswers(r) PROVE OneMinter'
  <2>1. \E a : Reply(r, a)
    BY <1>6, RepliesOfGitHub DEF Deny
  <2> QED BY <2>1 DEF Reply, Go, OneMinter, Fresh, TypeOK
<1>7. ASSUME NEW r \in Callers, ReadToken(r) PROVE OneMinter'
  BY <1>7 DEF ReadToken, Go, Carry, OneMinter, Fresh, TypeOK
<1>8. ASSUME NEW r \in Callers, ReadAnswer(r) PROVE OneMinter'
  BY <1>8 DEF ReadAnswer, NoCredential, OneMinter, Fresh, TypeOK
<1>9. ASSUME Tick PROVE OneMinter'
  <2>1. ~ Fresh => ~ Fresh'
    <3>1. tokenIn' = Less(tokenIn)
      BY <1>9 DEF Tick
    <3>2. tokenIn \in 0..TokenLife
      BY DEF TypeOK
    <3> QED BY <3>1, <3>2, Positive DEF Less, Fresh
  <2>2. \A r \in Callers : credential'[r].kind = credential[r].kind
    BY <1>9 DEF Tick, TypeOK, Credentials
  <2> QED BY <1>9, <2>1, <2>2 DEF Tick, OneMinter
<1>10. CASE UNCHANGED vars
  BY <1>10 DEF vars, OneMinter, Fresh
<1> QED BY <1>1, <1>2, <1>3, <1>4, <1>5, <1>6, <1>7, <1>8, <1>9, <1>10
        DEF Next, Enter, Read

(* What the tracker and the answers under way know of the budget. *)
BudgetInv == KnowsTheBudget /\ LatestAnswers

LEMMA BudgetStep == TypeOK /\ BudgetInv /\ [Next]_vars => BudgetInv'
<1> SUFFICES ASSUME TypeOK, BudgetInv, [Next]_vars PROVE BudgetInv'
  OBVIOUS
<1> USE DEF BudgetInv, KnowsTheBudget, LatestAnswers
<1>1. ASSUME NEW r \in Callers, Start(r) \/ Enter(r) \/ Look(r) PROVE BudgetInv'
  BY <1>1 DEF Start, Enter, TakeToken, SignJwt, Look, Send, Sleep, Go,
              TypeOK, tracker, github, history
<1>2. ASSUME NEW r \in Callers, Wake(r) PROVE BudgetInv'
  BY <1>2 DEF Wake, Go, TypeOK, tracker, github, history
<1>3. ASSUME NEW r \in Callers, Cancel(r) \/ Lose(r) PROVE BudgetInv'
  BY <1>3 DEF Cancel, Lose, Fail, Leave, TypeOK, tracker, github
<1>4. ASSUME NEW r \in Callers, Deny(r) PROVE BudgetInv'
  BY <1>4 DEF Deny, Reply, Go, Unauthorized, TypeOK, tracker
<1>5. ASSUME NEW r \in Callers, GitHubAnswers(r), ~ Deny(r) PROVE BudgetInv'
  <2>1. PICK a : Reply(r, a) /\ a.remaining = left' /\ a.resetIn = windowIn
    BY <1>5, RepliesOfGitHub
  <2>2. newest' = {r} /\ informed' = FALSE
    BY <1>5, RepliesOfGitHub
  <2>3. answer'[r] = a /\ windowIn' = windowIn
    BY <2>1 DEF Reply, TypeOK
  <2> QED BY <2>1, <2>2, <2>3
<1>7. ASSUME NEW r \in Callers, Read(r) PROVE BudgetInv'
  <2>1. /\ ApplyHeaders(answer[r]) /\ Observe(r, answer[r])
        /\ pc[r] = "answered" /\ UNCHANGED github
        /\ answer' = [answer EXCEPT ![r] = Unauthorized]
        /\ \A q \in Callers \ {r} : pc'[q] = pc[q]
    BY <1>7 DEF Read, ReadToken, ReadAnswer, Go, TypeOK
  <2>2. KnowsTheBudget'
    BY <2>1 DEF ApplyHeaders, Observe, github, TypeOK
  <2>3. LatestAnswers'
    BY <2>1 DEF Observe, github, TypeOK
  <2> QED BY <2>2, <2>3
<1>8. ASSUME Tick PROVE BudgetInv'
  <2>1. CASE windowIn > 1
    <3>1. windowIn' = windowIn - 1 /\ left' = left /\ newest' = newest
      BY <1>8, <2>1 DEF Tick
    <3>2. remaining' = remaining /\ resetIn' = Less(resetIn) /\ pc' = pc
      BY <1>8 DEF Tick, Pass
    <3>3. informed' => informed
      BY <1>8 DEF Tick
    <3>4. ASSUME NEW r \in Callers
          PROVE  /\ answer'[r].resetIn = Less(answer[r].resetIn)
                 /\ answer'[r].remaining = answer[r].remaining
                 /\ answer'[r].headers = answer[r].headers
      <4>1. answer'[r] = [answer[r] EXCEPT !.resetIn = Less(answer[r].resetIn),
                                           !.token = Less(answer[r].token)]
        BY <1>8 DEF Tick
      <4>2. answer[r] \in Replies
        BY DEF TypeOK
      <4> HIDE DEF LatestAnswers, KnowsTheBudget, BudgetInv
      <4> QED BY <4>1, <4>2 DEF Replies
    <3> QED BY <2>1, <3>1, <3>2, <3>3, <3>4 DEF Less, TypeOK
  <2>2. CASE ~ (windowIn > 1)
    BY <1>8, <2>2 DEF Tick
  <2> QED BY <2>1, <2>2
<1>9. CASE UNCHANGED vars
  BY <1>9 DEF vars, tracker, github, history
<1> QED BY <1>1, <1>2, <1>3, <1>4, <1>5, <1>7, <1>8, <1>9 DEF Next

(* The pauses named, and the credentials of those that wait: every step    *)
(* but the tracker's own and the passing of time leaves the wait alone.    *)
WaitOf(r) ==
  /\ pc[r] = "asleep" => slept[r] >= sleep[r] /\ slept[r] > 0
  /\ pc[r] = "asleep" /\ ~ shortened /\ r \notin news => sleep[r] >= asked
  /\ pc[r] \in {"looking", "asleep"} => credential[r].left + Waited(r) >= credential[r].had
  /\ credential[r].kind = "cached" => credential[r].had > Margin
  /\ credential[r].kind = "jwt" => credential[r].had = JwtLife

LEMMA WaitsAre == Waits <=> (~ shortened => Until >= asked) /\ \A r \in Callers : WaitOf(r)
BY DEF Waits, WaitOf

(* A caller that a step of another one does not touch waits as before. *)
LEMMA WaitKept ==
  ASSUME NEW r \in Callers, WaitOf(r), UNCHANGED <<pc[r], slept[r], sleep[r], credential[r]>>,
         UNCHANGED <<shortened, asked>>, r \in news => r \in news'
  PROVE  WaitOf(r)'
BY DEF WaitOf, Waited

(* A caller that is neither looking nor asleep has nothing to wait for. *)
LEMMA NoWait ==
  ASSUME NEW r \in Callers, WaitOf(r), pc'[r] \notin {"looking", "asleep"},
         credential'[r] \in {credential[r], NoCredential}
  PROVE  WaitOf(r)'
BY DEF WaitOf, NoCredential

LEMMA WaitsStep == TypeOK /\ Waits /\ [Next]_vars => Waits'
<1> SUFFICES ASSUME TypeOK, Waits, [Next]_vars PROVE Waits'
  OBVIOUS
<1>1. (~ shortened => Until >= asked) /\ \A r \in Callers : WaitOf(r)
  BY WaitsAre
<1>2. ASSUME UNCHANGED <<tracker, shortened, asked>>, \A r \in Callers : WaitOf(r)'
      PROVE  Waits'
  BY <1>1, <1>2 DEF Waits, WaitOf, Until, tracker
<1>3. ASSUME NEW r \in Callers, Start(r) \/ Wake(r) PROVE Waits'
  <2>1. \A q \in Callers : q # r => WaitOf(q)'
    BY <1>1, <1>3, WaitKept DEF Start, Wake, Go, history, TypeOK
  <2>2. WaitOf(r)'
    BY <1>1, <1>3, NoWait DEF Start, Wake, Go, TypeOK
  <2> QED BY <1>2, <1>3, <2>1, <2>2 DEF Start, Wake, history
<1>4. ASSUME NEW r \in Callers, Enter(r) PROVE Waits'
  <2>1. \A q \in Callers : q # r => WaitOf(q)'
    BY <1>1, <1>4, WaitKept DEF Enter, TakeToken, SignJwt, Carry, Go, history, TypeOK
  <2>2. WaitOf(r)'
    BY <1>4, Positive
       DEF Enter, TakeToken, SignJwt, Carry, Go, WaitOf, Waited, Fresh, TypeOK
  <2> QED BY <1>2, <1>4, <2>1, <2>2 DEF Enter, TakeToken, SignJwt, history
<1>5. ASSUME NEW r \in Callers, Send(r) PROVE Waits'
  <2>1. \A q \in Callers : q # r => WaitOf(q)'
    BY <1>1, <1>5, WaitKept DEF Send, Go, TypeOK
  <2>2. WaitOf(r)'
    BY <1>1, <1>5, NoWait DEF Send, Go, TypeOK
  <2> QED BY <1>2, <1>5, <2>1, <2>2 DEF Send
<1>6. ASSUME NEW r \in Callers, Sleep(r) PROVE Waits'
  <2>1. \A q \in Callers : q # r => WaitOf(q)'
    BY <1>1, <1>6, WaitKept DEF Sleep, Go, TypeOK
  <2>2. Until > 0 /\ Until \in Nat
    BY <1>6, TimesUpTo DEF Sleep, Until, TypeOK
  <2>3. WaitOf(r)'
    <3>1. pc[r] = "looking" /\ pc'[r] = "asleep" /\ sleep'[r] = Until /\ slept'[r] = Until
          /\ UNCHANGED <<credential, shortened, asked>>
      BY <1>6 DEF Sleep, Go, TypeOK
    <3>2. Waited(r) = 0 /\ Waited(r)' = 0
      BY <2>2, <3>1 DEF Waited
    <3> QED BY <1>1, <2>2, <3>1, <3>2 DEF WaitOf
  <2> QED BY <1>2, <1>6, <2>1, <2>3 DEF Sleep
<1>7. ASSUME NEW r \in Callers, Cancel(r) \/ Lose(r) PROVE Waits'
  <2>1. \A q \in Callers : q # r => WaitOf(q)'
    <3> SUFFICES ASSUME NEW q \in Callers, q # r PROVE WaitOf(q)'
      OBVIOUS
    <3>1. /\ UNCHANGED <<pc[q], slept[q], sleep[q], credential[q], shortened, asked>>
          /\ q \in news => q \in news'
      BY <1>7 DEF Cancel, Lose, Fail, Leave, TypeOK
    <3> QED BY <1>1, <3>1, WaitKept
  <2>2. WaitOf(r)'
    BY <1>1, <1>7, NoWait DEF Cancel, Lose, Fail, Leave, TypeOK
  <2> QED BY <1>2, <1>7, <2>1, <2>2 DEF Cancel, Lose
<1>8. ASSUME NEW r \in Callers, GitHubAnswers(r) PROVE Waits'
  <2>1. PICK a : Reply(r, a)
    BY <1>8, RepliesOfGitHub DEF Deny
  <2>2. \A q \in Callers : q # r => WaitOf(q)'
    BY <1>1, <2>1, WaitKept DEF Reply, Go, TypeOK
  <2>3. WaitOf(r)'
    BY <1>1, <2>1, NoWait DEF Reply, Go, TypeOK
  <2> QED BY <1>2, <2>1, <2>2, <2>3 DEF Reply
<1>9. ASSUME NEW r \in Callers, Read(r) PROVE Waits'
  <2> DEFINE a == answer[r]
  <2>1. /\ ApplyHeaders(a) /\ Observe(r, a) /\ UNCHANGED sleep
        /\ \A q \in Callers : q # r => UNCHANGED <<pc[q], slept[q], credential[q]>>
    BY <1>9 DEF Read, ReadToken, ReadAnswer, Go, Carry, TypeOK
  <2>2. a \in Replies /\ \A t \in Times : t \in Nat
    BY TimesUpTo DEF TypeOK
  <2>3. Named(a) \in Nat /\ Until \in Nat /\ Until' \in Nat /\ asked \in Nat
    <3>1. remaining' \in Budgets /\ resetIn' \in Times /\ backoff' \in Times
      BY <2>1, ApplyTyped
    <3> QED BY <2>2, <3>1 DEF Named, Later, Until, Replies, NoRetryAfter, TypeOK
  <2>4. Until' >= Named(a)
    <3>1. a.retryAfter > 0 => backoff' = a.retryAfter
      BY <2>1 DEF ApplyHeaders, AsksForPause, Pause, PauseTime, NoRetryAfter
    <3>2. a.headers /\ a.remaining <= 0 => remaining' <= 0 /\ resetIn' = a.resetIn
      BY <2>1 DEF ApplyHeaders
    <3> QED BY <2>2, <2>3, <3>1, <3>2 DEF Named, Later, Until, Replies, NoRetryAfter
  <2>5. /\ asked' = Later(asked, Named(a))
        /\ shortened' = ((shortened \/ Until' < Until) /\ asked' > 0)
    BY <2>1 DEF Observe
  <2>6. asked' \in Nat
    BY <2>3, <2>5, LaterNat
  <2>7. ~ shortened' => Until' >= asked'
    <3>1. CASE asked' = 0
      BY <2>3, <3>1
    <3>2. CASE ~ shortened /\ Until' >= Until
      <4>1. Until >= asked
        BY <1>1, <3>2
      <4> HIDE DEF a
      <4> QED BY <2>3, <2>4, <2>5, <3>2, <4>1 DEF Later
    <3>3. ~ shortened' => ~ (asked' > 0) \/ (~ shortened /\ ~ (Until' < Until))
      BY <2>5
    <3>4. (~ (asked' > 0) => asked' = 0) /\ (~ (Until' < Until) => Until' >= Until)
      <4> HIDE DEF a
      <4> QED BY <2>3, <2>6
    <3> QED BY <3>1, <3>2, <3>3, <3>4
  <2>8. ASSUME NEW q \in Callers, q # r PROVE WaitOf(q)'
    <3>1. UNCHANGED <<pc[q], slept[q], credential[q]>>
      BY <2>1, <2>8
    <3>0. UNCHANGED sleep[q]
      BY <2>1
    <3>2. Waited(q)' = Waited(q)
      BY <3>0, <3>1 DEF Waited
    <3>3. ASSUME ~ shortened', q \notin news', pc[q] = "asleep" PROVE sleep[q] >= asked'
      <4>1. Named(a) = 0 /\ news' = news
        BY <2>1, <2>3, <3>3 DEF Observe
      <4>2. asked' = asked
        BY <2>3, <2>5, <4>1 DEF Later
      <4>3. sleep[q] \in Nat
        BY <2>2 DEF TypeOK
      <4>4. CASE asked' = 0
        BY <4>3, <4>4
      <4>5. CASE asked' > 0
        <5>1. ~ shortened
          BY <2>5, <3>3, <4>5
        <5> QED BY <1>1, <3>3, <4>1, <4>2, <5>1 DEF WaitOf
      <4> QED BY <2>6, <4>4, <4>5
    <3> QED BY <1>1, <3>0, <3>1, <3>2, <3>3 DEF WaitOf
  <2>9. WaitOf(r)'
    <3>1. CASE pc'[r] = "idle" /\ credential'[r] = NoCredential
      BY <1>1, <3>1, NoWait
    <3>2. CASE /\ pc'[r] = "looking"
               /\ credential'[r] = [kind |-> "minted", left |-> a.token, had |-> a.token]
      <4>1. a.token \in Nat /\ Waited(r)' = 0
        BY <2>2, <3>2, Positive DEF Replies, Waited
      <4> HIDE DEF a
      <4> QED BY <3>2, <4>1 DEF WaitOf
    <3> QED BY <1>9, <3>1, <3>2 DEF Read, ReadToken, ReadAnswer, Go, Carry, TypeOK
  <2> QED BY <2>7, <2>8, <2>9 DEF Waits, WaitOf
<1>10. ASSUME Tick PROVE Waits'
  <2>1. \A t \in Times : t \in Nat
    BY TimesUpTo
  <2>2. remaining' = remaining /\ resetIn' = Less(resetIn) /\ backoff' = Less(backoff)
    BY <1>10 DEF Tick, Pass
  <2>3. asked' = Less(asked) /\ shortened' = (shortened /\ asked > 1)
        /\ UNCHANGED <<pc, slept, news>>
    BY <1>10 DEF Tick
  <2>4. {resetIn, backoff, asked} \subseteq Nat /\ shortened \in BOOLEAN
    BY <2>1 DEF TypeOK
  <2>5. ~ shortened' => Until' >= asked'
    <3>1. remaining \in Int
      BY DEF TypeOK, Budgets
    <3>2. CASE ~ shortened
      BY <1>1, <2>2, <2>3, <2>4, <3>1, <3>2 DEF Until, Less
    <3>3. CASE asked <= 1
      BY <2>2, <2>3, <2>4, <3>1, <3>3 DEF Until, Less
    <3> QED BY <2>3, <2>4, <3>2, <3>3
  <2>6. ASSUME NEW q \in Callers PROVE WaitOf(q)'
    <3>1. CASE pc[q] = "looking"
      BY <1>10, <3>1 DEF Tick, Busy
    <3>2. CASE pc[q] = "asleep"
      <4>1. sleep[q] \in Nat /\ slept[q] \in Nat /\ sleep[q] # 0
        BY <1>10, <2>1, <3>2 DEF Tick, Busy, TypeOK
      <4>2. sleep'[q] = sleep[q] - 1
        <5>1. sleep'[q] = Less(sleep[q])
          BY <1>10 DEF Tick
        <5> QED BY <4>1, <5>1 DEF Less
      <4>3. Waited(q)' = Waited(q) + 1
        BY <2>3, <3>2, <4>1, <4>2 DEF Waited
      <4>4. credential[q].left \in Nat /\ Waited(q) \in Nat
        <5>1. credential[q] \in Credentials
          BY DEF TypeOK
        <5>2. slept[q] >= sleep[q]
          BY <1>1, <3>2 DEF WaitOf
        <5> QED BY <3>2, <4>1, <5>1, <5>2, LivesUpTo DEF Credentials, Waited
      <4>5. /\ credential'[q].kind = credential[q].kind
            /\ credential'[q].had = credential[q].had
            /\ credential'[q].left = Less(credential[q].left)
        BY <1>10 DEF Tick, TypeOK, Credentials
      <4>6. credential'[q].left + Waited(q)' >= credential[q].left + Waited(q)
        BY <4>3, <4>4, <4>5 DEF Less
      <4>7. credential'[q].left + Waited(q)' \in Nat
        BY <4>3, <4>4, <4>5 DEF Less
      <4>8. slept'[q] >= sleep'[q] /\ slept'[q] > 0
        BY <1>1, <2>3, <3>2, <4>1, <4>2 DEF WaitOf
      <4>9. ~ shortened' /\ q \notin news' => sleep'[q] >= asked'
        <5>1. CASE ~ shortened
          BY <1>1, <2>3, <2>4, <3>2, <4>1, <4>2, <5>1 DEF WaitOf, Less
        <5>2. CASE asked <= 1
          BY <2>3, <2>4, <4>1, <4>2, <5>2 DEF Less
        <5> QED BY <2>3, <2>4, <5>1, <5>2
      <4>10. pc'[q] = "asleep"
        BY <2>3, <3>2
      <4>11. credential'[q].left + Waited(q)' >= credential'[q].had
        <5>1. credential[q].left + Waited(q) >= credential[q].had
          BY <1>1, <3>2 DEF WaitOf
        <5>2. credential[q].left + Waited(q) \in Nat /\ credential[q].had \in Nat
          BY <4>4, LivesUpTo DEF Credentials, TypeOK
        <5> QED BY <4>5, <4>6, <4>7, <5>1, <5>2
      <4>12. /\ credential'[q].kind = "cached" => credential'[q].had > Margin
             /\ credential'[q].kind = "jwt" => credential'[q].had = JwtLife
        BY <1>1, <4>5 DEF WaitOf
      <4> QED BY <4>8, <4>9, <4>10, <4>11, <4>12 DEF WaitOf
    <3>3. CASE pc[q] \notin {"looking", "asleep"}
      <4>1. /\ credential'[q].kind = credential[q].kind
            /\ credential'[q].had = credential[q].had
        BY <1>10 DEF Tick, TypeOK, Credentials
      <4> QED BY <1>1, <2>3, <3>3, <4>1 DEF WaitOf
    <3> QED BY <3>1, <3>2, <3>3
  <2> QED BY <2>5, <2>6 DEF Waits, WaitOf
<1>11. CASE UNCHANGED vars
  BY <1>11 DEF vars, tracker, history, Waits, Waited, Until
<1> QED BY <1>3, <1>4, <1>5, <1>6, <1>7, <1>8, <1>9, <1>10, <1>11
        DEF Next, Look
-----------------------------------------------------------------------------
(* The inductive invariant: the mutex, the budget known at rest, and what  *)
(* the waiting callers carry and have been told, for any number of callers.*)
THEOREM TransportInvariance == Spec => []TransportInv
<1>1. Init => TransportInv
  <2> SUFFICES ASSUME Init PROVE TransportInv
    OBVIOUS
  <2>1. TypeOK
    BY TypeInit
  <2>2. OneMinter /\ KnowsTheBudget /\ LatestAnswers
    BY DEF Init, OneMinter, KnowsTheBudget, LatestAnswers, NoCredential
  <2>3. Waits
    BY DEF Init, TrackerInit, Waits, Until, NoCredential
  <2> QED BY <2>1, <2>2, <2>3 DEF TransportInv
<1>2. TransportInv /\ [Next]_vars => TransportInv'
  BY TypeStep, MinterStep, BudgetStep, WaitsStep DEF TransportInv, BudgetInv
<1> QED BY <1>1, <1>2, PTL DEF Spec

(* RateLimited and wait, two functions of the tracker's three fields, agree*)
(* whatever the fields hold.                                               *)
THEOREM ReportAgrees == Spec => []ReportIsTrue
<1>1. TypeOK => ReportIsTrue
  <2> SUFFICES ASSUME TypeOK PROVE ReportIsTrue
    OBVIOUS
  <2>1. remaining \in Int /\ resetIn \in Nat /\ backoff \in Nat
    BY TimesUpTo DEF TypeOK, Budgets
  <2> QED BY <2>1 DEF ReportIsTrue, Limited, Until, RetryIn
<1> QED BY <1>1, TransportInvariance, PTL DEF TransportInv

(* The tracker knows the budget when the latest answer was read last. *)
THEOREM BudgetIsKnown == Spec => []KnowsTheBudget
BY TransportInvariance, PTL DEF TransportInv

(* What a request that leaves does: it has looked and not waited, or slept *)
(* to the end.                                                             *)
LEMMA Departure ==
  ASSUME TypeOK, [Next]_vars, NEW r \in Callers, Leaves(r)
  PROVE  Send(r) \/ Wake(r)
<1>1. ASSUME NEW q \in Callers,
             \/ Start(q) \/ Enter(q) \/ Sleep(q) \/ Cancel(q) \/ Lose(q) \/ Read(q)
             \/ \E a : Reply(q, a)
      PROVE  FALSE
  BY <1>1 DEF Leaves, Start, Enter, TakeToken, SignJwt, Sleep, Cancel, Lose, Fail, Leave,
              Read, ReadToken, ReadAnswer, Reply, Go, TypeOK
<1>2. ASSUME NEW q \in Callers, GitHubAnswers(q) PROVE \E a : Reply(q, a)
  BY <1>2, RepliesOfGitHub DEF Deny
<1>3. ~ Tick /\ ~ UNCHANGED vars
  BY DEF Tick, vars, Leaves
<1>4. PICK q \in Callers : Send(q) \/ Wake(q)
  BY <1>1, <1>2, <1>3 DEF Next, Look
<1> QED BY <1>4 DEF Send, Wake, Go, Leaves, TypeOK

(* A pause GitHub has named is kept by all but those already asleep, unless*)
(* another answer has shortened it.                                        *)
THEOREM PausesAreKept == Spec => PauseIsKept
<1>1. TransportInv /\ [Next]_vars =>
        [\A r \in Callers :
           Leaves(r) /\ asked > 0 => shortened \/ (pc[r] = "asleep" /\ r \in news)]_vars
  <2> SUFFICES ASSUME TransportInv, [Next]_vars, NEW r \in Callers, Leaves(r), asked > 0
               PROVE  shortened \/ (pc[r] = "asleep" /\ r \in news)
    OBVIOUS
  <2>1. TypeOK /\ Waits
    BY DEF TransportInv
  <2>2. asked \in Nat
    BY <2>1, TimesUpTo DEF TypeOK
  <2>3. CASE Send(r)
    BY <2>1, <2>2, <2>3 DEF Send, Waits
  <2>4. CASE Wake(r)
    BY <2>1, <2>2, <2>4 DEF Wake, Go, Waits
  <2> QED BY <2>1, <2>3, <2>4, Departure
<1> QED BY <1>1, TransportInvariance, PTL DEF Spec, PauseIsKept

(* A token is replaced only when it is stale, whoever finds it so. *)
THEOREM OneMintPerToken == Spec => MintsWhenStale
<1>1. TransportInv /\ [Next]_vars =>
        [\A r \in Callers :
           credential[r].kind = "jwt" /\ credential'[r].kind = "minted"
             => tokenIn <= Margin]_vars
  <2> SUFFICES ASSUME TransportInv, NEW r \in Callers, credential[r].kind = "jwt"
               PROVE  tokenIn <= Margin
    OBVIOUS
  <2>1. ~ Fresh /\ tokenIn \in 0..TokenLife
    BY DEF TransportInv, OneMinter, TypeOK
  <2> QED BY <2>1, Positive DEF Fresh
<1> QED BY <1>1, TransportInvariance, PTL DEF Spec, MintsWhenStale

(* A credential expires on a request only while it waits for the tracker,  *)
(* and no sooner than what it had when it was taken.                       *)
THEOREM ExpiryTakesAWait == Spec => ExpiresOnlyAsleep
<1> DEFINE P(r) == Leaves(r) /\ credential[r].left = 0 =>
         /\ Waited(r) >= credential[r].had
         /\ credential[r].kind = "cached" => pc[r] = "asleep" /\ slept[r] > Margin
         /\ credential[r].kind = "jwt" => pc[r] = "asleep" /\ slept[r] >= JwtLife
<1>1. TransportInv /\ [Next]_vars => [\A r \in Callers : P(r)]_vars
  <2> SUFFICES ASSUME TransportInv, [Next]_vars, NEW r \in Callers,
                      Leaves(r), credential[r].left = 0
               PROVE  P(r)
    OBVIOUS
  <2>1. TypeOK /\ Waits
    BY DEF TransportInv
  <2>2. /\ Waited(r) >= credential[r].had
        /\ credential[r].kind = "cached" => Waited(r) > Margin
        /\ credential[r].kind = "jwt" => Waited(r) >= JwtLife
    <3>1. /\ credential[r].left + Waited(r) >= credential[r].had
          /\ credential[r].kind = "cached" => credential[r].had > Margin
          /\ credential[r].kind = "jwt" => credential[r].had = JwtLife
      BY <2>1 DEF Waits, Leaves
    <3>2. credential[r].had \in Nat /\ Waited(r) \in Int
      BY <2>1, LivesUpTo, TimesUpTo DEF Credentials, TypeOK, Waited
    <3> QED BY <3>1, <3>2, Positive
  <2>3. CASE Send(r)
    <3>1. Waited(r) = 0
      BY <2>3 DEF Send, Go, Waited
    <3> QED BY <2>2, <3>1, Positive
  <2>4. CASE Wake(r)
    <3>1. pc[r] = "asleep" /\ Waited(r) = slept[r] - 0 /\ slept[r] \in Nat
      BY <2>1, <2>4, TimesUpTo DEF Wake, Go, Waited, TypeOK
    <3> QED BY <2>2, <3>1
  <2> QED BY <2>1, <2>3, <2>4, Departure
<1> QED BY <1>1, TransportInvariance, PTL DEF Spec, ExpiresOnlyAsleep
=============================================================================
