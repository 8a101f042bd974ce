-------------------------- MODULE RestClientProofs --------------------------
(***************************************************************************)
(* Proofs about RestClient: how often a request goes out, that no request  *)
(* is let through before the pauses begun are over, that the limiter keeps *)
(* its rate, and the types.                                                *)
(***************************************************************************)
EXTENDS RestClient, FiniteSetTheorems, TLAPS

Fields == {"pc", "replayable", "attempt", "tries", "nap", "answer", "sent"}

\* The limiter's pause is the longest one begun.
PauseInv == "pause" \in DOMAIN limiter /\ paused = limiter.pause

\* The sends of the attempts waited out, of the timeouts, and the one that is on
\* its way or answered.
Sends(c) ==
  c.attempt * (MaxRetries + 1) + c.tries
    + IF c.pc \in {"flight", "observe", "limited"} THEN 1 ELSE 0

\* A call counts its sends with `attempt' and `tries', and both stay in their
\* bounds; a request that may not be replayed never counts.
CountsOK(c) ==
  /\ DOMAIN c = Fields
  /\ c.attempt \in 0..RateRetries /\ c.tries \in 0..MaxRetries /\ c.sent \in Nat
  /\ ~c.replayable => c.attempt = 0 /\ c.tries = 0
  /\ c.pc = "limited" => c.replayable /\ c.attempt < RateRetries
  /\ c.sent <= Sends(c)

CallInv == call = [t \in Threads |-> call[t]] /\ \A t \in Threads : CountsOK(call[t])

-----------------------------------------------------------------------------
\* A call that differs only in what is not counted.
LEMMA Uncounted ==
  ASSUME NEW c, NEW d, CountsOK(c), DOMAIN d = Fields,
         d.attempt = c.attempt, d.tries = c.tries, d.sent = c.sent,
         d.replayable = c.replayable,
         d.pc \in {"flight", "observe", "limited"} \/ c.pc \notin {"flight", "observe", "limited"},
         d.pc = "limited" => d.replayable /\ d.attempt < RateRetries
  PROVE  CountsOK(d)
BY RetriesAssumption DEF CountsOK, Sends

\* A call of which nothing has been sent yet.
LEMMA Unsent ==
  ASSUME NEW c, DOMAIN c = Fields, c.attempt = 0, c.tries = 0, c.sent = 0,
         c.pc # "limited"
  PROVE  CountsOK(c)
BY RetriesAssumption DEF CountsOK, Sends

\* One call changes, the others stay.
LEMMA OneCall ==
  ASSUME CallInv, NEW t \in Threads, NEW c, CountsOK(c), call' = [call EXCEPT ![t] = c]
  PROVE  CallInv'
BY DEF CallInv, CountsOK, Sends

\* A thread outside request() has sent nothing.
LEMMA IdleCounts == CountsOK(Idle)
BY Unsent DEF Idle, Fields

\* Both invariants hold before the first request.
LEMMA InitInv == Init => PauseInv /\ CallInv
BY IdleCounts DEF Init, PauseInv, CallInv

\* Each action of request() leaves a call that counts correctly.
LEMMA RequestCounts ==
  ASSUME CallInv, NEW t \in Threads, Call(t) \/ Request(t)
  PROVE  CallInv'
<1> DEFINE c == call[t]
<1>0. CountsOK(c) /\ DOMAIN c = Fields /\ call = [u \in Threads |-> call[u]]
  BY DEF CallInv, CountsOK
<1>1. CASE Call(t)
  <2>1. PICK r \in BOOLEAN : call' = [call EXCEPT ![t] = Begun(r)]
    BY <1>1 DEF Call
  <2>2. CountsOK(Begun(r))
    BY Unsent DEF Begun, Idle, Fields
  <2>3. QED
    BY <2>1, <2>2, OneCall
<1>2. CASE ReservePaused(t) \/ ReserveEmpty(t)
  <2>1. PICK ticks : Sleep(t, ticks) /\ c.pc = "acquire"
    BY <1>2 DEF ReservePaused, ReserveEmpty, At
  <2>2. CountsOK([c EXCEPT !.pc = "asleep", !.nap = ticks])
    BY <1>0, <2>1, Uncounted DEF Fields
  <2>3. call' = [call EXCEPT ![t] = [c EXCEPT !.pc = "asleep", !.nap = ticks]]
    BY <1>0, <2>1 DEF Sleep
  <2>4. QED
    BY <2>2, <2>3, OneCall
<1>3. CASE ReserveUnlimited(t) \/ ReserveToken(t)
  <2>1. Granted(t) /\ c.pc = "acquire"
    BY <1>3 DEF ReserveUnlimited, ReserveToken, At
  <2>2. CountsOK([c EXCEPT !.pc = "send"])
    BY <1>0, <2>1, Uncounted DEF Fields
  <2>3. QED
    BY <1>0, <2>1, <2>2, OneCall DEF Granted
<1>4. CASE Wake(t)
  <2>1. CountsOK([c EXCEPT !.pc = "acquire"])
    BY <1>0, <1>4, Uncounted DEF Fields, Wake, At
  <2>2. QED
    BY <1>0, <1>4, <2>1, OneCall DEF Wake
<1>5. CASE Send(t)
  <2> DEFINE d == [c EXCEPT !.pc = "flight", !.sent = Smaller(@ + 1, MaxSends + 1)]
  <2>1. c.pc = "send" /\ call' = [call EXCEPT ![t] = d]
    BY <1>0, <1>5 DEF Send, At
  <2>2. d.sent \in Nat /\ d.sent <= c.sent + 1
    BY <1>0, RetriesAssumption DEF CountsOK, Smaller, MaxSends, Fields
  <2>3. /\ DOMAIN d = Fields /\ d.pc = "flight"
        /\ d.attempt = c.attempt /\ d.tries = c.tries /\ d.replayable = c.replayable
    BY <1>0 DEF Fields
  <2>4. Sends(c) \in Nat
    BY <1>0, RetriesAssumption DEF Sends, CountsOK
  <2>5. Sends(d) = Sends(c) + 1
    BY <1>0, <2>1, <2>3, RetriesAssumption DEF Sends, CountsOK
  <2>6. d.sent <= Sends(d)
    BY <1>0, <2>2, <2>4, <2>5 DEF CountsOK
  <2>7. CountsOK(d)
    BY <1>0, <2>2, <2>3, <2>6 DEF CountsOK
  <2>8. QED
    BY <2>1, <2>7, OneCall
<1>6. CASE Answer(t)
  <2>1. PICK answer \in Answers : call' = [call EXCEPT ![t] = Answered(t, answer)]
    BY <1>6 DEF Answer
  <2> DEFINE d == Answered(t, answer)
  <2>2. /\ DOMAIN d = Fields /\ d.pc = "observe" /\ d.attempt = c.attempt
        /\ d.tries = c.tries /\ d.sent = c.sent /\ d.replayable = c.replayable
    BY <1>0 DEF Fields, Answered
  <2>3. CountsOK(d)
    BY <1>0, <2>2, Uncounted
  <2>4. QED
    BY <2>1, <2>3, OneCall
<1>7. CASE Leave(t)
  BY <1>7, IdleCounts, OneCall DEF Leave
<1>8. CASE Timeout(t) /\ TimeoutRetried(t)
  <2> DEFINE d == [c EXCEPT !.pc = "send", !.tries = @ + 1, !.nap = Delay * 2^c.tries]
  <2>1. c.pc = "flight" /\ call' = [call EXCEPT ![t] = d]
    BY <1>0, <1>8 DEF Timeout, At
  <2>2. d.tries \in 0..MaxRetries /\ c.replayable /\ Sends(d) = Sends(c)
    BY <1>0, <1>8, <2>1, RetriesAssumption DEF TimeoutRetried, CountsOK, Sends, Fields
  <2>3. CountsOK(d)
    BY <1>0, <2>2 DEF CountsOK, Fields
  <2>4. QED
    BY <2>1, <2>3, OneCall
<1>9. CASE Observe(t) /\ WaitsOut(t)
  <2> DEFINE d == [c EXCEPT !.pc = "limited", !.answer.spent = FALSE]
  <2>1. call' = [call EXCEPT ![t] = d]
    BY <1>0, <1>9 DEF Observe
  <2>2. CountsOK(d)
    BY <1>0, <1>9, Uncounted DEF Fields, WaitsOut, Observe, At
  <2>3. QED
    BY <2>1, <2>2, OneCall
<1>10. CASE RateLimited(t)
  <2> DEFINE d == WaitedOut(t)
  <2>1. c.pc = "limited" /\ call' = [call EXCEPT ![t] = d]
    BY <1>10 DEF RateLimited, At
  <2>2. /\ DOMAIN d = Fields /\ d.attempt = c.attempt + 1 /\ d.tries = 0
        /\ d.sent = c.sent /\ d.replayable = c.replayable /\ d.pc = "acquire"
    BY <1>0 DEF WaitedOut, Fields
  <2>3. c.attempt * (MaxRetries + 1) + c.tries + 1 <= d.attempt * (MaxRetries + 1)
    <3>1. c.attempt \in Nat /\ c.tries \in 0..MaxRetries
      BY <1>0, RetriesAssumption DEF CountsOK
    <3>2. (c.attempt + 1) * (MaxRetries + 1) = c.attempt * (MaxRetries + 1) + MaxRetries + 1
      BY <3>1, RetriesAssumption
    <3>3. QED
      BY <3>1, <3>2, <2>2, RetriesAssumption
  <2>4. Sends(c) <= Sends(d)
    BY <1>0, <2>1, <2>2, <2>3, RetriesAssumption DEF Sends, CountsOK
  <2>5. CountsOK(d)
    <3>1. Sends(c) \in Nat /\ Sends(d) \in Nat
      BY <1>0, <2>1, <2>2, RetriesAssumption DEF Sends, CountsOK
    <3>2. d.sent <= Sends(d)
      BY <1>0, <2>2, <2>4, <3>1 DEF CountsOK
    <3>3. QED
      BY <1>0, <2>1, <2>2, <3>2, RetriesAssumption DEF CountsOK
  <2>6. QED
    BY <2>1, <2>5, OneCall
<1>11. QED
  BY <1>1, <1>2, <1>3, <1>4, <1>5, <1>6, <1>7, <1>8, <1>9, <1>10
     DEF Request, Acquire, Outcome, Timeout, Broken, Observe

\* Time only shortens the sleeps.
LEMMA TickCounts == CallInv /\ Tick => CallInv'
<1> SUFFICES ASSUME CallInv, Tick
             PROVE  CallInv'
  OBVIOUS
<1>1. ASSUME NEW t \in Threads
      PROVE  CountsOK([call[t] EXCEPT !.nap = Larger(@ - 1, 0)])
  BY <1>1, Uncounted DEF CallInv, CountsOK, Fields
<1>2. call' = [t \in Threads |-> [call[t] EXCEPT !.nap = Larger(@ - 1, 0)]]
  BY DEF Tick
<1>3. QED
  BY <1>1, <1>2 DEF CallInv, CountsOK, Sends

\* The pause of the limiter changes only with the longest one begun.
LEMMA NextPause ==
  ASSUME PauseInv, [Next]_vars
  PROVE  PauseInv'
<1>1. ASSUME NEW t \in Threads, Call(t) \/ Acquire(t) \/ Send(t) \/ Outcome(t)
      PROVE  "pause" \in DOMAIN limiter' /\ limiter'.pause = limiter.pause /\ paused' = paused
  BY <1>1 DEF PauseInv, Call, Acquire, Send, Outcome, ReservePaused, ReserveUnlimited,
     ReserveToken, ReserveEmpty, Wake, Answer, Timeout, Broken, Take, Keep, Cap
<1>2. ASSUME NEW t \in Threads, Observe(t) \/ RateLimited(t)
      PROVE  PauseInv'
  BY <1>2 DEF PauseInv, Observe, RateLimited, Pause
<1>3. CASE Tick
  BY <1>3 DEF PauseInv, Tick
<1>4. CASE UNCHANGED vars
  BY <1>4 DEF PauseInv, vars
<1>5. QED
  BY <1>1, <1>2, <1>3, <1>4 DEF Next, Request, PauseInv

\* Every step keeps the counts of all calls.
LEMMA NextCalls ==
  ASSUME CallInv, [Next]_vars
  PROVE  CallInv'
<1>1. CASE UNCHANGED vars
  BY <1>1 DEF vars, CallInv, CountsOK, Sends
<1>2. QED
  BY <1>1, TickCounts, RequestCounts DEF Next

\* What the counts bound.
LEMMA CallInvBounds == CallInv => SendsBounded
<1> SUFFICES ASSUME CallInv, NEW t \in Threads
             PROVE  call[t].sent <= IF call[t].replayable THEN MaxSends ELSE 1
  BY DEF SendsBounded
<1> DEFINE c == call[t]
<1>1. CountsOK(c)
  BY DEF CallInv
<1>2. CASE ~c.replayable
  <2>1. c.attempt = 0 /\ c.tries = 0 /\ 0 * (MaxRetries + 1) = 0
    BY <1>1, <1>2, RetriesAssumption DEF CountsOK
  <2>2. QED
    BY <1>1, <1>2, <2>1 DEF CountsOK, Sends
<1>3. CASE c.replayable
  <2>1. c.attempt * (MaxRetries + 1) <= RateRetries * (MaxRetries + 1)
    BY <1>1, RetriesAssumption DEF CountsOK
  <2>2. MaxSends = RateRetries * (MaxRetries + 1) + MaxRetries + 1
    BY RetriesAssumption DEF MaxSends
  <2>3. c.attempt * (MaxRetries + 1) \in Nat /\ RateRetries * (MaxRetries + 1) \in Nat
    BY <1>1, RetriesAssumption DEF CountsOK
  <2>4. QED
    BY <1>1, <1>3, <2>1, <2>2, <2>3, RetriesAssumption DEF CountsOK, Sends
<1>4. QED
  BY <1>2, <1>3

\* Only two actions end a thread's acquire(), and neither does during a pause.
LEMMA Grants ==
  ASSUME CallInv, Next, NEW t \in Threads, At(t, "acquire"), At(t, "send")'
  PROVE  limiter.pause = 0
<1>1. PICK u \in Threads : Call(u) \/ Request(u)
  <2>1. CASE Tick
    <3>1. call'[t].pc = call[t].pc
      BY <2>1 DEF Tick, CallInv, CountsOK, Fields
    <3>2. QED
      BY <3>1 DEF At
  <2>2. QED
    BY <2>1 DEF Next
<1>2. DOMAIN call[u] = Fields /\ call = [v \in Threads |-> call[v]]
  BY DEF CallInv, CountsOK
<1>3. CASE ReserveUnlimited(u) \/ ReserveToken(u)
  BY <1>3 DEF ReserveUnlimited, ReserveToken
<1>4. CASE Call(u)
  <2>1. PICK r \in BOOLEAN : call' = [call EXCEPT ![u] = Begun(r)]
    BY <1>4 DEF Call
  <2>2. Begun(r).pc = "acquire"
    BY DEF Begun, Idle
  <2>3. QED
    BY <1>2, <2>1, <2>2 DEF At
<1>5. CASE Timeout(u) \/ Send(u) \/ Observe(u) \/ Broken(u) \/ RateLimited(u) \/ Answer(u)
  <2>1. u # t
    BY <1>5 DEF Timeout, Send, Observe, Broken, RateLimited, Answer, At
  <2>2. \E d : call' = [call EXCEPT ![u] = d]
    BY <1>5 DEF Timeout, Send, Observe, Broken, RateLimited, Answer, Leave
  <2>3. QED
    BY <1>2, <2>1, <2>2 DEF At
<1>6. CASE ReservePaused(u) \/ ReserveEmpty(u) \/ Wake(u)
  BY <1>2, <1>6 DEF ReservePaused, ReserveEmpty, Wake, Sleep, At, Fields
<1>7. QED
  BY <1>1, <1>3, <1>4, <1>5, <1>6 DEF Request, Acquire, Outcome

-----------------------------------------------------------------------------
(* The rate.                                                               *)

\* What the bucket holds at most, if time counts at the configured rate.
Fill(l) == l.tokens + l.since * l.configured

LimiterOK(l) ==
  /\ DOMAIN l = {"configured", "max", "tokens", "since", "pause"}
  /\ l.configured \in Nat /\ l.max \in Nat /\ l.tokens \in Nat /\ l.since \in Nat
  /\ l.max <= l.configured

\* The i newest tokens and what the bucket holds were in the bucket when the i-th
\* was taken, or have flowed into it since.
Paid(l, i, age) == Second * i + Fill(l) <= l.configured * (Second + age)
RateInv ==
  /\ LimiterOK(limiter)
  /\ DOMAIN recent \subseteq Nat \ {0}
  /\ \A i \in DOMAIN recent :
       recent[i] \in 0..(Second - 1) /\ Paid(limiter, i, recent[i])

LEMMA FillNat == \A l : LimiterOK(l) => Fill(l) \in Nat
<1>1. \A m, n \in Nat : m * n \in Nat
  OBVIOUS
<1> QED BY <1>1 DEF LimiterOK, Fill

\* A refill finds no more than what may have flowed in, and fills the bucket at most.
LEMMA RefillBounds ==
  ASSUME LimiterOK(limiter)
  PROVE  /\ Refilled \in Nat /\ Refilled <= Fill(limiter)
         /\ Refilled <= limiter.configured * Second
<1> DEFINE m == limiter.max
           c == limiter.configured
           s == limiter.since
<1>1. m \in Nat /\ c \in Nat /\ s \in Nat /\ m <= c /\ Second \in Nat /\ limiter.tokens \in Nat
  BY TimesAssumption DEF LimiterOK
<1>2. \A a, b, n \in Nat : a <= b => /\ a * n \in Nat /\ b * n \in Nat /\ a * n <= b * n
                                     /\ n * a \in Nat /\ n * b \in Nat /\ n * a <= n * b
  OBVIOUS
<1>3. /\ m * Second \in Nat /\ c * Second \in Nat /\ m * Second <= c * Second
      /\ s * m \in Nat /\ s * c \in Nat /\ s * m <= s * c
  BY <1>1, <1>2
<1> QED BY <1>1, <1>3 DEF Refilled, Smaller, Fill

\* The bucket may lose tokens.
LEMMA FewerTokens ==
  ASSUME RateInv, LimiterOK(limiter'), limiter'.configured = limiter.configured,
         Fill(limiter') <= Fill(limiter), recent' = recent
  PROVE  RateInv'
<1>1. ASSUME NEW i \in DOMAIN recent PROVE Paid(limiter, i, recent[i])'
  <2>1. /\ Second * i \in Nat /\ Fill(limiter) \in Nat /\ Fill(limiter') \in Nat
        /\ limiter.configured * (Second + recent[i]) \in Nat
    <3>1. i \in Nat /\ Second \in Nat /\ limiter.configured \in Nat /\ Second + recent[i] \in Nat
      BY TimesAssumption DEF RateInv, LimiterOK
    <3>2. \A m, n \in Nat : m * n \in Nat
      OBVIOUS
    <3> QED BY <3>1, <3>2, FillNat DEF RateInv
  <2>2. Second * i + Fill(limiter) <= limiter.configured * (Second + recent[i])
    BY DEF RateInv, Paid
  <2>3. Second * i + Fill(limiter') <= limiter.configured * (Second + recent[i])
    BY <2>1, <2>2
  <2> QED BY <2>3 DEF Paid, Fill
<1> QED BY <1>1 DEF RateInv, LimiterOK

\* A token taken is the newest, and those before it are paid for as they were.
LEMMA TakeRate ==
  ASSUME RateInv, Refilled >= Second, limiter' = Take, recent' = Counted
  PROVE  RateInv'
<1> DEFINE c == limiter.configured
<1>1. /\ LimiterOK(limiter) /\ c \in Nat /\ Second \in Nat \ {0}
      /\ Refilled \in Nat /\ Refilled <= Fill(limiter) /\ Refilled <= c * Second
      /\ Fill(limiter) \in Nat
  BY RefillBounds, FillNat, TimesAssumption DEF RateInv, LimiterOK
<1>2. LimiterOK(limiter') /\ limiter'.configured = c /\ Fill(limiter') = Refilled - Second
  <2>1. /\ DOMAIN limiter' = DOMAIN limiter /\ limiter'.configured = c
        /\ limiter'.max = limiter.max
        /\ limiter'.tokens = Refilled - Second /\ limiter'.since = 0
    BY DEF RateInv, LimiterOK, Take
  <2>2. 0 * c = 0
    BY <1>1
  <2>3. Fill(limiter') = Refilled - Second
    BY <1>1, <2>1, <2>2 DEF Fill
  <2> QED BY <1>1, <2>1, <2>3 DEF LimiterOK
<1>3. DOMAIN recent' \subseteq Nat \ {0} /\ 1 \in DOMAIN recent' /\ recent'[1] = 0
  BY DEF RateInv, Counted
<1>4. ASSUME NEW i \in DOMAIN recent', i # 1
      PROVE  i - 1 \in DOMAIN recent /\ recent'[i] = recent[i - 1]
  <2>1. i \in {1} \union {j + 1 : j \in DOMAIN recent}
    BY <1>4 DEF Counted
  <2>2. PICK j \in DOMAIN recent : i = j + 1
    BY <1>4, <2>1
  <2>3. j \in Nat /\ i - 1 = j
    BY <2>2 DEF RateInv
  <2> QED BY <1>4, <2>1, <2>2, <2>3 DEF Counted
<1>5. Paid(limiter', 1, 0)
  <2>1. c * (Second + 0) = c * Second /\ Second * 1 = Second /\ c * Second \in Nat
    BY <1>1
  <2> QED BY <1>1, <1>2, <2>1 DEF Paid
<1>6. ASSUME NEW i \in DOMAIN recent', i # 1
      PROVE  recent'[i] \in 0..(Second - 1) /\ Paid(limiter', i, recent'[i])
  <2> DEFINE j == i - 1
             paid == Second * j
             due == c * (Second + recent[j])
  <2>1. /\ j \in DOMAIN recent /\ j \in Nat /\ i = j + 1 /\ recent'[i] = recent[j]
        /\ recent[j] \in 0..(Second - 1)
    BY <1>3, <1>4, <1>6 DEF RateInv
  <2>2. paid \in Nat /\ due \in Nat /\ Second * i = paid + Second
    <3>1. \A m, n \in Nat : m * n \in Nat /\ m * (n + 1) = m * n + m
      OBVIOUS
    <3>2. Second + recent[j] \in Nat
      BY <1>1, <2>1
    <3> QED BY <1>1, <2>1, <3>1, <3>2
  <2>3. paid + Fill(limiter) <= due
    BY <2>1 DEF RateInv, Paid
  <2> HIDE DEF paid, due
  <2>4. paid + Second + (Refilled - Second) <= due
    BY <1>1, <2>2, <2>3
  <2>5. Second * i + Fill(limiter') <= limiter'.configured * (Second + recent'[i])
    BY <1>2, <2>1, <2>2, <2>4 DEF due
  <2> QED BY <2>1, <2>5 DEF Paid
<1> QED BY <1>2, <1>3, <1>5, <1>6, <1>1 DEF RateInv

\* In a tick as much flows in at most as an older token may count for.
LEMMA TickRate == RateInv /\ Tick => RateInv'
<1> SUFFICES ASSUME RateInv, Tick PROVE RateInv'
  OBVIOUS
<1> DEFINE c == limiter.configured
<1>1. LimiterOK(limiter) /\ c \in Nat /\ Second \in Nat \ {0} /\ Fill(limiter) \in Nat
  BY FillNat, TimesAssumption DEF RateInv, LimiterOK
<1>2. /\ LimiterOK(limiter') /\ limiter'.configured = c
      /\ Fill(limiter') \in Nat /\ Fill(limiter') <= Fill(limiter) + c
  <2>1. /\ DOMAIN limiter' = DOMAIN limiter /\ limiter'.configured = c
        /\ limiter'.max = limiter.max /\ limiter'.tokens = limiter.tokens
        /\ limiter'.since = Smaller(limiter.since + 1, Second)
    BY DEF RateInv, LimiterOK, Tick
  <2>2. limiter'.since \in Nat /\ limiter'.since <= limiter.since + 1
    BY <1>1, <2>1 DEF LimiterOK, Smaller
  <2>3. LimiterOK(limiter')
    BY <1>1, <2>1, <2>2 DEF LimiterOK
  <2>4. \A m, n, k \in Nat : m <= n + 1 => m * k \in Nat /\ n * k \in Nat /\ m * k <= n * k + k
    <3>1. \A m, n, k \in Nat : m <= n => m * k <= n * k
      OBVIOUS
    <3>2. \A n, k \in Nat : (n + 1) * k = n * k + k /\ n * k \in Nat
      OBVIOUS
    <3> QED BY <3>1, <3>2
  <2>5. limiter'.since * c <= limiter.since * c + c /\ limiter.since * c \in Nat
        /\ limiter'.since * c \in Nat
    BY <1>1, <2>2, <2>4 DEF LimiterOK
  <2> QED BY <1>1, <2>1, <2>3, <2>5, FillNat DEF Fill, LimiterOK
<1>3. /\ DOMAIN recent' \subseteq DOMAIN recent
      /\ \A i \in DOMAIN recent' : recent'[i] = recent[i] + 1 /\ recent[i] + 1 < Second
  BY DEF Tick, Aged
<1>4. ASSUME NEW i \in DOMAIN recent'
      PROVE  recent'[i] \in 0..(Second - 1) /\ Paid(limiter', i, recent'[i])
  <2> DEFINE paid == Second * i
             due == c * (Second + recent[i])
             later == c * (Second + recent'[i])
  <2>1. /\ i \in DOMAIN recent /\ i \in Nat /\ recent[i] \in 0..(Second - 1)
        /\ recent'[i] = recent[i] + 1 /\ recent'[i] \in 0..(Second - 1)
    BY <1>1, <1>3, <1>4 DEF RateInv
  <2>2. paid \in Nat /\ due \in Nat /\ later = due + c
    <3>1. \A m, n \in Nat : m * n \in Nat /\ m * (n + 1) = m * n + m
      OBVIOUS
    <3>2. Second + recent[i] \in Nat /\ Second + recent'[i] = (Second + recent[i]) + 1
      BY <1>1, <2>1
    <3> QED BY <1>1, <2>1, <3>1, <3>2
  <2>3. paid + Fill(limiter) <= due
    BY <2>1 DEF RateInv, Paid
  <2> HIDE DEF paid, due, later
  <2>4. paid + Fill(limiter') <= later
    BY <1>1, <1>2, <2>2, <2>3
  <2> QED BY <1>2, <2>1, <2>4 DEF Paid, paid, later
<1> QED BY <1>2, <1>3, <1>4 DEF RateInv

LEMMA InitRate == Init => RateInv
<1> SUFFICES ASSUME Init PROVE RateInv
  OBVIOUS
<1>1. PICK rate \in Rates : limiter = [configured |-> rate, max |-> rate,
                                       tokens |-> rate * Second, since |-> 0, pause |-> 0]
  BY DEF Init
<1>2. rate \in Nat /\ rate * Second \in Nat
  BY TimesAssumption, LimitsAssumption
<1>3. DOMAIN recent = {}
  BY DEF Init
<1> QED BY <1>1, <1>2, <1>3 DEF RateInv, LimiterOK

\* Each step of request() pays for the token it takes.
LEMMA RequestRate ==
  ASSUME RateInv, NEW t \in Threads, Call(t) \/ Request(t)
  PROVE  RateInv'
<1>0. LimiterOK(limiter)
  BY DEF RateInv
<1>1. CASE ReserveToken(t)
  BY <1>1, TakeRate DEF ReserveToken
<1>2. CASE ReserveEmpty(t)
  <2>1. limiter' = Keep /\ recent' = recent
    BY <1>2 DEF ReserveEmpty
  <2>2. /\ limiter'.configured = limiter.configured /\ limiter'.tokens = Refilled
        /\ limiter'.since = 0 /\ limiter'.max = limiter.max /\ DOMAIN limiter' = DOMAIN limiter
    BY <1>0, <2>1 DEF Keep, LimiterOK
  <2>3. Refilled \in Nat /\ Refilled <= Fill(limiter) /\ 0 * limiter.configured = 0
    BY <1>0, RefillBounds DEF LimiterOK
  <2> QED BY <1>0, <2>1, <2>2, <2>3, FewerTokens DEF LimiterOK, Fill
<1>3. CASE Answer(t)
  <2>1. PICK answer \in Answers : limiter' = Cap(answer.limit) /\ recent' = recent
    BY <1>3 DEF Answer
  <2>2. CASE limiter' = limiter
    BY <1>0, <2>1, <2>2, FewerTokens, FillNat
  <2>3. CASE limiter' # limiter
    <3> DEFINE limit == answer.limit
               max == Smaller(limiter.configured, limit)
    <3>1. limit \in Nat
      BY LimitsAssumption DEF Answers
    <3>2. limiter' = [limiter EXCEPT !.max = max, !.tokens = Smaller(@, max * Second)]
      BY <2>1, <2>3 DEF Cap
    <3>3. max \in Nat /\ max <= limiter.configured /\ max * Second \in Nat
      BY <1>0, <3>1, TimesAssumption DEF LimiterOK, Smaller
    <3> HIDE DEF max
    <3>4. /\ DOMAIN limiter' = DOMAIN limiter /\ limiter'.configured = limiter.configured
          /\ limiter'.max = max /\ limiter'.since = limiter.since
          /\ limiter'.tokens = Smaller(limiter.tokens, max * Second)
      BY <1>0, <3>2 DEF LimiterOK
    <3>5. LimiterOK(limiter') /\ limiter'.tokens <= limiter.tokens
      BY <1>0, <3>3, <3>4 DEF LimiterOK, Smaller
    <3>6. limiter.since * limiter.configured \in Nat
      BY <1>0 DEF LimiterOK
    <3>7. Fill(limiter') <= Fill(limiter)
      BY <1>0, <3>4, <3>5, <3>6 DEF Fill, LimiterOK
    <3> QED BY <2>1, <3>4, <3>5, <3>7, FewerTokens
  <2> QED BY <2>2, <2>3
<1>4. CASE recent' = recent /\ \E p : limiter' = [limiter EXCEPT !.pause = p]
  <2>2. LimiterOK(limiter') /\ Fill(limiter') = Fill(limiter)
        /\ limiter'.configured = limiter.configured
    BY <1>0, <1>4 DEF LimiterOK, Fill
  <2> QED BY <1>0, <1>4, <2>2, FewerTokens, FillNat
<1>5. CASE UNCHANGED <<limiter, recent>>
  BY <1>0, <1>5, FewerTokens, FillNat
<1>6. CASE Observe(t) \/ RateLimited(t)
  BY <1>4, <1>5, <1>6 DEF Observe, RateLimited, Pause
<1> QED BY <1>1, <1>2, <1>3, <1>5, <1>6
        DEF Call, Request, Acquire, Outcome, ReservePaused, ReserveUnlimited, Wake, Send,
            Timeout, Broken

LEMMA NextRate == RateInv /\ [Next]_vars => RateInv'
<1>1. RateInv /\ UNCHANGED vars => RateInv'
  BY FewerTokens, FillNat DEF vars, RateInv
<1> QED BY <1>1, TickRate, RequestRate DEF Next

-----------------------------------------------------------------------------
\* request() never sends anything but a GET twice, and a GET at most as often as
\* the two retry loops allow, for every number of retries and of callers.
THEOREM SendsAreBounded == Spec => []SendsBounded
<1>1. Init => CallInv
  BY InitInv
<1>2. CallInv /\ [Next]_vars => CallInv'
  BY NextCalls
<1>3. QED
  BY <1>1, <1>2, CallInvBounds, PTL DEF Spec

\* acquire() returns only when every pause that request() has begun, for whichever
\* caller, is over: a later and shorter one never cuts it short.
THEOREM PausesAreKept == Spec => PausesKept
<1>1. Init => PauseInv
  BY InitInv
<1>2. PauseInv /\ [Next]_vars => PauseInv'
  BY NextPause
<1>3. Init => CallInv
  BY InitInv
<1>4. CallInv /\ [Next]_vars => CallInv'
  BY NextCalls
<1>5. PauseInv /\ CallInv /\ [Next]_vars =>
        [\A t \in Threads : At(t, "acquire") /\ At(t, "send")' => paused = 0]_vars
  BY Grants DEF PauseInv
<1>6. QED
  BY <1>1, <1>2, <1>3, <1>4, <1>5, PTL DEF Spec, PausesKept

\* Whatever the callers, the rates and the limits the server sends: in no second does
\* the limiter let more requests through than a full bucket and what flows into it.
THEOREM RateIsBounded == Spec => []RateBounded
<1>1. Init => RateInv
  BY InitRate
<1>2. RateInv /\ [Next]_vars => RateInv'
  BY NextRate
<1>3. RateInv => RateBounded
  <2> SUFFICES ASSUME RateInv PROVE RateBounded
    OBVIOUS
  <2> DEFINE c == limiter.configured
             bound == IF c = 0 THEN 0 ELSE 2 * c - 1
  <2>1. c \in Nat /\ Second \in Nat \ {0} /\ Fill(limiter) \in Nat /\ bound \in Nat
    BY FillNat, TimesAssumption DEF RateInv, LimiterOK
  <2>2. ASSUME NEW i \in DOMAIN recent PROVE i \in 1..bound
    <3>1. i \in Nat \ {0} /\ Second + recent[i] \in Nat /\ Second + recent[i] <= 2 * Second - 1
      BY <2>1, <2>2 DEF RateInv
    <3>2. Second * i + Fill(limiter) <= c * (Second + recent[i])
      BY <2>2 DEF RateInv, Paid
    <3>3. c * (Second + recent[i]) <= c * (2 * Second - 1)
      <4>1. \A m, n, k \in Nat : m <= n => k * m <= k * n
        OBVIOUS
      <4> QED BY <2>1, <3>1, <4>1
    <3>4. c * (2 * Second - 1) = Second * (2 * c) - c
      BY <2>1
    <3>5. Second * i <= Second * (2 * c) - c
      <4>1. \A m, n \in Nat : m * n \in Nat
        OBVIOUS
      <4>2. Second * i \in Nat /\ c * (Second + recent[i]) \in Nat /\ Second * (2 * c) \in Nat
        BY <2>1, <3>1, <4>1
      <4> HIDE DEF c
      <4> QED BY <2>1, <3>2, <3>3, <3>4, <4>2
    <3>6. ASSUME i >= 2 * c, c # 0 PROVE FALSE
      <4>1. Second * i >= Second * (2 * c)
        <5>1. \A m, n, k \in Nat : m <= n => k * m <= k * n
          OBVIOUS
        <5> QED BY <2>1, <3>1, <3>6, <5>1
      <4>2. Second * i \in Nat /\ Second * (2 * c) \in Nat
        BY <2>1, <3>1
      <4> QED BY <2>1, <3>5, <3>6, <4>1, <4>2
    <3>7. ASSUME c = 0 PROVE FALSE
      <4>1. Second * i >= 1 /\ Second * (2 * c) - c = 0
        BY <2>1, <3>1, <3>7
      <4> QED BY <3>5, <4>1, <2>1, <3>1
    <3> QED BY <2>1, <3>1, <3>6, <3>7
  <2> HIDE DEF bound
  <2>3. IsFiniteSet(1..bound) /\ Cardinality(1..bound) = bound
    <3>1. 1 \in Int /\ bound \in Int
      BY <2>1
    <3>2. IsFiniteSet(1..bound) /\ Cardinality(1..bound) = IF 1 > bound THEN 0 ELSE bound - 1 + 1
      BY <3>1, FS_Interval
    <3> QED BY <2>1, <3>2
  <2>4. DOMAIN recent \subseteq 1..bound
    BY <2>2
  <2>5. Cardinality(DOMAIN recent) <= bound
    BY <2>3, <2>4, FS_Subset
  <2> QED BY <2>5 DEF RateBounded, bound
<1> QED
  BY <1>1, <1>2, <1>3, PTL DEF Spec

-----------------------------------------------------------------------------
(* The types                                                               *)

LEMMA IntervalSize == \A n \in Nat : IsFiniteSet(1..n) /\ Cardinality(1..n) = n
<1> SUFFICES ASSUME NEW n \in Nat PROVE IsFiniteSet(1..n) /\ Cardinality(1..n) = n
  OBVIOUS
<1>1. 1 \in Int /\ n \in Int
  OBVIOUS
<1>2. IsFiniteSet(1..n) /\ Cardinality(1..n) = IF 1 > n THEN 0 ELSE n - 1 + 1
  BY <1>1, FS_Interval
<1> QED BY <1>2

\* The library says how many subsets a set has, and so what kind of number the
\* growth of a wait is.
LEMMA Doubling == \A n \in Nat : 2^n \in Nat
<1> SUFFICES ASSUME NEW n \in Nat PROVE 2^n \in Nat
  OBVIOUS
<1>1. IsFiniteSet(1..n) /\ Cardinality(1..n) = n
  BY IntervalSize
<1>2. IsFiniteSet(SUBSET (1..n)) /\ Cardinality(SUBSET (1..n)) = 2^n
  BY <1>1, FS_SUBSET
<1> QED BY <1>2, FS_CardinalityType

LEMMA ConstantTypes ==
  /\ \A w \in Waits \union {0} : w \in Nat
  /\ \A r \in Rates : r \in Nat
  /\ \A n \in 0..Second : n \in Nat
  /\ Second \in Nat /\ 0 \in 0..Second
BY LimitsAssumption, TimesAssumption

\* Waits never shrink below nothing.
LEMMA LengthTypes ==
  /\ \A m, n \in Nat : Smaller(m, n) \in Nat /\ Larger(m, n) \in Nat /\ Larger(m - 1, 0) \in Nat
  /\ \A m, n \in Nat : m * n \in Nat
BY DEF Smaller, Larger

LimiterTypes ==
  /\ limiter \in [configured : Rates, max : Nat, tokens : Nat, since : 0..Second, pause : Nat]
  /\ limiter.max <= limiter.configured
  /\ limiter.tokens <= limiter.max * Second

\* The fields of the limiter.
LEMMA LimiterFields ==
  ASSUME LimiterTypes
  PROVE  /\ limiter.max \in Nat /\ limiter.configured \in Nat /\ limiter.tokens \in Nat
         /\ limiter.since \in Nat /\ limiter.pause \in Nat /\ Second \in Nat
         /\ limiter.max * Second \in Nat /\ limiter.since * limiter.max \in Nat
         /\ limiter.tokens <= limiter.max * Second /\ limiter.max <= limiter.configured
         /\ 0 \in 0..Second
<1>1. /\ limiter.configured \in Rates /\ limiter.max \in Nat /\ limiter.tokens \in Nat
      /\ limiter.since \in 0..Second /\ limiter.pause \in Nat
      /\ limiter.tokens <= limiter.max * Second /\ limiter.max <= limiter.configured
  BY DEF LimiterTypes
<1>2. limiter.configured \in Nat /\ Second \in Nat /\ limiter.since \in Nat /\ 0 \in 0..Second
  BY <1>1, ConstantTypes
<1> QED BY <1>1, <1>2, LengthTypes

HeardTypes == [status : {"none", "final", "limited"}, limit : Limits \union {0},
               spent : BOOLEAN, after : Waits \union {0}]
\* What the counts leave open of a call.
CallTypes(c) ==
  /\ c.pc \in Labels /\ c.replayable \in BOOLEAN
  /\ c.nap \in Nat /\ c.answer \in HeardTypes
CallsTyped == \A t \in Threads : CallTypes(call[t])

\* The tokens of the last second are numbered from the newest, each as old as the
\* one before it at least, so that those that leave the second are the last ones.
Numbered(ages) == \E n \in Nat : DOMAIN ages = 1..n
RecentInv ==
  /\ Numbered(recent)
  /\ \A i \in DOMAIN recent : recent[i] \in Nat
  /\ \A i, j \in DOMAIN recent : i <= j => recent[i] <= recent[j]

LEMMA WaitTypes ==
  ASSUME NEW t \in Threads, CallInv, CallsTyped
  PROVE  RateWait(t) \in Nat /\ Delay * 2^call[t].tries \in Nat
<1>1. call[t].attempt \in Nat /\ call[t].tries \in Nat
  BY RetriesAssumption DEF CallInv, CountsOK
<1>2. 2^call[t].attempt \in Nat /\ 2^call[t].tries \in Nat
  BY <1>1, Doubling
<1>3. Second * 2^call[t].attempt \in Nat /\ Delay * 2^call[t].tries \in Nat
  BY <1>2, TimesAssumption, LengthTypes
<1>4. call[t].answer.after \in Nat
  <2>1. call[t].answer \in HeardTypes
    BY DEF CallsTyped, CallTypes
  <2>2. call[t].answer.after \in Waits \union {0}
    BY <2>1 DEF HeardTypes
  <2> QED BY <2>2, ConstantTypes
<1> QED BY <1>3, <1>4 DEF RateWait

LEMMA OneTyped ==
  ASSUME CallInv, CallsTyped, NEW t \in Threads, NEW c, CallTypes(c),
         call' = [call EXCEPT ![t] = c]
  PROVE  CallsTyped'
<1>1. call = [u \in Threads |-> call[u]]
  BY DEF CallInv
<1>2. call'[t] = c
  BY <1>1
<1>3. \A u \in Threads \ {t} : call'[u] = call[u]
  BY <1>1
<1>4. CallTypes(call'[t])
  BY <1>2
<1>5. \A u \in Threads \ {t} : CallTypes(call'[u])
  BY <1>3 DEF CallsTyped
<1> QED BY <1>4, <1>5 DEF CallsTyped

\* The sleep until the next token has a length.
LEMMA NapType ==
  ASSUME LimiterTypes, limiter.max > 0, Refilled < Second
  PROVE  (Second - Refilled + limiter.max - 1) \div limiter.max \in Nat
<1>1. Refilled \in Nat
  <2>1. limiter.tokens + limiter.since * limiter.max \in Nat
    BY LimiterFields
  <2> QED BY <2>1, LimiterFields, LengthTypes DEF Refilled
<1> DEFINE m == limiter.max
           n == Second - Refilled + m - 1
<1>2. m \in Nat /\ m > 0 /\ n \in Nat
  BY <1>1, TimesAssumption DEF LimiterTypes
<1> HIDE DEF m, n
<1>3. n \div m \in Nat
  BY <1>2
<1> QED BY <1>3 DEF m, n

LEMMA CallsStep ==
  ASSUME CallInv, CallsTyped, LimiterTypes, NEW t \in Threads, Call(t) \/ Request(t)
  PROVE  CallsTyped'
<1> DEFINE c == call[t]
<1>0. /\ CallTypes(c) /\ DOMAIN c = Fields /\ call = [u \in Threads |-> call[u]]
  BY DEF CallsTyped, CallInv, CountsOK
<1>a. NoAnswer \in HeardTypes
  BY DEF NoAnswer, HeardTypes
<1>b. CallTypes(Idle)
  BY <1>a DEF CallTypes, Idle, Labels
<1>1. CASE Call(t)
  <2>1. PICK r \in BOOLEAN : call' = [call EXCEPT ![t] = Begun(r)]
    BY <1>1 DEF Call
  <2>2. CallTypes(Begun(r))
    BY <1>a DEF CallTypes, Begun, Idle, Labels
  <2> QED BY <2>1, <2>2, OneTyped
<1>2. ASSUME NEW ticks \in Nat, Sleep(t, ticks) PROVE CallsTyped'
  <2>1. CallTypes([c EXCEPT !.pc = "asleep", !.nap = ticks])
    BY <1>0 DEF CallTypes, Fields, Labels
  <2>2. call' = [call EXCEPT ![t] = [c EXCEPT !.pc = "asleep", !.nap = ticks]]
    BY <1>0, <1>2 DEF Sleep
  <2> QED BY <2>1, <2>2, OneTyped
<1>3. CASE ReservePaused(t)
  <2>1. limiter.pause \in Nat
    BY DEF LimiterTypes
  <2> QED BY <1>2, <1>3, <2>1 DEF ReservePaused
<1>4. CASE ReserveEmpty(t)
  <2>1. Sleep(t, (Second - Refilled + limiter.max - 1) \div limiter.max)
    BY <1>4 DEF ReserveEmpty
  <2>2. (Second - Refilled + limiter.max - 1) \div limiter.max \in Nat
    BY <1>4, NapType DEF ReserveEmpty
  <2> QED BY <1>2, <2>1, <2>2
<1>5. ASSUME NEW label \in Labels, call' = [call EXCEPT ![t].pc = label] PROVE CallsTyped'
  <2>1. CallTypes([c EXCEPT !.pc = label])
    BY <1>0 DEF CallTypes, Fields
  <2>2. call' = [call EXCEPT ![t] = [c EXCEPT !.pc = label]]
    BY <1>0, <1>5
  <2> QED BY <2>1, <2>2, OneTyped
<1>6. CASE ReserveUnlimited(t) \/ ReserveToken(t) \/ Wake(t)
  <2>1. "send" \in Labels /\ "acquire" \in Labels
    BY DEF Labels
  <2> QED BY <1>5, <1>6, <2>1 DEF ReserveUnlimited, ReserveToken, Wake, Granted
<1>7. CASE Send(t)
  <2> DEFINE d == [c EXCEPT !.pc = "flight", !.sent = Smaller(@ + 1, MaxSends + 1)]
  <2>1. call' = [call EXCEPT ![t] = d]
    BY <1>0, <1>7 DEF Send
  <2>2. /\ d.pc = "flight" /\ d.replayable = c.replayable /\ d.nap = c.nap
        /\ d.answer = c.answer
    BY <1>0 DEF Fields
  <2> HIDE DEF d
  <2>3. CallTypes(d)
    BY <1>0, <2>2 DEF CallTypes, Labels
  <2> QED BY <2>1, <2>3, OneTyped
<1>8. CASE Answer(t)
  <2>1. PICK answer \in Answers : call' = [call EXCEPT ![t] = Answered(t, answer)]
    BY <1>8 DEF Answer
  <2> DEFINE heard == [answer EXCEPT !.limit = 0]
             d == Answered(t, answer)
  <2>2. heard \in HeardTypes
    BY DEF Answers, HeardTypes
  <2>3. d = [c EXCEPT !.pc = "observe", !.answer = heard]
    BY DEF Answered
  <2>4. CallTypes(d)
    <3> HIDE DEF heard, d
    <3> QED BY <1>0, <2>2, <2>3 DEF CallTypes, Fields, Labels
  <2> HIDE DEF d
  <2> QED BY <2>1, <2>4, OneTyped DEF d
<1>9. CASE Leave(t)
  BY <1>9, <1>b, OneTyped DEF Leave
<1>10. CASE Timeout(t) /\ TimeoutRetried(t)
  <2> DEFINE nap == Delay * 2^c.tries
             d == [c EXCEPT !.pc = "send", !.tries = @ + 1, !.nap = nap]
  <2>1. call' = [call EXCEPT ![t] = d]
    BY <1>0, <1>10 DEF Timeout
  <2>2. nap \in Nat
    BY WaitTypes
  <2> HIDE DEF nap
  <2>3. d.pc = "send" /\ d.replayable = c.replayable /\ d.nap = nap /\ d.answer = c.answer
    BY <1>0 DEF Fields
  <2> HIDE DEF d
  <2>4. CallTypes(d)
    BY <1>0, <2>2, <2>3 DEF CallTypes, Labels
  <2> QED BY <2>1, <2>4, OneTyped
<1>11. CASE Observe(t) /\ WaitsOut(t)
  <2> DEFINE heard == [c.answer EXCEPT !.spent = FALSE]
             d == [c EXCEPT !.pc = "limited", !.answer = heard]
  <2>1. call' = [call EXCEPT ![t] = d]
    BY <1>0, <1>11 DEF Observe
  <2>2. heard \in HeardTypes
    BY <1>0 DEF CallTypes, HeardTypes
  <2> HIDE DEF heard
  <2>3. d.pc = "limited" /\ d.replayable = c.replayable /\ d.nap = c.nap /\ d.answer = heard
    BY <1>0 DEF Fields
  <2> HIDE DEF d
  <2>4. CallTypes(d)
    BY <1>0, <2>2, <2>3 DEF CallTypes, Labels
  <2> QED BY <2>1, <2>4, OneTyped
<1>12. CASE RateLimited(t)
  <2> DEFINE d == WaitedOut(t)
  <2>1. call' = [call EXCEPT ![t] = d]
    BY <1>12 DEF RateLimited
  <2>2. /\ d.pc = "acquire" /\ d.replayable = c.replayable /\ d.nap = c.nap
        /\ d.answer = NoAnswer
    BY <1>0 DEF WaitedOut, Fields
  <2> HIDE DEF d
  <2>3. CallTypes(d)
    BY <1>0, <1>a, <2>2 DEF CallTypes, Labels
  <2> QED BY <2>1, <2>3, OneTyped
<1> QED
  BY <1>1, <1>3, <1>4, <1>6, <1>7, <1>8, <1>9, <1>10, <1>11, <1>12
  DEF Request, Acquire, Outcome, Timeout, Broken, Observe

LEMMA CallsTick == CallInv /\ CallsTyped /\ Tick => CallsTyped'
<1> SUFFICES ASSUME CallInv, CallsTyped, Tick PROVE CallsTyped'
  OBVIOUS
<1> SUFFICES ASSUME NEW t \in Threads PROVE CallTypes(call'[t])
  BY DEF CallsTyped
<1> DEFINE d == [call[t] EXCEPT !.nap = Larger(@ - 1, 0)]
<1>1. CallTypes(call[t]) /\ DOMAIN call[t] = Fields
  BY DEF CallsTyped, CallInv, CountsOK
<1>2. call'[t] = d
  BY DEF Tick
<1>3. /\ d.pc = call[t].pc /\ d.replayable = call[t].replayable
      /\ d.nap = Larger(call[t].nap - 1, 0) /\ d.answer = call[t].answer
  BY <1>1 DEF Fields
<1>4. Larger(call[t].nap - 1, 0) \in Nat
  BY <1>1, LengthTypes DEF CallTypes
<1> HIDE DEF d
<1> QED BY <1>1, <1>2, <1>3, <1>4 DEF CallTypes

LEMMA LimiterTick == LimiterTypes /\ Tick => LimiterTypes'
<1> SUFFICES ASSUME LimiterTypes, Tick PROVE LimiterTypes'
  OBVIOUS
<1> DEFINE s == Smaller(limiter.since + 1, Second)
           p == Larger(limiter.pause - 1, 0)
<1>1. limiter' = [limiter EXCEPT !.since = s, !.pause = p]
  BY DEF Tick
<1>2. s \in 0..Second /\ p \in Nat
  <2>1. limiter.since \in Nat /\ limiter.pause \in Nat /\ Second \in Nat
    BY LimiterFields
  <2>2. s \in 0..Second
    BY <2>1 DEF Smaller
  <2> QED BY <2>1, <2>2, LengthTypes
<1> HIDE DEF s, p
<1> QED BY <1>1, <1>2 DEF LimiterTypes

\* A refill fills the bucket at most, a lower limit empties it down to its size.
LEMMA LimiterStep ==
  ASSUME LimiterTypes, CallInv, CallsTyped, NEW t \in Threads, Call(t) \/ Request(t)
  PROVE  LimiterTypes'
<1>0. /\ limiter.max \in Nat /\ limiter.configured \in Nat /\ limiter.max * Second \in Nat
      /\ limiter.pause \in Nat /\ 0 \in 0..Second /\ Second \in Nat
  BY LimiterFields
<1>1. ASSUME NEW n \in Nat, n <= limiter.max * Second,
             limiter' = [limiter EXCEPT !.tokens = n, !.since = 0]
      PROVE  LimiterTypes'
  BY <1>0, <1>1 DEF LimiterTypes
<1>2. Refilled \in Nat /\ Refilled <= limiter.max * Second
  <2>1. limiter.tokens + limiter.since * limiter.max \in Nat
    BY LimiterFields
  <2> QED BY <1>0, <2>1 DEF Refilled, Smaller
<1>3. CASE ReserveToken(t)
  <2> DEFINE n == Refilled - Second
  <2>1. limiter' = [limiter EXCEPT !.tokens = n, !.since = 0] /\ Refilled >= Second
    BY <1>3 DEF ReserveToken, Take
  <2>2. n \in Nat /\ n <= limiter.max * Second
    BY <1>0, <1>2, <2>1
  <2> HIDE DEF n
  <2> QED BY <1>1, <2>1, <2>2
<1>4. CASE ReserveEmpty(t)
  <2>1. limiter' = [limiter EXCEPT !.tokens = Refilled, !.since = 0]
    BY <1>4 DEF ReserveEmpty, Keep
  <2> QED BY <1>1, <1>2, <2>1
<1>5. ASSUME NEW p \in Nat, limiter' = [limiter EXCEPT !.pause = p] PROVE LimiterTypes'
  BY <1>5 DEF LimiterTypes
<1>6. CASE UNCHANGED limiter
  BY <1>6 DEF LimiterTypes
<1>7. CASE Observe(t) \/ RateLimited(t)
  <2>1. Larger(limiter.pause, Second) \in Nat /\ Larger(limiter.pause, RateWait(t)) \in Nat
    BY <1>0, WaitTypes, LengthTypes
  <2> QED BY <1>5, <1>6, <1>7, <2>1 DEF Observe, RateLimited, Pause
<1>8. CASE Answer(t)
  <2>1. PICK answer \in Answers : limiter' = Cap(answer.limit)
    BY <1>8 DEF Answer
  <2> DEFINE max == Smaller(limiter.configured, answer.limit)
             kept == Smaller(limiter.tokens, max * Second)
  <2>2. CASE limiter' = [limiter EXCEPT !.max = max, !.tokens = kept]
    <3>1. answer.limit \in Nat
      BY LimitsAssumption DEF Answers
    <3>2. max \in Nat /\ max <= limiter.configured
      BY <1>0, <3>1 DEF Smaller
    <3>3. max * Second \in Nat
      BY <1>0, <3>2, LengthTypes
    <3> HIDE DEF max
    <3>4. kept \in Nat /\ kept <= max * Second
      BY <1>0, <3>3 DEF Smaller, LimiterTypes
    <3> HIDE DEF kept
    <3> QED BY <1>0, <2>2, <3>2, <3>4 DEF LimiterTypes
  <2> QED BY <1>6, <2>1, <2>2 DEF Cap
<1> QED
  BY <1>3, <1>4, <1>6, <1>7, <1>8
  DEF Call, Request, Acquire, Outcome, ReservePaused, ReserveUnlimited, Wake, Send, Timeout, Broken

\* The token that is taken becomes the first, the others move up.
LEMMA RecentCounted == RecentInv /\ recent' = Counted => RecentInv'
<1> SUFFICES ASSUME RecentInv, recent' = Counted PROVE RecentInv'
  OBVIOUS
<1>1. PICK n \in Nat : DOMAIN recent = 1..n
  BY DEF RecentInv, Numbered
<1>2. {1} \union {j + 1 : j \in 1..n} = 1..(n + 1)
  <2>1. ASSUME NEW i \in 1..(n + 1), i # 1 PROVE \E j \in 1..n : i = j + 1
    <3>1. i - 1 \in 1..n /\ i = (i - 1) + 1
      BY <2>1
    <3> QED BY <3>1
  <2> QED BY <2>1
<1>3. DOMAIN recent' = 1..(n + 1) /\ n + 1 \in Nat
  <2> DEFINE OneMore(D) == {1} \union {j + 1 : j \in D}
  <2>1. DOMAIN recent' = OneMore(DOMAIN recent)
    BY DEF Counted
  <2>2. OneMore(1..n) = 1..(n + 1)
    BY <1>2
  <2> HIDE DEF OneMore
  <2>3. DOMAIN recent' = 1..(n + 1)
    BY <1>1, <2>1, <2>2
  <2> QED BY <2>3
<1>4. recent'[1] = 0 /\ \A i \in DOMAIN recent' : i # 1 => recent'[i] = recent[i - 1]
  <2>1. 1 \in DOMAIN recent'
    BY <1>3
  <2> QED BY <2>1 DEF Counted
<1>5. \A i \in DOMAIN recent' : i # 1 => i - 1 \in DOMAIN recent
  BY <1>1, <1>3
<1>6. \A i \in DOMAIN recent' : recent'[i] \in Nat
  BY <1>4, <1>5 DEF RecentInv
<1>7. ASSUME NEW i \in DOMAIN recent', NEW j \in DOMAIN recent', i <= j
      PROVE  recent'[i] <= recent'[j]
  <2>1. CASE i = 1
    BY <1>4, <1>6, <2>1
  <2>2. CASE i # 1
    <3>1. j # 1 /\ i - 1 <= j - 1
      BY <1>3, <1>7, <2>2
    <3>2. i - 1 \in DOMAIN recent /\ j - 1 \in DOMAIN recent
      BY <1>5, <2>2, <3>1
    <3>3. recent[i - 1] <= recent[j - 1]
      BY <3>1, <3>2 DEF RecentInv
    <3> QED BY <1>4, <2>2, <3>1, <3>3
  <2> QED BY <2>1, <2>2
<1> QED BY <1>3, <1>6, <1>7 DEF RecentInv, Numbered

\* Those that leave the second are the last ones.
LEMMA RecentTick == RecentInv /\ Tick => RecentInv'
<1> SUFFICES ASSUME RecentInv, Tick PROVE RecentInv'
  OBVIOUS
<1>1. PICK n \in Nat : DOMAIN recent = 1..n
  BY DEF RecentInv, Numbered
<1>2. /\ DOMAIN recent' = {j \in 1..n : recent[j] + 1 < Second}
      /\ \A i \in DOMAIN recent' : recent'[i] = recent[i] + 1
  BY <1>1 DEF Tick, Aged
<1> DEFINE D == {j \in 1..n : recent[j] + 1 < Second}
<1>3. \A i, j \in 1..n : i <= j /\ j \in D => i \in D
  BY <1>1, TimesAssumption DEF RecentInv
<1>4. \E m \in Nat : D = 1..m
  <2> HIDE DEF D
  <2> DEFINE m == Cardinality(D)
  <2>1. D \subseteq 1..n
    BY DEF D
  <2>2. \A k \in Nat : IsFiniteSet(1..k) /\ Cardinality(1..k) = k
    BY IntervalSize
  <2>3. IsFiniteSet(D) /\ m \in Nat
    BY <1>1, <2>1, <2>2, FS_Subset, FS_CardinalityType
  <2>4. ASSUME NEW k \in D PROVE k <= m
    <3>1. k \in Nat /\ 1..k \subseteq D
      BY <1>3, <2>1, <2>4
    <3>2. Cardinality(1..k) <= Cardinality(D)
      BY <2>3, <3>1, FS_Subset
    <3> QED BY <2>2, <3>1, <3>2
  <2>5. ASSUME NEW k \in 1..m, k \notin D PROVE FALSE
    <3>1. k - 1 \in Nat /\ D \subseteq 1..(k - 1)
      BY <1>3, <2>1, <2>3, <2>4, <2>5
    <3>2. Cardinality(D) <= Cardinality(1..(k - 1))
      BY <2>2, <3>1, FS_Subset
    <3>3. m <= k - 1
      BY <2>2, <3>1, <3>2
    <3> HIDE DEF m
    <3> QED BY <2>3, <3>3
  <2>6. \A k \in D : k \in 1..m
    BY <2>1, <2>3, <2>4
  <2>7. D = 1..m
    BY <2>5, <2>6
  <2> QED BY <2>3, <2>7
<1> QED BY <1>1, <1>2, <1>4 DEF RecentInv, Numbered

\* What every step keeps of the types, with the counts and the rate.
Typed == LimiterTypes /\ CallsTyped /\ RecentInv

LEMMA InitTyped == Init => Typed
<1> SUFFICES ASSUME Init PROVE Typed
  OBVIOUS
<1>1. LimiterTypes
  <2>1. PICK rate \in Rates : limiter = [configured |-> rate, max |-> rate,
                                         tokens |-> rate * Second, since |-> 0, pause |-> 0]
    BY DEF Init
  <2>2. rate \in Nat /\ rate * Second \in Nat /\ 0 \in 0..Second
    BY TimesAssumption, LimitsAssumption
  <2> QED BY <2>1, <2>2 DEF LimiterTypes
<1>2. CallsTyped
  <2>1. NoAnswer \in HeardTypes
    BY DEF NoAnswer, HeardTypes
  <2>2. CallTypes(Idle)
    BY <2>1 DEF CallTypes, Idle, Labels
  <2> QED BY <2>2 DEF Init, CallsTyped
<1>3. RecentInv
  <2>1. DOMAIN recent = {} /\ DOMAIN recent = 1..0
    BY DEF Init
  <2> QED BY <2>1 DEF RecentInv, Numbered
<1> QED BY <1>1, <1>2, <1>3 DEF Typed

LEMMA NextTyped ==
  ASSUME CallInv, Typed, [Next]_vars
  PROVE  Typed'
<1>1. LimiterTypes /\ CallsTyped /\ RecentInv
  BY DEF Typed
<1>2. CASE Tick
  BY <1>1, <1>2, LimiterTick, CallsTick, RecentTick DEF Typed
<1>3. ASSUME NEW t \in Threads, Call(t) \/ Request(t) PROVE Typed'
  <2>1. LimiterTypes' /\ CallsTyped'
    BY <1>1, <1>3, LimiterStep, CallsStep
  <2>2. recent' = recent \/ recent' = Counted
    BY <1>3
    DEF Call, Request, Acquire, Outcome, ReservePaused, ReserveUnlimited, ReserveToken,
        ReserveEmpty, Wake, Send, Answer, Timeout, Broken, Observe, RateLimited
  <2>3. RecentInv'
    BY <1>1, <2>2, RecentCounted DEF RecentInv, Numbered
  <2> QED BY <2>1, <2>3 DEF Typed
<1>4. CASE UNCHANGED vars
  BY <1>1, <1>4 DEF vars, Typed, LimiterTypes, CallsTyped, CallTypes, RecentInv, Numbered
<1> QED BY <1>2, <1>3, <1>4 DEF Next

LEMMA TypesFollow ==
  ASSUME PauseInv, CallInv, RateInv, Typed
  PROVE  TypeOK
<1>1. LimiterTypes /\ CallsTyped /\ RecentInv
  BY DEF Typed
<1>2. ASSUME NEW t \in Threads
      PROVE  /\ call[t].pc \in Labels /\ call[t].replayable \in BOOLEAN
             /\ call[t].attempt \in 0..RateRetries /\ call[t].tries \in 0..MaxRetries
             /\ call[t].nap \in Nat /\ call[t].sent \in Nat
             /\ call[t].answer \in HeardTypes
  BY <1>1 DEF CallsTyped, CallTypes, CallInv, CountsOK
<1>3. DOMAIN recent = 1..Cardinality(DOMAIN recent)
  <2>1. PICK n \in Nat : DOMAIN recent = 1..n
    BY <1>1 DEF RecentInv, Numbered
  <2>2. Cardinality(1..n) = n
    BY <2>1, IntervalSize
  <2> QED BY <2>1, <2>2
<1>4. \A i \in DOMAIN recent : recent[i] \in 0..(Second - 1)
  BY DEF RateInv
<1>5. paused \in Nat
  BY <1>1 DEF PauseInv, LimiterTypes
<1> QED BY <1>1, <1>2, <1>3, <1>4, <1>5 DEF TypeOK, LimiterTypes, HeardTypes

\* Every variable keeps its type: the bucket never holds more than the current limit
\* lets into it, whatever the server lowers it to, no wait is negative, however often
\* it was doubled, and the tokens of the last second are numbered without a gap.
THEOREM TypeCorrect == Spec => []TypeOK
<1>1. Init => PauseInv /\ CallInv /\ RateInv /\ Typed
  BY InitInv, InitRate, InitTyped
<1>2. PauseInv /\ [Next]_vars => PauseInv'
  BY NextPause
<1>3. CallInv /\ [Next]_vars => CallInv'
  BY NextCalls
<1>4. RateInv /\ [Next]_vars => RateInv'
  BY NextRate
<1>5. CallInv /\ Typed /\ [Next]_vars => Typed'
  BY NextTyped
<1>6. PauseInv /\ CallInv /\ RateInv /\ Typed => TypeOK
  BY TypesFollow
<1> QED BY <1>1, <1>2, <1>3, <1>4, <1>5, <1>6, PTL DEF Spec
=============================================================================
