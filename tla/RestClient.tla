----------------------------- MODULE RestClient -----------------------------
(***************************************************************************)
(* transport/rest_client.py and utils/retry.py: RestClient.request called  *)
(* by several threads that share one client, and so one RateLimiter.       *)
(*                                                                         *)
(* Time is counted in ticks, Second of them to a second, and every instant *)
(* the code stores is kept as the ticks left to it or gone since it.  The  *)
(* tokens of the bucket are counted in parts, Second of them to a token,   *)
(* so that one tick adds `max' parts.                                      *)
(***************************************************************************)
EXTENDS Integers, FiniteSets

CONSTANTS
  Threads,      \* the threads that call request()
  Second,       \* ticks per second
  Rates,        \* what config.rate_limit_per_second may be; 0 is unlimited
  Limits,       \* what X-RateLimit-Limit may say; 0 stands for no such header
  Waits,        \* what Retry-After of a 429 may say; 0 stands for none
  MaxWait,      \* RATE_LIMIT_MAX_WAIT_MS
  RateRetries,  \* RATE_LIMIT_MAX_RETRIES
  MaxRetries,   \* config.max_retries
  Delay         \* config.retry_delay_ms

ASSUME TimesAssumption   == Second \in Nat \ {0} /\ MaxWait \in Nat /\ Delay \in Nat
ASSUME LimitsAssumption  == Rates \subseteq Nat /\ Limits \subseteq Nat /\ Waits \subseteq Nat
ASSUME RetriesAssumption == RateRetries \in Nat /\ MaxRetries \in Nat

VARIABLES
  limiter,  \* the RateLimiter: configured, max, tokens and the instants since, pause
  call,     \* the request() each thread is in
  recent,   \* history: the ages of the tokens taken in the last second, newest first
  paused    \* history: ticks left of the longest pause that request() has begun

vars == <<limiter, call, recent, paused>>

MaxSends == (RateRetries + 1) * (MaxRetries + 1)

Smaller(m, n) == IF m <= n THEN m ELSE n
Larger(m, n)  == IF m <= n THEN n ELSE m

\* What an HTTP answer says, as far as request() and the limiter look at it.
\* An answer is final, a body or an error, unless it is a 429.
Answers ==
  [status : {"final"}, limit : Limits, spent : BOOLEAN, after : {0}]
    \union [status : {"limited"}, limit : Limits, spent : BOOLEAN, after : Waits]

NoAnswer == [status |-> "none", limit |-> 0, spent |-> FALSE, after |-> 0]

\* `attempt' counts the 429s waited out, `tries' the timeouts of retry_sync and
\* `sent' (history) the times the request went out, up to MaxSends + 1.
Idle == [pc |-> "idle", replayable |-> FALSE, attempt |-> 0, tries |-> 0,
         nap |-> 0, answer |-> NoAnswer, sent |-> 0]

Init ==
  /\ \E rate \in Rates :
       limiter = [configured |-> rate, max |-> rate, tokens |-> rate * Second,
                  since |-> 0, pause |-> 0]
  /\ call = [t \in Threads |-> Idle]
  /\ recent = <<>>
  /\ paused = 0

At(t, label) == call[t].pc = label

\* The exception or the body reaches the caller.
Leave(t) == call' = [call EXCEPT ![t] = Idle]

-----------------------------------------------------------------------------
(* RateLimiter.                                                            *)

Refilled == Smaller(limiter.max * Second, limiter.tokens + limiter.since * limiter.max)

\* Mutant: the time already paid for is paid for again.
TakeWithoutReset == [limiter EXCEPT !.tokens = Refilled - Second]

Take == [limiter EXCEPT !.tokens = Refilled - Second, !.since = 0]

Cap(limit) ==
  IF limit = 0 \/ limiter.configured = 0 THEN limiter
  ELSE LET max == Smaller(limiter.configured, limit)
       IN  [limiter EXCEPT !.max = max, !.tokens = Smaller(@, max * Second)]

\* Mutant: a later, shorter pause cuts an earlier one short.
PauseShortened(ticks) == [limiter EXCEPT !.pause = ticks]

Pause(ticks) == [limiter EXCEPT !.pause = Larger(@, ticks)]

\* acquire() sleeps and asks again,
Sleep(t, ticks) == call' = [call EXCEPT ![t].pc = "asleep", ![t].nap = ticks]
\* or returns: the request may go out.
Granted(t) == call' = [call EXCEPT ![t].pc = "send"]

ReservePaused(t) ==
  /\ At(t, "acquire")
  /\ limiter.pause > 0
  /\ Sleep(t, limiter.pause)
  /\ UNCHANGED <<limiter, recent, paused>>

ReserveUnlimited(t) ==
  /\ At(t, "acquire")
  /\ limiter.pause = 0 /\ limiter.max = 0
  /\ Granted(t)
  /\ UNCHANGED <<limiter, recent, paused>>

\* One more token is the newest; a tick later each is a tick older.
Counted == [i \in {1} \union {j + 1 : j \in DOMAIN recent} |->
              IF i = 1 THEN 0 ELSE recent[i - 1]]
Aged == [i \in {j \in DOMAIN recent : recent[j] + 1 < Second} |-> recent[i] + 1]

ReserveToken(t) ==
  /\ At(t, "acquire")
  /\ limiter.pause = 0 /\ limiter.max > 0
  /\ Refilled >= Second
  /\ limiter' = Take
  /\ recent' = Counted
  /\ Granted(t)
  /\ UNCHANGED paused

\* Mutant: what flowed into the bucket is lost when it makes no whole token.
KeepNothing == [limiter EXCEPT !.since = 0]

Keep == [limiter EXCEPT !.tokens = Refilled, !.since = 0]

\* The sleep is rounded up to a tick.
ReserveEmpty(t) ==
  /\ At(t, "acquire")
  /\ limiter.pause = 0 /\ limiter.max > 0
  /\ Refilled < Second
  /\ limiter' = Keep
  /\ Sleep(t, (Second - Refilled + limiter.max - 1) \div limiter.max)
  /\ UNCHANGED <<recent, paused>>

Wake(t) ==
  /\ At(t, "asleep") /\ call[t].nap = 0
  /\ call' = [call EXCEPT ![t].pc = "acquire"]
  /\ UNCHANGED <<limiter, recent, paused>>

-----------------------------------------------------------------------------
(* request()                                                               *)

Begun(replayable) == [Idle EXCEPT !.pc = "acquire", !.replayable = replayable]

\* GET is replayable, every other verb is not, unless `retry' says otherwise.
Call(t) ==
  /\ At(t, "idle")
  /\ \E replayable \in BOOLEAN : call' = [call EXCEPT ![t] = Begun(replayable)]
  /\ UNCHANGED <<limiter, recent, paused>>

Send(t) ==
  /\ At(t, "send") /\ call[t].nap = 0
  /\ call' = [call EXCEPT ![t].pc = "flight", ![t].sent = Smaller(@ + 1, MaxSends + 1)]
  /\ UNCHANGED <<limiter, recent, paused>>

Answered(t, answer) ==
  [call[t] EXCEPT !.pc = "observe", !.answer = [answer EXCEPT !.limit = 0]]

\* The answer arrives, and _observe_rate_limit caps the rate to its limit,
Answer(t) ==
  /\ At(t, "flight")
  /\ \E answer \in Answers :
       /\ limiter' = Cap(answer.limit)
       /\ call' = [call EXCEPT ![t] = Answered(t, answer)]
  /\ UNCHANGED <<recent, paused>>

\* Mutant: every verb is replayed after a timeout.
TimeoutReplayed(t) == call[t].tries < MaxRetries

TimeoutRetried(t) == call[t].replayable /\ call[t].tries < MaxRetries

\* retry_sync sends again after its delay, without asking the limiter.
Timeout(t) ==
  /\ At(t, "flight")
  /\ IF TimeoutRetried(t)
     THEN call' = [call EXCEPT ![t].pc = "send", ![t].tries = @ + 1,
                               ![t].nap = Delay * 2^call[t].tries]
     ELSE Leave(t)
  /\ UNCHANGED <<limiter, recent, paused>>

\* The connection is refused or breaks: no exception that is retried.
Broken(t) ==
  /\ At(t, "flight")
  /\ Leave(t)
  /\ UNCHANGED <<limiter, recent, paused>>

RateWait(t) ==
  LET after == call[t].answer.after
  IN  IF after > 0 THEN after ELSE Second * 2^call[t].attempt

\* _rate_wait: a replayable 429 is waited out, unless that takes too long.
WaitsOut(t) ==
  /\ call[t].answer.status = "limited"
  /\ call[t].replayable /\ RateWait(t) <= MaxWait /\ call[t].attempt < RateRetries

\* and then, taking the limiter's lock once more, at what remains.  A 429 that is
\* not waited out is raised: its Retry-After pauses nobody.
Observe(t) ==
  /\ At(t, "observe")
  /\ IF call[t].answer.spent
     THEN limiter' = Pause(Second) /\ paused' = Larger(paused, Second)
     ELSE UNCHANGED <<limiter, paused>>
  /\ IF WaitsOut(t)
     THEN call' = [call EXCEPT ![t].pc = "limited", ![t].answer.spent = FALSE]
     ELSE Leave(t)
  /\ UNCHANGED recent

WaitedOut(t) ==
  [call[t] EXCEPT !.pc = "acquire", !.attempt = @ + 1, !.tries = 0, !.answer = NoAnswer]

\* A 429 is waited out by pausing the limiter for everybody.
RateLimited(t) ==
  /\ At(t, "limited")
  /\ limiter' = Pause(RateWait(t))
  /\ paused' = Larger(paused, RateWait(t))
  /\ call' = [call EXCEPT ![t] = WaitedOut(t)]
  /\ UNCHANGED recent

-----------------------------------------------------------------------------
Tick ==
  /\ limiter' = [limiter EXCEPT !.since = Smaller(@ + 1, Second),
                                !.pause = Larger(@ - 1, 0)]
  /\ call' = [t \in Threads |-> [call[t] EXCEPT !.nap = Larger(@ - 1, 0)]]
  /\ recent' = Aged
  /\ paused' = Larger(paused - 1, 0)

Acquire(t) ==
  ReservePaused(t) \/ ReserveUnlimited(t) \/ ReserveToken(t) \/ ReserveEmpty(t) \/ Wake(t)

Outcome(t) == Answer(t) \/ Timeout(t) \/ Broken(t)

Request(t) ==
  Acquire(t) \/ Send(t) \/ Outcome(t) \/ Observe(t) \/ RateLimited(t)

Next == Tick \/ \E t \in Threads : Call(t) \/ Request(t)

Spec == Init /\ [][Next]_vars

\* Time passes and threads run; a request is answered, times out or breaks.
FairSpec == Spec /\ WF_vars(Tick) /\ \A t \in Threads : WF_vars(Request(t))

-----------------------------------------------------------------------------
(* Properties.                                                             *)

Labels == {"idle", "acquire", "asleep", "send", "flight", "observe", "limited"}

\* Every variable keeps its type; the bucket never holds more than a second's
\* worth of tokens, not even when the server lowers the limit.
TypeOK ==
  /\ limiter \in [configured : Rates, max : Nat, tokens : Nat, since : 0..Second, pause : Nat]
  /\ limiter.max <= limiter.configured
  /\ limiter.tokens <= limiter.max * Second
  /\ \A t \in Threads :
       /\ call[t].pc \in Labels
       /\ call[t].replayable \in BOOLEAN
       /\ call[t].attempt \in 0..RateRetries
       /\ call[t].tries \in 0..MaxRetries
       /\ call[t].nap \in Nat /\ call[t].sent \in Nat
       /\ call[t].answer \in [status : {"none", "final", "limited"}, limit : Limits \union {0},
                              spent : BOOLEAN, after : Waits \union {0}]
  /\ DOMAIN recent = 1..Cardinality(DOMAIN recent)
  /\ \A i \in DOMAIN recent : recent[i] \in 0..(Second - 1)
  /\ paused \in Nat

\* The limiter lets no more requests through in any second than a full bucket
\* and what flows into it before that second is over.
RateBounded ==
  Cardinality(DOMAIN recent) <= IF limiter.configured = 0 THEN 0 ELSE 2 * limiter.configured - 1

\* A shorter pause never cuts a longer one short: no request is let through before
\* every pause that request() has begun, for a spent rate or a 429 it waits out, is
\* over, whichever caller began it and in whichever order the answers were read.
PausesKept ==
  [][\A t \in Threads : At(t, "acquire") /\ At(t, "send")' => paused = 0]_vars

\* A request that is not a GET goes out once; a GET at most as often as the two
\* retry loops together allow.
SendsBounded ==
  \A t \in Threads :
    call[t].sent <= IF call[t].replayable THEN MaxSends ELSE 1

\* The callers never starve each other all at once: when every thread is in
\* request(), one of them returns.
Progress == (\A t \in Threads : ~At(t, "idle")) ~> (\E t \in Threads : At(t, "idle"))
=============================================================================
