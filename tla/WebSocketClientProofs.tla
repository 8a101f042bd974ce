------------------------ MODULE WebSocketClientProofs ------------------------
(***************************************************************************)
(* Proofs about WebSocketClient, for any number of supervisors, sockets,   *)
(* timers, topics and retries.                                             *)
(***************************************************************************)
EXTENDS WebSocketClient, TLAPS

SupFields == {"pc", "first", "attempt", "retried", "force", "token", "app", "timer",
              "wasOpen", "tries"}

\* The passes of the first connect are paid for: by a wait that was counted, by the
\* one forced refresh, or by the pass under way.
Underway == {"token", "check", "create", "arm", "enter", "run", "ended", "decide"}
Budget(d) ==
  /\ DOMAIN d = SupFields
  /\ d.attempt \in Nat /\ d.tries \in Nat
  /\ d.first => /\ d.attempt < MaxRetries
                /\ d.tries <= d.attempt + (IF d.retried THEN 1 ELSE 0)
                                        + (IF d.pc \in Underway THEN 1 ELSE 0)
  /\ ~d.first => d.tries = 0
BudgetInv == sup = [g \in Supervisors |-> sup[g]] /\ \A g \in Supervisors : Budget(sup[g])

\* The shape of the rest of the state, as far as the proofs need it.
SelfFields == {"ws", "supervisor", "closing", "opened", "openSeen", "ready", "readyError",
               "lastError", "rejection", "status", "cycle", "firstConnect"}
SelfShape == /\ DOMAIN self = SelfFields
             /\ self.ws \in Apps \union {NoApp}
             /\ self.supervisor \in Supervisors \union {NoSupervisor}
SockShape == /\ sock = [a \in Apps |-> sock[a]]
             /\ \A a \in Apps : DOMAIN sock[a] = {"state", "stop", "topics"}
UserShape == /\ DOMAIN user = {"pc", "app", "method", "topics"}
             /\ user.pc # "idle" => user.app \in Apps
Shape == SelfShape /\ SockShape /\ UserShape /\ BudgetInv

\* Without timeouts the supervisor in self._supervisor is the only one alive.
Alone == /\ \A g \in Supervisors : Alive(g) => g = self.supervisor
         /\ main = "forget" => \A g \in Supervisors : ~Alive(g)

\* The socket that lives is the client's, and a supervisor runs it.
Held == /\ \A g \in Supervisors : At(g, "run") =>
             sup[g].app = self.ws /\ self.ws \in Apps /\ Live(self.ws)
        /\ \A a \in Apps : Live(a) => a = self.ws /\ \E g \in Supervisors : At(g, "run")

\* On the socket that is up the server has what the book will hold once the request
\* under way is recorded.
Tracked == ~overtaken =>
  \A a \in Apps : sock[a].state = "open" /\ ~sock[a].stop =>
    IF user.pc = "record" THEN user.app = a /\ sock[a].topics = Recorded
                          ELSE sock[a].topics = book

IInv == Shape /\ Alone /\ Held /\ Tracked

-----------------------------------------------------------------------------
(* The first connect gives up.                                             *)

\* A supervisor that has not started yet, or is over, has spent nothing.
LEMMA FreshBudget == Budget(Fresh) /\ Budget(Dead)
BY RetriesAssumption DEF Budget, Fresh, Dead, SupFields, Underway

\* One supervisor changes, the others stay.
LEMMA OneBudget ==
  ASSUME BudgetInv, NEW g \in Supervisors, NEW d, Budget(d), sup' = [sup EXCEPT ![g] = d]
  PROVE  BudgetInv'
BY DEF BudgetInv

\* A pass that goes on spends nothing new.
Goes(d, e) ==
  /\ DOMAIN e = SupFields /\ d.pc \in Underway /\ e.pc \in Underway
  /\ e.first = d.first /\ e.attempt = d.attempt /\ e.tries = d.tries /\ e.retried = d.retried

LEMMA GoBudget ==
  ASSUME NEW d, NEW e, Budget(d), Goes(d, e)
  PROVE  Budget(e)
BY DEF Budget, Goes

\* The end of run_forever is one step of a pass.
LEMMA EndedGoes ==
  ASSUME BudgetInv, NEW g \in Supervisors, Ended(g), sup[g].pc \in {"enter", "run"}
  PROVE  \E e : sup' = [sup EXCEPT ![g] = e] /\ Goes(sup[g], e)
<1> WITNESS [sup[g] EXCEPT !.pc = "ended", !.timer = NoTimer]
<1> QED  BY DEF Ended, Goes, BudgetInv, Budget, SupFields, Underway

\* What the steps from the token to the end of the socket do to their supervisor.
LEMMA PassGoes ==
  ASSUME BudgetInv, NEW g \in Supervisors,
         TokenGiven(g) \/ TokenError(g) \/ Create(g) \/ Arm(g) \/ Enter(g) \/ Swap(g)
           \/ Refuse(g) \/ Drop(g)
  PROVE  \E e : sup' = [sup EXCEPT ![g] = e] /\ Goes(sup[g], e)
<1> DEFINE d == sup[g]
<1>0. DOMAIN d = SupFields
  BY DEF BudgetInv, Budget
<1> USE DEF At, Goto, Goes, SupFields, Underway
<1>1. CASE TokenGiven(g)
  <2> WITNESS [d EXCEPT !.pc = "check", !.token = IF d.force THEN "fresh" ELSE "held"]
  <2> QED  BY <1>0, <1>1 DEF TokenGiven, BudgetInv
<1>2. CASE TokenError(g)
  <2> WITNESS [d EXCEPT !.pc = "check"]
  <2> QED  BY <1>0, <1>2 DEF TokenError
<1>3. CASE Create(g)
  <2> WITNESS [d EXCEPT !.pc = "arm"]
  <2> QED  BY <1>0, <1>3 DEF Create
<1>4. CASE Arm(g)
  <2>1. CASE sup' = [sup EXCEPT ![g].pc = "enter"]
    <3> WITNESS [d EXCEPT !.pc = "enter"]
    <3> QED  BY <1>0, <1>4, <2>1 DEF Arm
  <2>2. ASSUME NEW i, sup' = [sup EXCEPT ![g].pc = "enter", ![g].timer = i]
        PROVE  \E e : sup' = [sup EXCEPT ![g] = e] /\ Goes(d, e)
    <3> WITNESS [d EXCEPT !.pc = "enter", !.timer = i]
    <3> QED  BY <1>0, <1>4, <2>2 DEF Arm, BudgetInv
  <2> QED  BY <1>4, <2>1, <2>2 DEF Arm
<1>5. CASE Enter(g)
  <2>1. CASE Ended(g)
    BY <1>5, <2>1, EndedGoes DEF Enter
  <2>2. CASE sup' = [sup EXCEPT ![g].pc = "run", ![g].app = self.ws]
    <3> WITNESS [d EXCEPT !.pc = "run", !.app = self.ws]
    <3> QED  BY <1>0, <1>5, <2>2 DEF Enter, BudgetInv
  <2> QED  BY <1>5, <2>1, <2>2 DEF Enter
<1>6. CASE Swap(g)
  <2> WITNESS [d EXCEPT !.pc = "decide", !.app = NoApp, !.wasOpen = self.openSeen]
  <2> QED  BY <1>0, <1>6 DEF Swap, BudgetInv
<1>7. CASE Refuse(g) \/ Drop(g)
  BY <1>7, EndedGoes DEF Refuse, Drop, Connecting, Serving
<1> QED  BY <1>1, <1>2, <1>3, <1>4, <1>5, <1>6, <1>7

\* A new pass is paid for: `label' is where it begins.
LEMMA AgainBudget ==
  ASSUME NEW g \in Supervisors, Budget(sup[g]), sup[g].pc = "decide",
         NEW label \in {"loop", "wait"}, NEW force, NEW retried,
         Again(g, label, force, retried),
         sup[g].first /\ ~sup[g].wasOpen =>
           IF label = "wait" THEN sup[g].attempt + 1 < MaxRetries /\ retried = sup[g].retried
           ELSE retried /\ ~sup[g].retried
  PROVE  \E e : sup' = [sup EXCEPT ![g] = e] /\ Budget(e)
<1> DEFINE s == sup[g]
           e == [Fresh EXCEPT !.pc = label, !.force = force, !.retried = retried,
                    !.first = s.first /\ ~s.wasOpen,
                    !.tries = IF s.wasOpen THEN 0 ELSE s.tries,
                    !.attempt = IF ~s.first \/ s.wasOpen THEN 0
                                ELSE IF label = "wait" THEN s.attempt + 1 ELSE s.attempt]
<1>1. sup' = [sup EXCEPT ![g] = e]
  BY DEF Again
<1>2. /\ DOMAIN e = SupFields /\ e.pc = label /\ e.retried = retried
      /\ e.first = (s.first /\ ~s.wasOpen)
      /\ e.tries = IF s.wasOpen THEN 0 ELSE s.tries
      /\ e.attempt = IF ~s.first \/ s.wasOpen THEN 0
                     ELSE IF label = "wait" THEN s.attempt + 1 ELSE s.attempt
  BY DEF Fresh, SupFields
<1> HIDE DEF e
<1>3. CASE s.first /\ ~s.wasOpen
  <2>1. e.first /\ e.tries = s.tries /\ s.attempt \in Nat /\ s.tries \in Nat
    BY <1>2, <1>3 DEF Budget
  <2>2. s.tries <= s.attempt + (IF s.retried THEN 1 ELSE 0) + 1
    BY <1>3 DEF Budget, Underway
  <2>3. CASE label = "wait"
    <3>1. e.attempt = s.attempt + 1 /\ e.attempt < MaxRetries /\ e.retried = s.retried
      BY <1>2, <1>3, <2>3
    <3>2. e.tries <= e.attempt + (IF e.retried THEN 1 ELSE 0)
      BY <2>1, <2>2, <3>1
    <3>3. Budget(e)
      BY <1>2, <2>1, <3>1, <3>2 DEF Budget, Underway
    <3> QED  BY <1>1, <3>3
  <2>4. CASE label = "loop"
    <3>1. e.attempt = s.attempt /\ e.attempt < MaxRetries /\ e.retried /\ ~s.retried
      BY <1>2, <1>3, <2>4 DEF Budget
    <3>2. e.tries <= e.attempt + (IF e.retried THEN 1 ELSE 0)
      BY <2>1, <2>2, <3>1
    <3>3. Budget(e)
      BY <1>2, <2>1, <3>1, <3>2 DEF Budget, Underway
    <3> QED  BY <1>1, <3>3
  <2> QED  BY <1>1, <2>3, <2>4
<1>4. CASE ~(s.first /\ ~s.wasOpen)
  <2>1. e.tries = 0 /\ ~e.first
    BY <1>2, <1>4 DEF Budget
  <2>2. e.attempt \in Nat
    BY <1>2, <1>4 DEF Budget
  <2> QED  BY <1>1, <1>2, <2>1, <2>2 DEF Budget
<1> QED  BY <1>3, <1>4

\* Every step of a supervisor keeps its budget.
LEMMA SuperviseBudget ==
  ASSUME BudgetInv, NEW g \in Supervisors, Supervise(g) \/ Refuse(g) \/ Drop(g)
  PROVE  \E e : sup' = [sup EXCEPT ![g] = e] /\ Budget(e)
<1> DEFINE d == sup[g]
<1>0. Budget(d) /\ DOMAIN d = SupFields
  BY DEF BudgetInv, Budget
<1>1. ASSUME sup' = [sup EXCEPT ![g] = Dead]
      PROVE  \E e : sup' = [sup EXCEPT ![g] = e] /\ Budget(e)
  BY <1>1, FreshBudget
<1>2. CASE \/ TokenGiven(g) \/ TokenError(g) \/ Create(g) \/ Arm(g) \/ Enter(g) \/ Swap(g)
           \/ Refuse(g) \/ Drop(g)
  BY <1>0, <1>2, PassGoes, GoBudget
<1>3. CASE Loop(g)
  <2>1. CASE self.closing
    BY <1>1, <1>3, <2>1 DEF Loop
  <2>2. CASE ~self.closing
    <3> DEFINE e == [d EXCEPT !.pc = "token", !.tries = IF d.first THEN @ + 1 ELSE @]
    <3>1. sup' = [sup EXCEPT ![g] = e]
      BY <1>3, <2>2 DEF Loop, BudgetInv
    <3>2. /\ DOMAIN e = SupFields /\ e.pc = "token" /\ e.first = d.first
          /\ e.attempt = d.attempt /\ e.retried = d.retried
          /\ e.tries = IF d.first THEN d.tries + 1 ELSE d.tries
      BY <1>0 DEF SupFields
    <3> HIDE DEF e
    <3>3. Budget(e)
      BY <1>0, <1>3, <3>2 DEF Loop, At, Budget, Underway
    <3> QED  BY <3>1, <3>3
  <2> QED  BY <2>1, <2>2
<1>4. CASE TokenRefused(g)
  BY <1>1, <1>4 DEF TokenRefused, Fail
<1>5. CASE Check(g)
  <2>1. CASE self.closing
    BY <1>1, <1>5, <2>1 DEF Check
  <2>2. CASE ~self.closing
    <3> DEFINE e == [d EXCEPT !.pc = IF d.token = "none" THEN "ended" ELSE "create"]
    <3>1. sup' = [sup EXCEPT ![g] = e]
      BY <1>5, <2>2 DEF Check, Goto
    <3>2. Goes(d, e)
      BY <1>0, <1>5 DEF Check, At, Goes, SupFields, Underway
    <3> QED  BY <1>0, <3>1, <3>2, GoBudget
  <2> QED  BY <2>1, <2>2
<1>6. CASE Stopped(g)
  BY <1>1, <1>6 DEF Stopped
<1>7. CASE Reauthorize(g)
  <2>1. CASE Retried(g)
    BY <1>1, <1>7, <2>1 DEF Reauthorize, Fail
  <2>2. CASE ~Retried(g)
    <3>1. Again(g, "loop", TRUE, TRUE) /\ d.pc = "decide"
      BY <1>7, <2>2 DEF Reauthorize, Deciding, At
    <3> QED  BY <1>0, <2>2, <3>1, AgainBudget DEF Retried
  <2> QED  BY <2>1, <2>2
<1>8. CASE RetryConnect(g)
  <2>1. CASE LastAttempt(g)
    BY <1>1, <1>8, <2>1 DEF RetryConnect, GiveUp, Fail
  <2>2. CASE ~LastAttempt(g)
    <3>1. Again(g, "wait", FALSE, d.retried) /\ d.pc = "decide"
      BY <1>8, <2>2 DEF RetryConnect, Deciding, At
    <3>2. d.first => d.attempt + 1 < MaxRetries
      BY <1>0, <2>2, RetriesAssumption DEF LastAttempt, Budget
    <3> QED  BY <1>0, <3>1, <3>2, AgainBudget
  <2> QED  BY <2>1, <2>2
<1>9. CASE Reconnect(g)
  <2>1. d.wasOpen /\ d.pc = "decide"
    BY <1>9 DEF Reconnect, Deciding, At
  <2>2. \/ Again(g, "loop", TRUE, d.retried) \/ Again(g, "wait", FALSE, d.retried)
        \/ Again(g, "wait", FALSE, FALSE) \/ sup' = [sup EXCEPT ![g] = Dead]
    BY <1>9 DEF Reconnect
  <2> QED  BY <1>0, <1>1, <2>1, <2>2, AgainBudget
<1>10. CASE Wait(g)
  <2> DEFINE e == [d EXCEPT !.pc = "loop"]
  <2>1. sup' = [sup EXCEPT ![g] = e]
    BY <1>10 DEF Wait, Goto
  <2>2. /\ DOMAIN e = SupFields /\ e.pc = "loop" /\ e.first = d.first /\ d.pc = "wait"
        /\ e.attempt = d.attempt /\ e.retried = d.retried /\ e.tries = d.tries
    BY <1>0, <1>10 DEF Wait, At, SupFields
  <2> HIDE DEF e
  <2>3. Budget(e)
    BY <1>0, <2>2 DEF Budget, Underway
  <2> QED  BY <2>1, <2>3
<1> QED  BY <1>2, <1>3, <1>4, <1>5, <1>6, <1>7, <1>8, <1>9, <1>10 DEF Supervise

\* The other steps leave the supervisors alone, or start one.
LEMMA StepBudget ==
  ASSUME BudgetInv, [Next]_vars
  PROVE  BudgetInv'
<1>1. CASE Connect
  <2>1. PICK g \in Supervisors : sup' = [sup EXCEPT ![g] = Fresh]
    BY <1>1 DEF Connect
  <2> QED  BY <2>1, FreshBudget, OneBudget
<1>2. CASE ConnectTimeout \/ Disconnect \/ Main \/ User
  BY <1>2 DEF ConnectTimeout, Disconnect, Main, ConnectReady, DisconnectClose, DisconnectJoin,
              DisconnectForget, User, SendCheck, SendFrames, SendRecord, BudgetInv
<1>3. CASE \E i \in Timers : Cycle(i)
  BY <1>3 DEF Cycle, TimerFire, TimerCycle, TimerClose, BudgetInv
<1>4. CASE \E g \in Supervisors : Open(g) \/ Reject(g)
  BY <1>4 DEF Open, Reject, BudgetInv
<1>5. CASE \E g \in Supervisors : Supervise(g) \/ Refuse(g) \/ Drop(g)
  BY <1>5, SuperviseBudget, OneBudget
<1>6. CASE UNCHANGED vars
  BY <1>6 DEF vars, BudgetInv
<1> QED  BY <1>1, <1>2, <1>3, <1>4, <1>5, <1>6 DEF Next, Handshake

LEMMA BudgetBounds ==
  ASSUME BudgetInv
  PROVE  FirstConnectBounded
<1> SUFFICES ASSUME NEW g \in Supervisors PROVE sup[g].tries <= MaxRetries + 1
  BY DEF FirstConnectBounded
<1>1. Budget(sup[g])
  BY DEF BudgetInv
<1> QED  BY <1>1, RetriesAssumption DEF Budget

\* The first connect makes at most max_retries attempts, and one more for the forced
\* refresh: whatever the threads, the server and the provider do, timeouts included.
THEOREM FirstConnectIsBounded == Spec => []FirstConnectBounded
<1>1. Init => BudgetInv
  BY FreshBudget DEF Init, BudgetInv
<1>2. BudgetInv /\ [Next]_vars => BudgetInv'
  BY StepBudget
<1> QED  BY <1>1, <1>2, BudgetBounds, PTL DEF Spec

-----------------------------------------------------------------------------
(* The supervisor does not stop quietly.                                   *)

\* close() asks a socket to end, and changes nothing else.
LEMMA ClosedShape ==
  ASSUME SockShape, sock' = Closed(self.ws)
  PROVE  /\ SockShape'
         /\ \A b \in Apps : /\ sock'[b].state = sock[b].state
                            /\ sock'[b].topics = sock[b].topics
                            /\ ~sock'[b].stop => ~sock[b].stop
BY DEF SockShape, Closed

\* What the steps of _supervise do to the attributes the threads share.
LEMMA SuperviseSelf ==
  ASSUME Shape, NEW g \in Supervisors, Supervise(g)
  PROVE  /\ DOMAIN self' = SelfFields /\ self'.ws \in Apps \union {NoApp}
         /\ self'.supervisor = self.supervisor /\ self'.closing = self.closing
         /\ self'.lastError # self.lastError => self'.lastError # "none" /\ sup' = [sup EXCEPT ![g] = Dead]
<1> USE DEF Shape, SelfShape, SelfFields
<1>1. CASE Loop(g) \/ TokenGiven(g) \/ TokenError(g) \/ TokenRefused(g)
  BY <1>1 DEF Loop, TokenGiven, TokenError, TokenRefused, Fail
<1>2. CASE Check(g) \/ Create(g) \/ Arm(g) \/ Enter(g)
  BY <1>2 DEF Check, Create, Arm, Enter, FreeApps
<1>3. CASE Swap(g) \/ Stopped(g) \/ Wait(g)
  BY <1>3 DEF Swap, Stopped, Wait
<1>4. CASE Reauthorize(g)
  BY <1>4 DEF Reauthorize, Again, Fail
<1>5. CASE RetryConnect(g)
  BY <1>5 DEF RetryConnect, Again, GiveUp, Fail
<1>6. CASE Reconnect(g)
  BY <1>6 DEF Reconnect, Again
<1> QED  BY <1>1, <1>2, <1>3, <1>4, <1>5, <1>6 DEF Supervise

\* Another pass begins where it is told to.
LEMMA AgainGoes ==
  ASSUME Shape, NEW g \in Supervisors, NEW label, NEW force, NEW retried,
         Again(g, label, force, retried)
  PROVE  sup'[g].pc = label /\ sup'[g].app = NoApp
BY DEF Again, Fresh, Shape, BudgetInv

\* ... and to its own supervisor: the thread ends on request, with an error, or
\* because it need not reconnect.
LEMMA SuperviseEnds ==
  ASSUME Shape, NEW g \in Supervisors, Supervise(g)
  PROVE  /\ Alive(g)
         /\ sup'[g].pc = "dead" => self.closing \/ ~AutoReconnect \/ self'.lastError # "none"
<1> USE DEF Shape, BudgetInv, At, Alive
<1>0. DOMAIN sup[g] = SupFields
  BY DEF Budget
<1>1. CASE TokenGiven(g) \/ TokenError(g) \/ Create(g) \/ Arm(g) \/ Enter(g) \/ Swap(g)
  BY <1>1, PassGoes DEF Goes, Underway
<1>2. CASE Loop(g) \/ Check(g)
  <2>1. CASE self.closing
    BY <1>2, <2>1 DEF Loop, Check
  <2>2. CASE ~self.closing
    <3>1. sup'[g].pc # "dead"
      BY <1>0, <1>2, <2>2 DEF Loop, Check, Goto, SupFields
    <3> QED  BY <1>2, <3>1 DEF Loop, Check
  <2> QED  BY <2>1, <2>2
<1>3. CASE TokenRefused(g)
  BY <1>3 DEF TokenRefused, Fail, SelfShape, SelfFields
<1>4. CASE Stopped(g)
  BY <1>4 DEF Stopped
<1>5. CASE Reauthorize(g)
  <2>1. CASE Fail(g, "refused", sup[g].first /\ ~sup[g].wasOpen)
    BY <1>5, <2>1 DEF Reauthorize, Deciding, Fail, SelfShape, SelfFields
  <2>2. CASE Again(g, "loop", TRUE, TRUE)
    <3>1. sup'[g].pc = "loop"
      BY <2>2, AgainGoes
    <3> QED  BY <1>5, <3>1 DEF Reauthorize, Deciding
  <2> QED  BY <1>5, <2>1, <2>2 DEF Reauthorize
<1>6. CASE RetryConnect(g)
  <2>1. CASE Fail(g, "connect", TRUE)
    BY <1>6, <2>1 DEF RetryConnect, Deciding, Fail, SelfShape, SelfFields
  <2>2. CASE Again(g, "wait", FALSE, sup[g].retried)
    <3>1. sup'[g].pc = "wait"
      BY <2>2, AgainGoes
    <3> QED  BY <1>6, <3>1 DEF RetryConnect, Deciding
  <2> QED  BY <1>6, <2>1, <2>2 DEF RetryConnect, GiveUp
<1>7. CASE Reconnect(g)
  <2>1. ASSUME NEW label \in {"loop", "wait"}, NEW force, NEW retried,
               Again(g, label, force, retried)
        PROVE  sup'[g].pc # "dead"
    BY <2>1, AgainGoes
  <2>2. sup'[g].pc = "dead" => ~AutoReconnect
    BY <1>7, <2>1 DEF Reconnect
  <2> QED  BY <1>7, <2>2 DEF Reconnect, Deciding
<1>8. CASE Wait(g)
  BY <1>0, <1>8 DEF Wait, Goto, SupFields
<1> QED  BY <1>1, <1>2, <1>3, <1>4, <1>5, <1>6, <1>7, <1>8 DEF Supervise

\* The shape of the state never changes.
LEMMA StepShape ==
  ASSUME Shape, [Next]_vars
  PROVE  Shape'
<1>0. BudgetInv'
  BY StepBudget DEF Shape
<1>1. CASE Connect \/ ConnectTimeout \/ Disconnect \/ Main
  <2>1. SelfShape'
    BY <1>1 DEF Shape, SelfShape, SelfFields, Connect, ConnectTimeout, Disconnect, Main,
            ConnectReady, DisconnectClose, DisconnectJoin, DisconnectForget
  <2>2. UserShape' /\ (sock' = sock \/ sock' = Closed(self.ws))
    BY <1>1 DEF Shape, UserShape, Connect, ConnectTimeout, Disconnect, Main, ConnectReady,
            DisconnectClose, DisconnectJoin, DisconnectForget
  <2> QED  BY <1>0, <2>1, <2>2, ClosedShape DEF Shape, SockShape
<1>2. CASE User
  <2>1. SelfShape' /\ SockShape'
    BY <1>2 DEF Shape, SelfShape, SockShape, User, SendCheck, SendFrames, SendRecord
  <2>2. UserShape'
    BY <1>2 DEF Shape, SelfShape, UserShape, User, SendCheck, SendFrames, SendRecord, Idle
  <2> QED  BY <1>0, <2>1, <2>2 DEF Shape
<1>3. CASE \E i \in Timers : Cycle(i)
  <2>1. SelfShape' /\ UserShape' /\ (sock' = sock \/ sock' = Closed(self.ws))
    BY <1>3 DEF Shape, SelfShape, SelfFields, UserShape, Cycle, TimerFire, TimerCycle, TimerClose
  <2> QED  BY <1>0, <2>1, ClosedShape DEF Shape, SockShape
<1>4. CASE \E g \in Supervisors : Handshake(g) \/ Reject(g) \/ Drop(g)
  <2>1. SelfShape' /\ UserShape'
    BY <1>4 DEF Shape, SelfShape, SelfFields, UserShape, Handshake, Open, Refuse, Reject,
            Drop, Signalled
  <2>2. SockShape' \/ sock' = Closed(self.ws)
    BY <1>4 DEF Shape, SockShape, Handshake, Open, Refuse, Reject, Drop, NoSocket
  <2> QED  BY <1>0, <2>1, <2>2, ClosedShape DEF Shape
<1>5. CASE \E g \in Supervisors : Supervise(g)
  <2>1. SelfShape'
    BY <1>5, SuperviseSelf DEF Shape, SelfShape
  <2>2. UserShape' /\ (SockShape' \/ sock' = Closed(self.ws))
    BY <1>5 DEF Shape, UserShape, SockShape, Supervise, Loop, TokenGiven,
            TokenError, TokenRefused, Check, Create, Arm, Enter, Swap, Stopped, Reauthorize,
            RetryConnect, Reconnect, Wait
  <2> QED  BY <1>0, <2>1, <2>2, ClosedShape DEF Shape
<1>6. CASE UNCHANGED vars
  BY <1>6, <1>0 DEF vars, Shape, SelfShape, SockShape, UserShape
<1> QED  BY <1>1, <1>2, <1>3, <1>4, <1>5, <1>6 DEF Next

LEMMA InitShape == Init => Shape
BY FreshBudget DEF Init, Shape, SelfShape, SelfFields, SockShape, UserShape, BudgetInv, NoSocket, Idle

\* A step that lets no supervisor but g end, and no error be forgotten.
LEMMA StepNoSilentStop ==
  ASSUME Shape, NoSilentStop, [Next]_vars
  PROVE  NoSilentStop'
<1> USE DEF NoSilentStop, Alive, At
<1>1. CASE Connect
  BY <1>1 DEF Connect, Shape, SelfShape, SelfFields, BudgetInv, Fresh
<1>2. CASE ConnectTimeout \/ Disconnect \/ Main \/ User
  BY <1>2, ThreadsAssumption DEF Shape, SelfShape, SelfFields, ConnectTimeout, Disconnect, Main, ConnectReady,
         DisconnectClose, DisconnectJoin, DisconnectForget, User, SendCheck, SendFrames, SendRecord
<1>3. CASE \E i \in Timers : Cycle(i)
  BY <1>3 DEF Shape, SelfShape, SelfFields, Cycle, TimerFire, TimerCycle, TimerClose
<1>4. ASSUME NEW g \in Supervisors, Handshake(g) \/ Reject(g) \/ Drop(g)
      PROVE  NoSilentStop'
  <2>1. self'.supervisor = self.supervisor /\ self'.closing = self.closing
          /\ self'.lastError = self.lastError
    BY <1>4 DEF Shape, SelfShape, SelfFields, Handshake, Open, Refuse, Reject, Drop, Signalled
  <2>2. CASE Open(g) \/ Reject(g)
    BY <2>1, <2>2 DEF Open, Reject
  <2>3. CASE Refuse(g) \/ Drop(g)
    <3>1. PICK e : sup' = [sup EXCEPT ![g] = e] /\ Goes(sup[g], e)
      BY <2>3, PassGoes DEF Shape
    <3> QED  BY <2>1, <3>1 DEF Shape, SelfShape, BudgetInv, Goes, Underway
  <2> QED  BY <1>4, <2>2, <2>3 DEF Handshake
<1>5. ASSUME NEW g \in Supervisors, Supervise(g)
      PROVE  NoSilentStop'
  <2>1. PICK e : sup' = [sup EXCEPT ![g] = e]
    BY <1>5, SuperviseBudget DEF Shape
  <2> QED  BY <1>5, <2>1, SuperviseSelf, SuperviseEnds DEF Shape, SelfShape, BudgetInv
<1>6. CASE UNCHANGED vars
  BY <1>6 DEF vars
<1> QED  BY <1>1, <1>2, <1>3, <1>4, <1>5, <1>6 DEF Next

\* The supervisor never ends without an error unless it was told to stop: under
\* timeouts as well, when an old supervisor may still run beside the new one.
THEOREM NeverStopsSilently == Spec => []NoSilentStop
<1>1. Init => Shape /\ NoSilentStop
  BY InitShape DEF Init, NoSilentStop
<1>2. Shape /\ NoSilentStop /\ [Next]_vars => Shape' /\ NoSilentStop'
  BY StepShape, StepNoSilentStop
<1> QED  BY <1>1, <1>2, PTL DEF Spec

-----------------------------------------------------------------------------
(* One supervisor, one socket.                                             *)

\* Only Connect starts a thread; the others at most end their own.
LEMMA StepAlone ==
  ASSUME Shape, Alone, ~Timeouts, [Next]_vars
  PROVE  Alone'
<1> USE DEF Alone, Alive, At
<1>1. CASE Connect
  <2>1. PICK g \in Supervisors : sup' = [sup EXCEPT ![g] = Fresh] /\ self'.supervisor = g
    BY <1>1 DEF Connect, Shape, SelfShape, SelfFields
  <2>2. \A h \in Supervisors : sup[h].pc = "dead"
    BY <1>1, ThreadsAssumption DEF Connect, Startable, Supervised
  <2> QED  BY <1>1, <2>1, <2>2 DEF Connect, Shape, BudgetInv
<1>2. CASE DisconnectJoin
  BY <1>2, ThreadsAssumption DEF DisconnectJoin, Joined, Supervised
<1>3. CASE DisconnectForget
  BY <1>3 DEF DisconnectForget
<1>4. CASE ConnectTimeout \/ Disconnect \/ ConnectReady \/ DisconnectClose \/ User
  BY <1>4 DEF Shape, SelfShape, SelfFields, ConnectTimeout, Disconnect, ConnectReady,
         DisconnectClose, User, SendCheck, SendFrames, SendRecord
<1>5. CASE \E i \in Timers : Cycle(i)
  BY <1>5 DEF Shape, SelfShape, SelfFields, Cycle, TimerFire, TimerCycle, TimerClose
<1>6. ASSUME NEW g \in Supervisors, Handshake(g) \/ Reject(g) \/ Drop(g)
      PROVE  Alone'
  <2>1. self'.supervisor = self.supervisor /\ main' = main
    BY <1>6 DEF Shape, SelfShape, SelfFields, Handshake, Open, Refuse, Reject, Drop, Signalled
  <2>2. CASE Open(g) \/ Reject(g)
    BY <2>1, <2>2 DEF Open, Reject
  <2>3. CASE Refuse(g) \/ Drop(g)
    <3>1. PICK e : sup' = [sup EXCEPT ![g] = e] /\ Goes(sup[g], e)
      BY <2>3, PassGoes DEF Shape
    <3> QED  BY <2>1, <3>1 DEF Shape, BudgetInv, Goes, Underway
  <2> QED  BY <1>6, <2>2, <2>3 DEF Handshake
<1>7. ASSUME NEW g \in Supervisors, Supervise(g)
      PROVE  Alone'
  <2>1. PICK e : sup' = [sup EXCEPT ![g] = e]
    BY <1>7, SuperviseBudget DEF Shape
  <2>2. main' = main
    BY <1>7 DEF Supervise, Loop, TokenGiven, TokenError, TokenRefused, Check, Create, Arm, Enter,
            Swap, Stopped, Reauthorize, RetryConnect, Reconnect, Wait
  <2> QED  BY <1>7, <2>1, <2>2, SuperviseSelf, SuperviseEnds DEF Shape, BudgetInv
<1>8. CASE UNCHANGED vars
  BY <1>8 DEF vars
<1> QED  BY <1>1, <1>2, <1>3, <1>4, <1>5, <1>6, <1>7, <1>8 DEF Next, Main

\* Only Enter begins to run a socket, and only the steps of the socket stop.
LEMMA SuperviseRuns ==
  ASSUME Shape, NEW g \in Supervisors, Supervise(g)
  PROVE  /\ sup[g].pc # "run"
         /\ sup'[g].pc = "run" => Enter(g) /\ Runnable /\ sup'[g].app = self.ws
<1> USE DEF Shape, BudgetInv, At
<1>0. DOMAIN sup[g] = SupFields
  BY DEF Budget
<1>1. CASE TokenGiven(g) \/ TokenError(g)
  BY <1>0, <1>1 DEF TokenGiven, TokenError, Goto, SupFields
<1>2. CASE Create(g) \/ Swap(g) \/ Wait(g)
  BY <1>0, <1>2 DEF Create, Swap, Wait, Goto, SupFields
<1>9. CASE Arm(g)
  BY <1>0, <1>9 DEF Arm, Goto, SupFields
<1>3. CASE Enter(g)
  BY <1>0, <1>3 DEF Enter, Ended, SupFields
<1>4. CASE Loop(g) \/ Check(g)
  <2>1. CASE self.closing
    BY <1>4, <2>1 DEF Loop, Check, Dead, Fresh
  <2>2. CASE ~self.closing
    BY <1>0, <1>4, <2>2 DEF Loop, Check, Goto, SupFields
  <2> QED  BY <2>1, <2>2
<1>5. CASE TokenRefused(g) \/ Stopped(g)
  BY <1>5 DEF TokenRefused, Stopped, Fail, Dead, Fresh
<1>6. CASE Reauthorize(g)
  <2>1. CASE Fail(g, "refused", sup[g].first /\ ~sup[g].wasOpen)
    BY <1>6, <2>1 DEF Reauthorize, Deciding, Fail, Dead, Fresh
  <2>2. CASE Again(g, "loop", TRUE, TRUE)
    <3>1. sup'[g].pc = "loop"
      BY <2>2, AgainGoes
    <3> QED  BY <1>6, <3>1 DEF Reauthorize, Deciding
  <2> QED  BY <1>6, <2>1, <2>2 DEF Reauthorize
<1>7. CASE RetryConnect(g)
  <2>1. CASE Fail(g, "connect", TRUE)
    BY <1>7, <2>1 DEF RetryConnect, Deciding, Fail, Dead, Fresh
  <2>2. CASE Again(g, "wait", FALSE, sup[g].retried)
    <3>1. sup'[g].pc = "wait"
      BY <2>2, AgainGoes
    <3> QED  BY <1>7, <3>1 DEF RetryConnect, Deciding
  <2> QED  BY <1>7, <2>1, <2>2 DEF RetryConnect, GiveUp
<1>8. CASE Reconnect(g)
  <2>1. ASSUME NEW label \in {"loop", "wait"}, NEW force, NEW retried,
               Again(g, label, force, retried)
        PROVE  sup'[g].pc # "run"
    BY <2>1, AgainGoes
  <2>2. ASSUME sup' = [sup EXCEPT ![g] = Dead]
        PROVE  sup'[g].pc # "run"
    BY <2>2 DEF Dead, Fresh
  <2>3. sup'[g].pc # "run"
    <3>1. \/ \E label \in {"loop", "wait"} : \E force, retried : Again(g, label, force, retried)
          \/ sup' = [sup EXCEPT ![g] = Dead]
      BY <1>8 DEF Reconnect
    <3> QED  BY <2>1, <2>2, <3>1
  <2> QED  BY <1>8, <2>3 DEF Reconnect, Deciding
<1> QED  BY <1>1, <1>2, <1>3, <1>4, <1>5, <1>6, <1>7, <1>8, <1>9 DEF Supervise

\* A step keeps the sockets held if it changes no socket's state and no thread that
\* runs one.
LEMMA HeldAnyway ==
  ASSUME Held,
         \A a \in Apps : sock'[a].state = sock[a].state,
         \A g \in Supervisors :
           /\ sup'[g].pc = "run" <=> sup[g].pc = "run"
           /\ sup[g].pc = "run" => sup'[g].app = sup[g].app /\ self'.ws = self.ws
  PROVE  Held'
BY DEF Held, At, Live

\* Two alive supervisors are one.
LEMMA AloneIsOne ==
  ASSUME Alone, NEW g \in Supervisors, Alive(g), NEW h \in Supervisors, Alive(h)
  PROVE  g = h
BY DEF Alone

LEMMA SuperviseHeld ==
  ASSUME Shape, Alone, Held, NEW g \in Supervisors, Supervise(g)
  PROVE  Held'
<1>1. PICK e : sup' = [sup EXCEPT ![g] = e]
  BY SuperviseBudget DEF Shape
<1>2. /\ \A h \in Supervisors : h # g => sup'[h] = sup[h] /\ sup[h].pc # "run"
      /\ sup[g].pc # "run"
  BY <1>1, SuperviseEnds, SuperviseRuns, AloneIsOne DEF Alive, At
<1>3. \A a \in Apps : ~Live(a)
  BY <1>2 DEF Held, At
<1>4. CASE Enter(g) /\ Runnable /\ sup'[g].pc = "run"
  <2>1. sup'[g].app = self.ws /\ self'.ws = self.ws /\ self.ws \in Apps
    BY <1>4, SuperviseRuns DEF Enter, Runnable, Shape, SelfShape
  <2>2. sock' = [sock EXCEPT ![self.ws].state = "connecting", ![self.ws].stop = FALSE]
    BY <1>4, SuperviseRuns DEF Enter, Runnable
  <2>3. sock'[self.ws].state = "connecting" /\ \A a \in Apps : a # self.ws => sock'[a] = sock[a]
    BY <2>1, <2>2 DEF Shape, SockShape
  <2> QED  BY <1>2, <1>3, <1>4, <2>1, <2>3 DEF Held, At, Live
<1>5. CASE sup'[g].pc # "run"
  <2>1. \/ sock' = sock \/ sock' = Closed(self.ws)
        \/ \E a \in Apps : sock' = [sock EXCEPT ![a] = [state |-> "new", stop |-> FALSE, topics |-> {}]]
        \/ Enter(g) /\ Runnable
    BY DEF Supervise, Loop, TokenGiven, TokenError, TokenRefused, Check, Create, Arm, Enter,
            Swap, Stopped, Reauthorize, RetryConnect, Reconnect, Wait, FreeApps
  <2>2. Enter(g) /\ Runnable => sock' = sock
    <3>1. DOMAIN sup[g] = SupFields /\ sup = [h \in Supervisors |-> sup[h]]
      BY DEF Shape, BudgetInv, Budget
    <3>2. sup' = [sup EXCEPT ![g].pc = "run", ![g].app = self.ws] => sup'[g].pc = "run"
      BY <3>1 DEF SupFields
    <3> QED  BY <1>5, <3>2 DEF Enter
  <2>3. \A a \in Apps : sock'[a].state = sock[a].state \/ sock'[a].state = "new"
    <3>1. ASSUME sock' = Closed(self.ws) PROVE \A a \in Apps : sock'[a].state = sock[a].state
      BY <3>1, ClosedShape DEF Shape
    <3> QED  BY <2>1, <2>2, <3>1 DEF Shape, SockShape
  <2> QED  BY <1>2, <1>3, <1>5, <2>3 DEF Held, At, Live
<1> QED  BY <1>4, <1>5, SuperviseRuns

LEMMA StepHeld ==
  ASSUME Shape, Alone, Held, [Next]_vars
  PROVE  Held'
<1>1. CASE Connect
  <2>1. PICK g \in Supervisors : sup' = [sup EXCEPT ![g] = Fresh] /\ At(g, "dead")
    BY <1>1 DEF Connect
  <2>2. self'.ws = self.ws /\ sock' = sock
    BY <1>1 DEF Connect, Shape, SelfShape, SelfFields
  <2> QED  BY <2>1, <2>2, HeldAnyway DEF At, Fresh, Shape, BudgetInv
<1>2. CASE DisconnectForget
  BY <1>2 DEF DisconnectForget, Alone, Alive, At, Held, Live
<1>3. CASE ConnectTimeout \/ Disconnect \/ ConnectReady \/ DisconnectClose \/ DisconnectJoin
             \/ SendCheck \/ SendRecord \/ (\E i \in Timers : Cycle(i))
             \/ (\E g \in Supervisors : Reject(g))
  <2>1. self'.ws = self.ws /\ sup' = sup /\ (sock' = sock \/ sock' = Closed(self.ws))
    BY <1>3 DEF Shape, SelfShape, SelfFields, ConnectTimeout, Disconnect, ConnectReady,
         DisconnectClose, DisconnectJoin, SendCheck, SendRecord, Cycle, TimerFire, TimerCycle,
         TimerClose, Reject
  <2>2. \A a \in Apps : sock'[a].state = sock[a].state
    BY <2>1, ClosedShape DEF Shape
  <2> QED  BY <2>1, <2>2, HeldAnyway
<1>4. CASE SendFrames
  <2>1. self'.ws = self.ws /\ sup' = sup /\ \A a \in Apps : sock'[a].state = sock[a].state
    BY <1>4 DEF SendFrames, Shape, SockShape
  <2> QED  BY <2>1, HeldAnyway
<1>5. ASSUME NEW g \in Supervisors, Open(g)
      PROVE  Held'
  <2>1. sup[g].app = self.ws /\ self.ws \in Apps /\ sup[g].pc = "run"
    BY <1>5 DEF Open, Connecting, At, Held
  <2>2. PICK sent \in SUBSET book : sock' = [sock EXCEPT ![self.ws] =
          [state |-> "open", stop |-> sock[self.ws].stop \/ sent # book, topics |-> sent]]
    BY <1>5, <2>1 DEF Open
  <2>3. sup' = sup /\ self'.ws = self.ws
    BY <1>5 DEF Open, Signalled, Shape, SelfShape, SelfFields
  <2> QED  BY <2>1, <2>2, <2>3 DEF Held, At, Live, Shape, SockShape
<1>6. ASSUME NEW g \in Supervisors, Refuse(g) \/ Drop(g)
      PROVE  Held'
  <2>1. sock' = [sock EXCEPT ![sup[g].app] = NoSocket] /\ sup[g].pc = "run" /\ Ended(g)
          /\ sup[g].app = self.ws /\ self.ws \in Apps
    BY <1>6 DEF Refuse, Drop, Connecting, Serving, At, Held
  <2>2. sup'[g].pc # "run" /\ \A h \in Supervisors : h # g => sup'[h] = sup[h] /\ sup[h].pc # "run"
    <3>1. DOMAIN sup[g] = SupFields /\ sup = [h \in Supervisors |-> sup[h]]
      BY DEF Shape, BudgetInv, Budget
    <3> QED  BY <2>1, <3>1, AloneIsOne DEF Ended, SupFields, Alive, At
  <2>3. \A a \in Apps : ~Live(a)'
    BY <2>1 DEF Held, Live, NoSocket, Shape, SockShape
  <2> QED  BY <2>2, <2>3 DEF Held, At
<1>7. CASE \E g \in Supervisors : Supervise(g)
  BY <1>7, SuperviseHeld
<1>8. CASE UNCHANGED vars
  BY <1>8, HeldAnyway DEF vars
<1> QED  BY <1>1, <1>2, <1>3, <1>4, <1>5, <1>6, <1>7, <1>8 DEF Next, Main, User, Handshake

-----------------------------------------------------------------------------
(* The book and the server agree.                                          *)

\* The socket of a request under way may have ended, but no other socket is open.
LEMMA StepTracked ==
  ASSUME Shape, Alone, Held, Tracked, [Next]_vars
  PROVE  Tracked'
<1> DEFINE Calm == /\ book' = book /\ overtaken' = overtaken
                   /\ \A a \in Apps : sock'[a].state = "open" /\ ~sock'[a].stop =>
                        /\ sock[a].state = "open" /\ ~sock[a].stop
                        /\ sock'[a].topics = sock[a].topics
<1>1. ASSUME Calm, user' = user \/ (user.pc # "record" /\ user'.pc # "record")
      PROVE  Tracked'
  BY <1>1 DEF Tracked, Recorded
<1> HIDE DEF Calm
<1>2. ASSUME sock' = sock \/ sock' = Closed(self.ws), book' = book, overtaken' = overtaken
      PROVE  Calm
  BY <1>2, ClosedShape DEF Shape, Calm
<1>3. CASE Connect \/ ConnectTimeout \/ Disconnect \/ ConnectReady \/ DisconnectClose
             \/ DisconnectJoin \/ SendCheck \/ (\E i \in Timers : Cycle(i))
             \/ (\E g \in Supervisors : Reject(g))
  <2>1. (sock' = sock \/ sock' = Closed(self.ws)) /\ book' = book /\ overtaken' = overtaken
    BY <1>3 DEF Connect, ConnectTimeout, Disconnect, ConnectReady, DisconnectClose,
         DisconnectJoin, SendCheck, Cycle, TimerFire, TimerCycle, TimerClose, Reject
  <2>2. CASE SendCheck
    <3>1. user.pc = "idle" /\ user'.pc = "send"
      BY <2>2 DEF SendCheck
    <3> QED  BY <2>1, <3>1, <1>1, <1>2
  <2>3. CASE ~SendCheck
    <3>1. user' = user
      BY <1>3, <2>3 DEF Connect, ConnectTimeout, Disconnect, ConnectReady, DisconnectClose,
           DisconnectJoin, Cycle, TimerFire, TimerCycle, TimerClose, Reject
    <3> QED  BY <2>1, <3>1, <1>1, <1>2
  <2> QED  BY <2>2, <2>3
<1>4. CASE DisconnectForget
  <2>1. \A a \in Apps : ~Live(a)
    BY <1>4 DEF DisconnectForget, Alone, Alive, Held, At
  <2> QED  BY <1>4, <2>1 DEF DisconnectForget, Tracked, Live
<1>5. CASE SendFrames
  <2>1. CASE user' = Idle /\ sock' = sock
    BY <1>1, <1>2, <1>5, <2>1 DEF SendFrames, Idle
  <2>2. CASE /\ sock[user.app].state = "open"
             /\ sock' = [sock EXCEPT ![user.app].topics = Apply(user.method, user.topics, @)]
             /\ user' = [user EXCEPT !.pc = "record"]
    <3>1. user.app \in Apps /\ user.pc = "send" /\ \A a \in Apps : Live(a) => a = user.app
      BY <1>5, <2>2 DEF SendFrames, Shape, UserShape, Held, Live
    <3>2. /\ user'.pc = "record" /\ user'.app = user.app
          /\ user'.method = user.method /\ user'.topics = user.topics
      BY <2>2 DEF Shape, UserShape
    <3>3. book' = book /\ overtaken' = overtaken
      BY <1>5 DEF SendFrames
    <3>4. \A a \in Apps : sock'[a].state = sock[a].state /\ sock'[a].stop = sock[a].stop
      BY <2>2 DEF Shape, SockShape
    <3>5. sock'[user.app].topics = Apply(user.method, user.topics, sock[user.app].topics)
      BY <2>2, <3>1 DEF Shape, SockShape
    <3> QED  BY <3>1, <3>2, <3>3, <3>4, <3>5 DEF Tracked, Recorded, Live
  <2> QED  BY <1>5, <2>1, <2>2 DEF SendFrames
<1>6. CASE SendRecord
  BY <1>6 DEF SendRecord, Tracked, Idle
<1>7. ASSUME NEW g \in Supervisors, Open(g)
      PROVE  Tracked'
  <2>1. sup[g].app = self.ws /\ self.ws \in Apps /\ \A a \in Apps : Live(a) => a = self.ws
    BY <1>7 DEF Open, Connecting, At, Held
  <2>2. PICK sent \in SUBSET book : sock' = [sock EXCEPT ![self.ws] =
          [state |-> "open", stop |-> sock[self.ws].stop \/ sent # book, topics |-> sent]]
    BY <1>7, <2>1 DEF Open
  <2>3. book' = book /\ user' = user /\ overtaken' = (user.pc = "record")
    BY <1>7 DEF Open
  <2> QED  BY <2>1, <2>2, <2>3 DEF Tracked, Live, Shape, SockShape
<1>8. ASSUME NEW g \in Supervisors, Refuse(g) \/ Drop(g)
      PROVE  Tracked'
  <2>1. Calm /\ user' = user
    BY <1>8 DEF Refuse, Drop, NoSocket, Calm, Shape, SockShape
  <2> QED  BY <2>1, <1>1
<1>9. ASSUME NEW g \in Supervisors, Supervise(g)
      PROVE  Tracked'
  <2>1. /\ book' = book /\ overtaken' = overtaken /\ user' = user
        /\ \/ sock' = sock \/ sock' = Closed(self.ws)
           \/ \E a \in Apps : sock' = [sock EXCEPT ![a] = [state |-> "new", stop |-> FALSE, topics |-> {}]]
           \/ Runnable /\ sock' = [sock EXCEPT ![self.ws].state = "connecting", ![self.ws].stop = FALSE]
    BY <1>9 DEF Supervise, Loop, TokenGiven, TokenError, TokenRefused, Check, Create, Arm, Enter,
            Swap, Stopped, Reauthorize, RetryConnect, Reconnect, Wait, FreeApps
  <2>2. CASE \E a \in Apps : sock' = [sock EXCEPT ![a] = [state |-> "new", stop |-> FALSE, topics |-> {}]]
    BY <1>1, <2>1, <2>2 DEF Calm, Shape, SockShape
  <2>3. CASE Runnable /\ sock' = [sock EXCEPT ![self.ws].state = "connecting", ![self.ws].stop = FALSE]
    BY <1>1, <2>1, <2>3 DEF Calm, Shape, SelfShape, SockShape, Runnable
  <2> QED  BY <1>1, <1>2, <2>1, <2>2, <2>3
<1>10. CASE UNCHANGED vars
  BY <1>10, <1>1, <1>2 DEF vars
<1> QED  BY <1>3, <1>4, <1>5, <1>6, <1>7, <1>8, <1>9, <1>10 DEF Next, Main, User, Handshake

LEMMA InitIInv == Init => IInv
<1> SUFFICES ASSUME Init PROVE IInv
  OBVIOUS
<1>1. \A g \in Supervisors : sup[g].pc = "dead"
  BY DEF Init, Dead, Fresh
<1>2. \A a \in Apps : sock[a].state = "closed"
  BY DEF Init, NoSocket
<1>3. Alone /\ Held /\ Tracked
  BY <1>1, <1>2 DEF Init, Alone, Alive, At, Held, Live, Tracked
<1> QED  BY <1>3, InitShape DEF IInv

\* IInv is inductive as long as nobody gives up waiting for a thread.
LEMMA StepIInv ==
  ASSUME ~Timeouts, IInv, [Next]_vars
  PROVE  IInv'
BY StepShape, StepAlone, StepHeld, StepTracked DEF IInv

LEMMA AlwaysIInv ==
  ASSUME ~Timeouts
  PROVE  Spec => []IInv
<1>1. IInv /\ [Next]_vars => IInv'
  BY StepIInv
<1> QED  BY <1>1, InitIInv, PTL DEF Spec

\* Without timeouts of connect() and of the join, at most one socket lives at any time,
\* across reconnects, cycles and disconnect() followed by connect().
THEOREM OneSocketOnly ==
  ASSUME ~Timeouts
  PROVE  Spec => []OneSocket
<1>1. IInv => OneSocket
  BY DEF IInv, Held, OneSocket
<1> QED  BY <1>1, AlwaysIInv, PTL

\* Under the same condition disconnect() leaves neither a thread nor a socket.
THEOREM DisconnectLeavesNothing ==
  ASSUME ~Timeouts
  PROVE  Spec => []DisconnectStops
<1>1. IInv => DisconnectStops
  BY ThreadsAssumption DEF IInv, Alone, Held, Alive, At, DisconnectStops
<1> QED  BY <1>1, AlwaysIInv, PTL

\* Under the same condition the server has subscribed what the book holds, unless the
\* restore overtook a request that was sent but not recorded.
THEOREM SubscriptionsRestored ==
  ASSUME ~Timeouts
  PROVE  Spec => []RestoredUnlessOvertaken
<1>1. IInv => RestoredUnlessOvertaken
  BY DEF IInv, Shape, SelfShape, Tracked, RestoredUnlessOvertaken, Restored, Quiet
<1> QED  BY <1>1, AlwaysIInv, PTL

-----------------------------------------------------------------------------
(* The type of every variable.                                             *)

Errors   == {"none", "reauthenticate", "refused", "connect"}
Refusals == {"none", "auth", "other"}
SelfType == [ws : Apps \union {NoApp}, supervisor : Supervisors \union {NoSupervisor},
             closing : BOOLEAN, opened : BOOLEAN, openSeen : BOOLEAN, ready : BOOLEAN,
             readyError : Errors, lastError : Errors, rejection : Refusals, status : Refusals,
             cycle : BOOLEAN, firstConnect : BOOLEAN]
SockType == [state : {"new", "connecting", "open", "closed"}, stop : BOOLEAN,
             topics : SUBSET Topics]
\* The bound on the passes comes from the budget.
SupType  == [pc : Labels, first : BOOLEAN, attempt : 0..(MaxRetries - 1), retried : BOOLEAN,
             force : BOOLEAN, token : {"none", "held", "fresh"}, app : Apps \union {NoApp},
             timer : Timers \union {NoTimer}, wasOpen : BOOLEAN, tries : Nat]
UserType == [pc : {"idle", "send", "record"}, app : Apps \union {NoApp},
             method : {"subscribe", "unsubscribe"}, topics : SUBSET Topics]
Shared == /\ self \in SelfType /\ book \subseteq Topics /\ user \in UserType
          /\ sock \in [Apps -> SockType] /\ overtaken \in BOOLEAN
          /\ main \in {"idle", "connecting", "disconnect", "close", "join", "forget"}
Threads == /\ sup \in [Supervisors -> SupType]
           /\ timer \in [Timers -> {"idle", "armed", "fired", "close"}]

LEMMA TypeParts ==
  ASSUME Shared, Threads, BudgetInv
  PROVE  TypeOK
<1>1. ASSUME NEW g \in Supervisors PROVE sup[g].tries \in 0..(MaxRetries + 1)
  <2>1. sup[g].tries \in Nat /\ sup[g].tries <= MaxRetries + 1
    BY BudgetBounds DEF FirstConnectBounded, Threads, SupType
  <2> QED  BY <2>1, RetriesAssumption
<1>2. sup \in [Supervisors ->
       [pc : Labels, first : BOOLEAN, attempt : 0..(MaxRetries - 1), retried : BOOLEAN,
        force : BOOLEAN, token : {"none", "held", "fresh"}, app : Apps \union {NoApp},
        timer : Timers \union {NoTimer}, wasOpen : BOOLEAN, tries : 0..(MaxRetries + 1)]]
  BY <1>1 DEF Threads, SupType
<1> QED  BY <1>2 DEF TypeOK, Shared, Threads, SelfType, SockType, UserType, Errors, Refusals

LEMMA FreshTyped == Fresh \in SupType /\ Dead \in SupType
<1>1. 0 \in 0..(MaxRetries - 1) /\ 0 \in Nat
  BY RetriesAssumption
<1> QED  BY <1>1 DEF Fresh, Dead, SupType, Labels

LEMMA ClosedTyped ==
  ASSUME sock \in [Apps -> SockType], sock' = Closed(self.ws)
  PROVE  sock' \in [Apps -> SockType]
BY DEF Closed, SockType

LEMMA EndedTyped ==
  ASSUME Threads, NEW g \in Supervisors, Ended(g)
  PROVE  Threads'
<1>1. [sup[g] EXCEPT !.pc = "ended", !.timer = NoTimer] \in SupType
  BY DEF Threads, SupType, Labels
<1>2. sup' = [sup EXCEPT ![g] = [sup[g] EXCEPT !.pc = "ended", !.timer = NoTimer]]
  BY DEF Ended, Threads, SupType
<1>3. sup' \in [Supervisors -> SupType]
  BY <1>1, <1>2 DEF Threads
<1> QED  BY <1>3 DEF Ended, Threads

LEMMA FailTyped ==
  ASSUME self \in SelfType, sup \in [Supervisors -> SupType], NEW g \in Supervisors,
         NEW error \in Errors, NEW first \in BOOLEAN, Fail(g, error, first)
  PROVE  self' \in SelfType /\ sup' \in [Supervisors -> SupType]
BY FreshTyped DEF Fail, SelfType

\* The count of attempts goes on only while another one is allowed.
LEMMA AgainTyped ==
  ASSUME sup \in [Supervisors -> SupType], NEW g \in Supervisors,
         NEW label \in {"loop", "wait"}, NEW force \in BOOLEAN, NEW retried \in BOOLEAN,
         Again(g, label, force, retried),
         label = "wait" /\ ~sup[g].wasOpen => ~LastAttempt(g)
  PROVE  self' = self /\ sup' \in [Supervisors -> SupType]
<1> DEFINE s == sup[g]
           attempt == IF ~s.first \/ s.wasOpen THEN 0
                      ELSE IF label = "wait" THEN s.attempt + 1 ELSE s.attempt
           tries == IF s.wasOpen THEN 0 ELSE s.tries
           first == s.first /\ ~s.wasOpen
           e == [Fresh EXCEPT !.pc = label, !.force = force, !.retried = retried,
                    !.first = first, !.tries = tries, !.attempt = attempt]
<1>0. s \in SupType
  OBVIOUS
<1>1. sup' = [sup EXCEPT ![g] = e] /\ self' = self
  BY DEF Again
<1>2. attempt \in 0..(MaxRetries - 1)
  BY <1>0, RetriesAssumption DEF SupType, LastAttempt
<1>3. tries \in Nat /\ first \in BOOLEAN
  BY <1>0 DEF SupType
<1> HIDE DEF attempt, tries, first
<1>4. e \in SupType
  BY <1>2, <1>3, FreshTyped DEF SupType, Labels
<1> HIDE DEF e
<1> QED  BY <1>1, <1>4

LEMMA SuperviseTyped ==
  ASSUME Shared, Threads, NEW g \in Supervisors, Supervise(g)
  PROVE  Shared' /\ Threads'
<1>0. /\ sup \in [Supervisors -> SupType] /\ sup[g] \in SupType /\ sup[g].first \in BOOLEAN
      /\ sup[g].retried \in BOOLEAN /\ sup[g].wasOpen \in BOOLEAN
      /\ self \in SelfType /\ sock \in [Apps -> SockType]
      /\ timer \in [Timers -> {"idle", "armed", "fired", "close"}]
  BY DEF Shared, Threads, SupType
<1>d. Dead \in SupType
  BY FreshTyped
<1>1. CASE Loop(g)
  <2>1. sup' \in [Supervisors -> SupType]
    BY <1>0, <1>1, <1>d DEF Loop, SupType, Labels
  <2> QED  BY <1>1, <2>1 DEF Loop, Shared, Threads
<1>2. CASE TokenGiven(g) \/ TokenError(g) \/ Wait(g)
  <2>1. sup' \in [Supervisors -> SupType]
    BY <1>0, <1>2 DEF TokenGiven, TokenError, Wait, Goto, SupType, Labels
  <2> QED  BY <1>2, <2>1 DEF TokenGiven, TokenError, Wait, Shared, Threads
<1>3. CASE TokenRefused(g)
  <2>1. self' \in SelfType /\ sup' \in [Supervisors -> SupType]
    BY <1>0, <1>3, FailTyped DEF TokenRefused, Errors
  <2> QED  BY <1>3, <2>1 DEF TokenRefused, Shared, Threads
<1>4. CASE Check(g)
  <2>1. sup' \in [Supervisors -> SupType]
    BY <1>0, <1>4, <1>d DEF Check, Goto, SupType, Labels
  <2>2. self' \in SelfType
    BY <1>0, <1>4 DEF Check, SelfType, Refusals
  <2> QED  BY <1>4, <2>1, <2>2 DEF Check, Shared, Threads
<1>5. CASE Create(g)
  <2>1. sup' \in [Supervisors -> SupType]
    BY <1>0, <1>5 DEF Create, Goto, SupType, Labels
  <2>2. PICK a \in FreeApps :
          /\ self' = [self EXCEPT !.ws = a, !.firstConnect = sup[g].first]
          /\ sock' = [sock EXCEPT ![a] = [state |-> "new", stop |-> FALSE, topics |-> {}]]
    BY <1>5 DEF Create
  <2>3. self' \in SelfType
    BY <1>0, <2>2 DEF SelfType, FreeApps
  <2>4. sock' \in [Apps -> SockType]
    BY <1>0, <2>2 DEF SockType
  <2> QED  BY <1>5, <2>1, <2>3, <2>4 DEF Create, Shared, Threads
<1>6. CASE Arm(g)
  <2>1. sup' \in [Supervisors -> SupType]
    BY <1>0, <1>6 DEF Arm, Goto, FreeTimers, SupType, Labels
  <2>2. timer' \in [Timers -> {"idle", "armed", "fired", "close"}]
    BY <1>0, <1>6 DEF Arm, FreeTimers
  <2> QED  BY <1>6, <2>1, <2>2 DEF Arm, Shared, Threads
<1>7. CASE Enter(g)
  <2>1. CASE Ended(g) /\ sock' = sock
    BY <1>7, <2>1, EndedTyped DEF Enter, Shared
  <2>2. CASE /\ sock' = [sock EXCEPT ![self.ws].state = "connecting", ![self.ws].stop = FALSE]
             /\ sup' = [sup EXCEPT ![g].pc = "run", ![g].app = self.ws]
             /\ UNCHANGED timer
    <3>1. sock' \in [Apps -> SockType]
      BY <1>0, <2>2 DEF SockType
    <3>2. sup' \in [Supervisors -> SupType]
      BY <1>0, <2>2 DEF SelfType, SupType, Labels
    <3> QED  BY <1>7, <2>2, <3>1, <3>2 DEF Enter, Shared, Threads
  <2> QED  BY <1>7, <2>1, <2>2 DEF Enter
<1>8. CASE Swap(g)
  <2>1. sup' \in [Supervisors -> SupType]
    BY <1>0, <1>8 DEF Swap, SelfType, SupType, Labels
  <2>2. self' \in SelfType
    BY <1>0, <1>8 DEF Swap, SelfType
  <2> QED  BY <1>0, <1>8, <2>1, <2>2, ClosedTyped DEF Swap, Shared, Threads
<1>9. CASE Stopped(g)
  <2>1. sup' \in [Supervisors -> SupType]
    BY <1>0, <1>9, <1>d DEF Stopped
  <2> QED  BY <1>9, <2>1 DEF Stopped, Shared, Threads
<1>10. CASE Reauthorize(g) \/ RetryConnect(g) \/ Reconnect(g)
  <2>1. ASSUME self' = self, sup' = [sup EXCEPT ![g] = Dead]
        PROVE  self' \in SelfType /\ sup' \in [Supervisors -> SupType]
    BY <1>0, <1>d, <2>1
  <2>3. ASSUME NEW label \in {"loop", "wait"}, NEW force \in BOOLEAN, NEW retried \in BOOLEAN,
               Again(g, label, force, retried),
               label = "wait" /\ ~sup[g].wasOpen => ~LastAttempt(g)
        PROVE  self' \in SelfType /\ sup' \in [Supervisors -> SupType]
    BY <1>0, <2>3, AgainTyped
  <2>4. self' \in SelfType /\ sup' \in [Supervisors -> SupType]
    <3>1. CASE Reauthorize(g)
      <4>1. Fail(g, "refused", sup[g].first /\ ~sup[g].wasOpen) \/ Again(g, "loop", TRUE, TRUE)
        BY <3>1 DEF Reauthorize
      <4>2. (sup[g].first /\ ~sup[g].wasOpen) \in BOOLEAN
        OBVIOUS
      <4> QED  BY <1>0, <2>3, <4>1, <4>2, FailTyped DEF Errors
    <3>2. CASE RetryConnect(g)
      <4>1. GiveUp(g) \/ (~LastAttempt(g) /\ Again(g, "wait", FALSE, sup[g].retried))
        BY <3>2 DEF RetryConnect
      <4> QED  BY <1>0, <2>3, <4>1, FailTyped DEF GiveUp, Errors
    <3>3. CASE Reconnect(g)
      <4>1. \/ Again(g, "loop", TRUE, sup[g].retried)
            \/ Again(g, "wait", FALSE, sup[g].retried) \/ Again(g, "wait", FALSE, FALSE)
            \/ self' = self /\ sup' = [sup EXCEPT ![g] = Dead]
        BY <3>3 DEF Reconnect
      <4>2. sup[g].wasOpen
        BY <3>3 DEF Reconnect
      <4>3. CASE Again(g, "loop", TRUE, sup[g].retried)
        BY <1>0, <2>3, <4>3
      <4>4. CASE Again(g, "wait", FALSE, sup[g].retried)
        BY <1>0, <2>3, <4>2, <4>4
      <4>5. CASE Again(g, "wait", FALSE, FALSE)
        BY <2>3, <4>2, <4>5
      <4> QED  BY <2>1, <4>1, <4>3, <4>4, <4>5
    <3> QED  BY <1>10, <3>1, <3>2, <3>3
  <2> QED  BY <1>10, <2>4 DEF Reauthorize, RetryConnect, Reconnect, Shared, Threads
<1> QED  BY <1>1, <1>2, <1>3, <1>4, <1>5, <1>6, <1>7, <1>8, <1>9, <1>10 DEF Supervise

\* What the socket does to its supervisor and its client.
LEMMA SocketTyped ==
  ASSUME Shared, Threads, NEW g \in Supervisors, Handshake(g) \/ Reject(g) \/ Drop(g)
  PROVE  Shared' /\ Threads'
<1>0. /\ self \in SelfType /\ sock \in [Apps -> SockType] /\ book \subseteq Topics
      /\ NoSocket \in SockType
  BY DEF Shared, NoSocket, SockType
<1>1. CASE Open(g)
  <2>1. PICK sent \in SUBSET book :
          sock' = [sock EXCEPT ![sup[g].app] =
                     [state |-> "open", stop |-> @.stop \/ sent # book, topics |-> sent]]
    BY <1>1 DEF Open
  <2>2. sock' \in [Apps -> SockType]
    BY <1>0, <2>1 DEF SockType
  <2>3. self' \in SelfType
    BY <1>0, <1>1 DEF Open, Signalled, SelfType
  <2>4. overtaken' \in BOOLEAN
    BY <1>1 DEF Open
  <2> QED  BY <1>1, <2>2, <2>3, <2>4 DEF Open, Shared, Threads
<1>2. CASE Refuse(g)
  <2>1. self' \in SelfType
    BY <1>0, <1>2 DEF Refuse, SelfType, Refusals
  <2>2. sock' \in [Apps -> SockType] /\ Ended(g)
    BY <1>0, <1>2 DEF Refuse
  <2> QED  BY <1>2, <2>1, <2>2, EndedTyped DEF Refuse, Shared
<1>3. CASE Reject(g)
  <2>1. self' \in SelfType
    BY <1>0, <1>3 DEF Reject, SelfType, Refusals
  <2>2. sock' \in [Apps -> SockType]
    BY <1>0, <1>3, ClosedTyped DEF Reject
  <2> QED  BY <1>3, <2>1, <2>2 DEF Reject, Shared, Threads
<1>4. CASE Drop(g)
  <2>1. self' \in SelfType
    BY <1>0, <1>4 DEF Drop, SelfType
  <2>2. sock' \in [Apps -> SockType] /\ Ended(g)
    BY <1>0, <1>4 DEF Drop
  <2> QED  BY <1>4, <2>1, <2>2, EndedTyped DEF Drop, Shared
<1> QED  BY <1>1, <1>2, <1>3, <1>4 DEF Handshake

LEMMA OthersTyped ==
  ASSUME Shared, Threads,
         Connect \/ ConnectTimeout \/ Disconnect \/ Main \/ User \/ \E i \in Timers : Cycle(i)
  PROVE  Shared' /\ Threads'
<1>0. /\ self \in SelfType /\ sock \in [Apps -> SockType] /\ book \subseteq Topics
      /\ user \in UserType /\ self.ws \in Apps \union {NoApp}
      /\ sup \in [Supervisors -> SupType]
  BY DEF Shared, Threads, SelfType
<1>1. CASE Connect
  <2>1. sup' \in [Supervisors -> SupType]
    BY <1>0, <1>1, FreshTyped DEF Connect
  <2>2. self' \in SelfType
    BY <1>0, <1>1 DEF Connect, SelfType, Errors
  <2> QED  BY <1>1, <2>1, <2>2 DEF Connect, Shared, Threads
<1>2. CASE ConnectTimeout \/ Disconnect
  <2>1. self' \in SelfType
    BY <1>0, <1>2 DEF ConnectTimeout, Disconnect, SelfType
  <2> QED  BY <1>2, <2>1 DEF ConnectTimeout, Disconnect, Shared, Threads
<1>3. CASE ConnectReady \/ DisconnectJoin \/ DisconnectForget
  <2>1. self' \in SelfType
    BY <1>0, <1>3 DEF ConnectReady, DisconnectJoin, DisconnectForget, SelfType, Errors
  <2> QED  BY <1>3, <2>1 DEF ConnectReady, DisconnectJoin, DisconnectForget, Shared, Threads
<1>4. CASE DisconnectClose
  BY <1>0, <1>4, ClosedTyped DEF DisconnectClose, Shared, Threads
<1>5. CASE SendCheck
  <2>1. user' \in UserType
    BY <1>0, <1>5 DEF SendCheck, UserType
  <2> QED  BY <1>5, <2>1 DEF SendCheck, Shared, Threads
<1>6. CASE SendFrames
  <2>1. user' \in UserType
    BY <1>0, <1>6 DEF SendFrames, UserType, Idle
  <2>2. sock' \in [Apps -> SockType]
    BY <1>0, <1>6 DEF SendFrames, UserType, SockType, Apply
  <2> QED  BY <1>6, <2>1, <2>2 DEF SendFrames, Shared, Threads
<1>7. CASE SendRecord
  <2>1. user' \in UserType /\ book' \subseteq Topics
    BY <1>0, <1>7 DEF SendRecord, UserType, Idle, Recorded, Apply
  <2> QED  BY <1>7, <2>1 DEF SendRecord, Shared, Threads
<1>8. ASSUME NEW i \in Timers, Cycle(i) PROVE Shared' /\ Threads'
  <2>1. timer' \in [Timers -> {"idle", "armed", "fired", "close"}]
    BY <1>8 DEF Cycle, TimerFire, TimerCycle, TimerClose, Threads
  <2>2. self' \in SelfType
    BY <1>0, <1>8 DEF Cycle, TimerFire, TimerCycle, TimerClose, SelfType
  <2>3. sock' \in [Apps -> SockType]
    BY <1>0, <1>8, ClosedTyped DEF Cycle, TimerFire, TimerCycle, TimerClose
  <2> QED  BY <1>8, <2>1, <2>2, <2>3
           DEF Cycle, TimerFire, TimerCycle, TimerClose, Shared, Threads
<1> QED  BY <1>1, <1>2, <1>3, <1>4, <1>5, <1>6, <1>7, <1>8 DEF Main, User

\* Every variable keeps to its type, whatever times out; in particular the count
\* of attempts never passes the number of retries.
THEOREM TypeCorrect == Spec => []TypeOK
<1>1. Init => Shared /\ Threads /\ BudgetInv
  <2> SUFFICES ASSUME Init PROVE Shared /\ Threads /\ BudgetInv
    OBVIOUS
  <2>1. self \in SelfType
    BY DEF Init, SelfType, Errors, Refusals
  <2>2. user \in UserType /\ NoSocket \in SockType
    BY DEF Init, UserType, Idle, SockType, NoSocket
  <2>3. Threads /\ BudgetInv
    BY FreshTyped, FreshBudget DEF Init, Threads, BudgetInv
  <2> QED  BY <2>1, <2>2, <2>3 DEF Init, Shared
<1>2. Shared /\ Threads /\ BudgetInv /\ [Next]_vars => Shared' /\ Threads' /\ BudgetInv'
  <2>1. Shared /\ Threads /\ UNCHANGED vars => Shared' /\ Threads'
    BY DEF vars, Shared, Threads
  <2> QED  BY <2>1, StepBudget, SuperviseTyped, SocketTyped, OthersTyped DEF Next
<1> QED  BY <1>1, <1>2, TypeParts, PTL DEF Spec
=============================================================================
