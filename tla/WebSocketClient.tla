-------------------------- MODULE WebSocketClient --------------------------
(***************************************************************************)
(* transport/websocket_client.py, the thread-based WebSocketClient.  Four  *)
(* kinds of threads share one client object:                               *)
(*   main    calls connect() and disconnect();                             *)
(*   sup[g]  runs _supervise, one thread per connect(); the callbacks      *)
(*           _on_open, _on_message, _on_error and _on_close run on it;     *)
(*   user    calls send() with a subscribe or unsubscribe request;         *)
(*   timer   runs _cycle, which replaces a socket whose token expires.     *)
(* One action is one block of lines between two reads or writes of the     *)
(* client object that another thread can tell apart.                       *)
(*                                                                         *)
(* A WebSocketApp is an element of Apps, taken again once nothing refers   *)
(* to it; `topics' is what the server has subscribed on its socket.  A     *)
(* token is known by how the provider was asked for it: "held" (force      *)
(* False) or "fresh" (force True).                                         *)
(***************************************************************************)
EXTENDS Naturals, FiniteSets

CONSTANTS
  Supervisors,    \* bound on the supervisor threads alive at once
  NoSupervisor,   \* None
  Apps, NoApp,    \* the WebSocketApp objects, and None
  Timers, NoTimer,\* bound on the _cycle timers not yet done, and None
  Topics,         \* what send() subscribes and unsubscribes
  MaxRetries,     \* config.max_retries
  AutoReconnect,  \* config.auto_reconnect
  Timeouts        \* connect() and the join of disconnect() may time out

ASSUME ThreadsAssumption == NoSupervisor \notin Supervisors /\ NoTimer \notin Timers
ASSUME AppsAssumption    == NoApp \notin Apps
ASSUME RetriesAssumption == MaxRetries \in Nat \ {0}
ASSUME SwitchAssumption  == AutoReconnect \in BOOLEAN /\ Timeouts \in BOOLEAN

VARIABLES
  self,       \* the attributes of the client the threads share
  book,       \* self._subscriptions, the topics recorded
  sock,       \* the sockets: state, stop (close() was called), topics
  sup,        \* per supervisor thread: pc and its locals
  main,       \* pc of the thread that connects and disconnects
  user,       \* pc of the sending thread and its locals
  timer,      \* where each _cycle timer is
  overtaken   \* history: the last restore ran between a send and its record

vars == <<self, book, sock, sup, main, user, timer, overtaken>>

\* The locals of _supervise; `tries' counts the passes of the first connect.
Fresh == [pc |-> "loop", first |-> TRUE, attempt |-> 0, retried |-> FALSE,
          force |-> FALSE, token |-> "none", app |-> NoApp, timer |-> NoTimer,
          wasOpen |-> FALSE, tries |-> 0]
Dead  == [Fresh EXCEPT !.pc = "dead"]
NoSocket == [state |-> "closed", stop |-> FALSE, topics |-> {}]
Idle  == [pc |-> "idle", app |-> NoApp, method |-> "subscribe", topics |-> {}]

Init ==
  /\ self = [ws |-> NoApp, supervisor |-> NoSupervisor, closing |-> FALSE, opened |-> FALSE,
             openSeen |-> FALSE, ready |-> FALSE, readyError |-> "none",
             lastError |-> "none", rejection |-> "none", status |-> "none",
             cycle |-> FALSE, firstConnect |-> TRUE]
  /\ book = {}
  /\ sock = [a \in Apps |-> NoSocket]
  /\ sup = [g \in Supervisors |-> Dead]
  /\ main = "idle"
  /\ user = Idle
  /\ timer = [i \in Timers |-> "idle"]
  /\ overtaken = FALSE

-----------------------------------------------------------------------------
At(g, label) == sup[g].pc = label
Goto(g, label) == sup' = [sup EXCEPT ![g].pc = label]
Alive(g) == ~At(g, "dead")
\* self._supervisor is not None and is_alive()
Supervised == self.supervisor # NoSupervisor /\ Alive(self.supervisor)

Live(a) == sock[a].state \in {"connecting", "open"}

\* app.close(): run_forever ends soon, if it is under way at all.
Closed(a) ==
  IF a # NoApp /\ Live(a) THEN [sock EXCEPT ![a].stop = TRUE] ELSE sock

FreeApps == Apps \ ({self.ws, user.app} \union {sup[g].app : g \in Supervisors})

\* _fail: the supervisor thread ends with an error, which connect() raises if
\* it is still waiting for the first connection.
Fail(g, error, first) ==
  /\ self' = [self EXCEPT !.lastError = error,
                          !.ready = @ \/ first,
                          !.readyError = IF first THEN error ELSE @]
  /\ sup' = [sup EXCEPT ![g] = Dead]

-----------------------------------------------------------------------------
(* connect() and disconnect()                                              *)

\* Mutant: connect() does not look for a supervisor that is still running.
StartableAlways == main = "idle"

Startable == main = "idle" /\ ~Supervised

Connect ==
  /\ Startable
  /\ \E g \in Supervisors :
       /\ At(g, "dead")
       /\ sup' = [sup EXCEPT ![g] = Fresh]
       /\ self' = [self EXCEPT !.closing = FALSE, !.ready = FALSE,
                               !.readyError = "none", !.lastError = "none",
                               !.supervisor = g]
  /\ main' = "connecting"
  /\ UNCHANGED <<book, sock, user, timer, overtaken>>

\* The wait for the first connection ends: it is up, or it failed for good.
ConnectReady ==
  /\ main = "connecting"
  /\ self.ready
  /\ self' = [self EXCEPT !.readyError = "none"]
  /\ main' = IF self.readyError = "none" THEN "idle" ELSE "disconnect"
  /\ UNCHANGED <<book, sock, sup, user, timer, overtaken>>

ConnectTimeout ==
  /\ main = "connecting"
  /\ Timeouts /\ ~self.ready
  /\ main' = "disconnect"
  /\ UNCHANGED <<self, book, sock, sup, user, timer, overtaken>>

Disconnect ==
  /\ main \in {"idle", "disconnect"}
  /\ self' = [self EXCEPT !.closing = TRUE, !.opened = FALSE]
  /\ main' = "close"
  /\ UNCHANGED <<book, sock, sup, user, timer, overtaken>>

DisconnectClose ==
  /\ main = "close"
  /\ sock' = Closed(self.ws)
  /\ main' = "join"
  /\ UNCHANGED <<self, book, sup, user, timer, overtaken>>

\* Mutant: disconnect() does not wait for the supervisor.
JoinedAtOnce == TRUE

Joined == Timeouts \/ ~Supervised

DisconnectJoin ==
  /\ main = "join"
  /\ Joined
  /\ main' = "forget"
  /\ UNCHANGED <<self, book, sock, sup, user, timer, overtaken>>

DisconnectForget ==
  /\ main = "forget"
  /\ self' = [self EXCEPT !.ws = NoApp, !.supervisor = NoSupervisor]
  /\ book' = {}
  /\ main' = "idle"
  /\ UNCHANGED <<sock, sup, user, timer, overtaken>>

-----------------------------------------------------------------------------
(* send()                                                                  *)

SendCheck ==
  /\ user.pc = "idle"
  /\ self.ws # NoApp /\ ~self.closing /\ self.opened
  /\ \E method \in {"subscribe", "unsubscribe"}, topics \in SUBSET Topics \ {{}} :
       user' = [pc |-> "send", app |-> self.ws, method |-> method, topics |-> topics]
  /\ UNCHANGED <<self, book, sock, sup, main, timer, overtaken>>

Apply(method, topics, to) ==
  IF method = "subscribe" THEN to \union topics ELSE to \ topics

\* An exception of the socket becomes a WebSocketError of the caller.
SendFrames ==
  /\ user.pc = "send"
  /\ \/ /\ sock[user.app].state = "open"
        /\ sock' = [sock EXCEPT ![user.app].topics = Apply(user.method, user.topics, @)]
        /\ user' = [user EXCEPT !.pc = "record"]
     \/ /\ sock[user.app].state # "open" \/ sock[user.app].stop
        /\ user' = Idle
        /\ UNCHANGED sock
  /\ UNCHANGED <<self, book, sup, main, timer, overtaken>>

\* Mutant: an unsubscribe is sent but not recorded.
RecordedIfSubscribed ==
  IF user.method = "subscribe" THEN book \union user.topics ELSE book

Recorded == Apply(user.method, user.topics, book)

SendRecord ==
  /\ user.pc = "record"
  /\ book' = Recorded
  /\ user' = Idle
  /\ UNCHANGED <<self, sock, sup, main, timer, overtaken>>

-----------------------------------------------------------------------------
(* The _cycle timer                                                        *)

\* Past the point where cancel() could stop it.
TimerFire(i) ==
  /\ timer[i] = "armed"
  /\ timer' = [timer EXCEPT ![i] = "fired"]
  /\ UNCHANGED <<self, book, sock, sup, main, user, overtaken>>

TimerCycle(i) ==
  /\ timer[i] = "fired"
  /\ self' = [self EXCEPT !.cycle = TRUE]
  /\ timer' = [timer EXCEPT ![i] = "close"]
  /\ UNCHANGED <<book, sock, sup, main, user, overtaken>>

TimerClose(i) ==
  /\ timer[i] = "close"
  /\ sock' = Closed(self.ws)
  /\ timer' = [timer EXCEPT ![i] = "idle"]
  /\ UNCHANGED <<self, book, sup, main, user, overtaken>>

-----------------------------------------------------------------------------
(* _supervise: one pass of the loop.                                       *)

Loop(g) ==
  /\ At(g, "loop")
  /\ IF self.closing
     THEN sup' = [sup EXCEPT ![g] = Dead]
     ELSE sup' = [sup EXCEPT ![g].pc = "token",
                             ![g].tries = IF sup[g].first THEN @ + 1 ELSE @]
  /\ UNCHANGED <<self, book, sock, main, user, timer, overtaken>>

\* token_provider(force_refresh) returns a token,
TokenGiven(g) ==
  /\ At(g, "token")
  /\ sup' = [sup EXCEPT ![g].pc = "check",
                        ![g].token = IF sup[g].force THEN "fresh" ELSE "held"]
  /\ UNCHANGED <<self, book, sock, main, user, timer, overtaken>>

\* raises something worth retrying,
TokenError(g) ==
  /\ At(g, "token")
  /\ Goto(g, "check")
  /\ UNCHANGED <<self, book, sock, main, user, timer, overtaken>>

\* or raises an AuthenticationError: only a new OTP can help.
TokenRefused(g) ==
  /\ At(g, "token")
  /\ Fail(g, "reauthenticate", sup[g].first)
  /\ UNCHANGED <<book, sock, main, user, timer, overtaken>>

Check(g) ==
  /\ At(g, "check")
  /\ \/ /\ self.closing
        /\ sup' = [sup EXCEPT ![g] = Dead]
        /\ UNCHANGED self
     \/ /\ ~self.closing
        /\ self' = [self EXCEPT !.status = "none", !.rejection = "none",
                                !.cycle = FALSE, !.openSeen = FALSE, !.opened = FALSE]
        /\ Goto(g, IF sup[g].token = "none" THEN "ended" ELSE "create")
  /\ UNCHANGED <<book, sock, main, user, timer, overtaken>>

Create(g) ==
  /\ At(g, "create")
  /\ \E a \in FreeApps :
       /\ self' = [self EXCEPT !.ws = a, !.firstConnect = sup[g].first]
       /\ sock' = [sock EXCEPT ![a] = [state |-> "new", stop |-> FALSE, topics |-> {}]]
  /\ Goto(g, "arm")
  /\ UNCHANGED <<book, main, user, timer, overtaken>>

FreeTimers == {i \in Timers : timer[i] = "idle" /\ \A g \in Supervisors : sup[g].timer # i}

\* Without a known expiry there is nothing to schedule.
Arm(g) ==
  /\ At(g, "arm")
  /\ \/ /\ Goto(g, "enter")
        /\ UNCHANGED timer
     \/ \E i \in FreeTimers :
          /\ timer' = [timer EXCEPT ![i] = "armed"]
          /\ sup' = [sup EXCEPT ![g].pc = "enter", ![g].timer = i]
  /\ UNCHANGED <<self, book, sock, main, user, overtaken>>

\* run_forever is over, or never began: the finally block cancels the timer.
Ended(g) ==
  /\ timer' = [i \in Timers |->
                 IF i = sup[g].timer /\ timer[i] = "armed" THEN "idle" ELSE timer[i]]
  /\ sup' = [sup EXCEPT ![g].pc = "ended", ![g].timer = NoTimer]

\* self._ws is read again: it may be None, or busy in another thread, and
\* run_forever raises.
Runnable == self.ws # NoApp /\ ~Live(self.ws)

\* run_forever starts, whatever close() came before it.
Enter(g) ==
  /\ At(g, "enter")
  /\ \/ /\ Runnable
        /\ sock' = [sock EXCEPT ![self.ws].state = "connecting", ![self.ws].stop = FALSE]
        /\ sup' = [sup EXCEPT ![g].pc = "run", ![g].app = self.ws]
        /\ UNCHANGED timer
     \/ /\ ~Runnable
        /\ Ended(g)
        /\ UNCHANGED sock
  /\ UNCHANGED <<self, book, main, user, overtaken>>

Connecting(g) == At(g, "run") /\ sock[sup[g].app].state = "connecting"
Serving(g)    == At(g, "run") /\ sock[sup[g].app].state = "open"

\* Mutant: the client counts as open only after the first connect.
SignalledOnce ==
  [self EXCEPT !.openSeen = TRUE, !.opened = @ \/ self.firstConnect,
               !.ready = @ \/ self.firstConnect]

Signalled ==
  [self EXCEPT !.openSeen = TRUE, !.opened = TRUE, !.ready = @ \/ self.firstConnect]

\* The handshake succeeds: _on_open re-sends the book, then signals.  When a
\* frame cannot be sent the rest is dropped, and the socket is about to end.
Open(g) ==
  /\ Connecting(g)
  /\ \E sent \in SUBSET book :
       sock' = [sock EXCEPT ![sup[g].app] =
                  [state |-> "open", stop |-> @.stop \/ sent # book, topics |-> sent]]
  /\ self' = Signalled
  /\ overtaken' = (user.pc = "record")
  /\ UNCHANGED <<book, sup, main, user, timer>>

\* It fails: _on_error keeps the HTTP status, if there is one, then _on_close.
Refuse(g) ==
  /\ Connecting(g)
  /\ \E status \in {"auth", "other", "none"} :
       self' = [self EXCEPT !.status = IF status # "none" /\ ~self.opened THEN status ELSE @,
                            !.opened = FALSE]
  /\ sock' = [sock EXCEPT ![sup[g].app] = NoSocket]
  /\ Ended(g)
  /\ UNCHANGED <<book, main, user, overtaken>>

\* A refusal frame {"code", "msg"} on an open socket: leave the loop.
Reject(g) ==
  /\ Serving(g)
  /\ ~sock[sup[g].app].stop
  /\ \E kind \in {"auth", "other"} : self' = [self EXCEPT !.rejection = kind]
  /\ sock' = Closed(self.ws)
  /\ UNCHANGED <<book, sup, main, user, timer, overtaken>>

\* The server drops the socket, or close() takes effect: _on_close.
Drop(g) ==
  /\ Serving(g)
  /\ sock' = [sock EXCEPT ![sup[g].app] = NoSocket]
  /\ self' = [self EXCEPT !.opened = FALSE]
  /\ Ended(g)
  /\ UNCHANGED <<book, main, user, overtaken>>

\* Takes the socket back and closes it.
Swap(g) ==
  /\ At(g, "ended")
  /\ self' = [self EXCEPT !.opened = FALSE, !.ws = NoApp]
  /\ sock' = Closed(self.ws)
  /\ sup' = [sup EXCEPT ![g].pc = "decide", ![g].app = NoApp,
                        ![g].wasOpen = self.openSeen]
  /\ UNCHANGED <<book, main, user, timer, overtaken>>

-----------------------------------------------------------------------------
(* _supervise: what happens next.                                          *)

Deciding(g) == At(g, "decide") /\ ~self.closing

\* Another pass, at once or after a wait (which disconnect() cuts short).  Only
\* the first connect counts its attempts: once a socket came up the count feeds
\* nothing but the length of the wait.
Again(g, label, force, retried) ==
  /\ LET s == sup[g] IN
       sup' = [sup EXCEPT ![g] =
                 [Fresh EXCEPT !.pc = label, !.force = force, !.retried = retried,
                    !.first = s.first /\ ~s.wasOpen,
                    !.tries = IF s.wasOpen THEN 0 ELSE s.tries,
                    !.attempt = IF ~s.first \/ s.wasOpen THEN 0
                                ELSE IF label = "wait" THEN s.attempt + 1 ELSE s.attempt]]
  /\ UNCHANGED self

Stopped(g) ==
  /\ At(g, "decide")
  /\ self.closing
  /\ sup' = [sup EXCEPT ![g] = Dead]
  /\ UNCHANGED <<self, book, sock, main, user, timer, overtaken>>

\* 401/403 on the handshake or in a refusal frame: one forced refresh, once.
Unauthorized(g) ==
  IF sup[g].wasOpen THEN ~self.cycle /\ self.rejection = "auth" ELSE self.status = "auth"

\* Mutant: every refusal is answered by one more forced refresh.
RetriedNever(g) == FALSE

Retried(g) == sup[g].retried

Reauthorize(g) ==
  /\ Deciding(g)
  /\ Unauthorized(g)
  /\ IF Retried(g)
     THEN Fail(g, "refused", sup[g].first /\ ~sup[g].wasOpen)
     ELSE Again(g, "loop", TRUE, TRUE)
  /\ UNCHANGED <<book, sock, main, user, timer, overtaken>>

LastAttempt(g) == sup[g].first /\ sup[g].attempt + 1 >= MaxRetries

\* Mutants: the error does not wake connect(); the thread ends without _fail.
GiveUpUnheard(g) == Fail(g, "connect", FALSE)
GiveUpQuietly(g) == sup' = [sup EXCEPT ![g] = Dead] /\ UNCHANGED self

GiveUp(g) == Fail(g, "connect", TRUE)

\* The socket never came up.
RetryConnect(g) ==
  /\ Deciding(g)
  /\ ~sup[g].wasOpen /\ ~Unauthorized(g)
  /\ IF LastAttempt(g)
     THEN GiveUp(g)
     ELSE Again(g, "wait", FALSE, sup[g].retried)
  /\ UNCHANGED <<book, sock, main, user, timer, overtaken>>

\* It came up and ended: cycled, refused for another reason, or dropped.
Reconnect(g) ==
  /\ Deciding(g)
  /\ sup[g].wasOpen /\ ~Unauthorized(g)
  /\ \/ self.cycle /\ Again(g, "loop", TRUE, sup[g].retried)
     \/ ~self.cycle /\ self.rejection # "none" /\ Again(g, "wait", FALSE, sup[g].retried)
     \/ /\ ~self.cycle /\ self.rejection = "none"
        /\ IF AutoReconnect
           THEN Again(g, "wait", FALSE, FALSE)
           ELSE sup' = [sup EXCEPT ![g] = Dead] /\ UNCHANGED self
  /\ UNCHANGED <<book, sock, main, user, timer, overtaken>>

Wait(g) ==
  /\ At(g, "wait")
  /\ Goto(g, "loop")
  /\ UNCHANGED <<self, book, sock, main, user, timer, overtaken>>

-----------------------------------------------------------------------------
Main == ConnectReady \/ DisconnectClose \/ DisconnectJoin \/ DisconnectForget

User == SendCheck \/ SendFrames \/ SendRecord

Cycle(i) == TimerFire(i) \/ TimerCycle(i) \/ TimerClose(i)

Supervise(g) ==
  \/ Loop(g) \/ TokenGiven(g) \/ TokenError(g) \/ TokenRefused(g) \/ Check(g) \/ Create(g) \/ Arm(g)
  \/ Enter(g) \/ Swap(g) \/ Stopped(g) \/ Reauthorize(g) \/ RetryConnect(g)
  \/ Reconnect(g) \/ Wait(g)

Handshake(g) == Open(g) \/ Refuse(g)

Next ==
  \/ Connect \/ ConnectTimeout \/ Disconnect \/ Main \/ User
  \/ \E i \in Timers : Cycle(i)
  \/ \E g \in Supervisors : Supervise(g) \/ Handshake(g) \/ Reject(g) \/ Drop(g)

Spec == Init /\ [][Next]_vars

\* Threads keep running, the token provider returns or raises, a handshake is
\* answered or times out, and a closed run_forever ends.
Fairness ==
  /\ WF_vars(Main)
  /\ \A g \in Supervisors :
       /\ WF_vars(Supervise(g))
       /\ WF_vars(Handshake(g))
       /\ WF_vars(Drop(g) /\ sock[sup[g].app].stop)

FairSpec == Spec /\ Fairness

-----------------------------------------------------------------------------
(* Properties.                                                             *)

Labels == {"dead", "loop", "token", "check", "create", "arm", "enter", "run", "ended",
           "decide", "wait"}

\* Every variable keeps its type.
TypeOK ==
  /\ self \in [ws : Apps \union {NoApp}, supervisor : Supervisors \union {NoSupervisor},
               closing : BOOLEAN, opened : BOOLEAN, openSeen : BOOLEAN, ready : BOOLEAN,
               readyError : {"none", "reauthenticate", "refused", "connect"},
               lastError : {"none", "reauthenticate", "refused", "connect"},
               rejection : {"none", "auth", "other"}, status : {"none", "auth", "other"},
               cycle : BOOLEAN, firstConnect : BOOLEAN]
  /\ book \subseteq Topics
  /\ sock \in [Apps -> [state : {"new", "connecting", "open", "closed"}, stop : BOOLEAN,
                        topics : SUBSET Topics]]
  /\ sup \in [Supervisors ->
       [pc : Labels, first : BOOLEAN, attempt : 0..(MaxRetries - 1), retried : BOOLEAN,
        force : BOOLEAN, token : {"none", "held", "fresh"}, app : Apps \union {NoApp},
        timer : Timers \union {NoTimer}, wasOpen : BOOLEAN, tries : 0..(MaxRetries + 1)]]
  /\ main \in {"idle", "connecting", "disconnect", "close", "join", "forget"}
  /\ user \in [pc : {"idle", "send", "record"}, app : Apps \union {NoApp},
               method : {"subscribe", "unsubscribe"}, topics : SUBSET Topics]
  /\ timer \in [Timers -> {"idle", "armed", "fired", "close"}]
  /\ overtaken \in BOOLEAN

\* The server allows ten sockets per client: the old one is closed before a new
\* one opens, across reconnects, cycles and disconnect() followed by connect().
OneSocket == \A a, b \in Apps : Live(a) /\ Live(b) => a = b

\* After disconnect(), or a connect() that raised, no thread and no socket is left.
DisconnectStops ==
  main = "idle" /\ self.supervisor = NoSupervisor =>
    /\ \A g \in Supervisors : ~Alive(g)
    /\ \A a \in Apps : ~Live(a)

\* On a socket that is up the server has subscribed exactly what the book holds:
\* unless the last restore overtook a request that was sent but not recorded yet.
Quiet    == user.pc = "idle" /\ self.ws # NoApp /\ self.opened
Restored ==
  Quiet /\ sock[self.ws].state = "open" /\ ~sock[self.ws].stop =>
    sock[self.ws].topics = book

RestoredUnlessOvertaken == ~overtaken => Restored

\* The supervisor never gives up quietly: unless it was told to stop, an error
\* says why no reconnect follows.
NoSilentStop ==
  self.supervisor # NoSupervisor /\ ~Alive(self.supervisor) /\ ~self.closing /\ AutoReconnect =>
    self.lastError # "none"

\* The first connect gives up after max_retries attempts; the one forced refresh
\* adds at most one.
FirstConnectBounded == \A g \in Supervisors : sup[g].tries <= MaxRetries + 1

\* connect() returns or raises, without the help of its own timeout.
ConnectAnswered == main = "connecting" ~> main # "connecting"

\* A dropped connection comes back, or ends with an error: provided that the token
\* provider and the server do not refuse for ever what is tried again and again.
ServerRecovers == \A g \in Supervisors : SF_vars(TokenGiven(g)) /\ SF_vars(Open(g))
Recovers ==
  ServerRecovers =>
    (main = "idle" /\ Supervised /\ ~self.opened
       ~> self.opened \/ self.closing \/ self.lastError # "none")
=============================================================================
