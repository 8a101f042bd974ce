----------------------------- MODULE AsyncStream -----------------------------
(***************************************************************************)
(* The asyncio stream: AsyncWebSocketClient (transport/websocket_client.py *)
(* 110-529) renewing its credentials through AsyncTokenManager             *)
(* (services/token_manager.py 221-425) by the token_provider of            *)
(* AsyncStream (client.py 637-643).  Everything runs on one thread, so an  *)
(* action is what a task does from one await that suspends to the next.    *)
(*   Owners  call connect() and disconnect(); a connect() may be cancelled *)
(*   Tasks   supervisor tasks, one per connect()                           *)
(*   User    calls refresh() and ensure_authenticated() on its own         *)
(* What is new against the threads of WebSocketClient and TokenManager is  *)
(* cancellation: disconnect() ends the supervisor at whatever await it has *)
(* reached, a token refresh included.                                      *)
(***************************************************************************)
EXTENDS Naturals, FiniteSets

CONSTANTS
  Owners,        \* the tasks of the application that own the stream
  Tasks, NoTask, \* bound on the supervisor tasks alive at once, and None
  User,          \* another task that uses the token manager
  Conns, NoConn, \* bound on the sockets open at once, and None
  MaxTokens,     \* bound on the token sets the server issues
  MaxRetries,    \* config.max_retries
  MaxDrops,      \* bound on the sockets the network or the server ends
  AutoReconnect  \* config.auto_reconnect

Renewers == Tasks \union {User}

ASSUME TasksAssumption == /\ NoTask \notin Renewers /\ User \notin Tasks
                          /\ Owners \intersect Renewers = {}
ASSUME ConnsAssumption == NoConn \notin Conns
ASSUME BoundsAssumption == /\ MaxTokens \in Nat \ {0} /\ MaxRetries \in Nat \ {0}
                           /\ MaxDrops \in Nat /\ AutoReconnect \in BOOLEAN

VARIABLES
  self,     \* the attributes of the client: conn, sup, closing
  owner,    \* per owner: pc, the supervisor it awaits, the future of connect()
  sup,      \* per supervisor task: pc and locals
  open,     \* the sockets that are open and whose close() has not begun
  drops,    \* how many sockets ended
  lock,     \* the token manager's _refresh_lock
  renew,    \* per renewer: pc and locals of _refresh and ensure_authenticated
  token,    \* the token set held, 0 for None
  expired,  \* token sets whose access token has expired
  server,   \* the session: token sets issued, the live one, the rotated ones
  stray,    \* refresh tokens in requests that nobody waits for any more
  lost,     \* history: refresh tokens whose request was cut off
  reused,   \* history: refresh tokens presented after they were rotated
  spent     \* history: refresh tokens whose renewal was stored

session == <<token, expired, server, stray, lost, reused, spent>>
client  == <<self, owner, sup, open, drops>>
vars    == <<client, lock, renew, session>>

Resting == [pc |-> "idle", awaits |-> NoTask, future |-> "none"]
Done    == [pc |-> "done", pending |-> FALSE, attempt |-> 0, retried |-> FALSE,
            force |-> FALSE, cancel |-> FALSE, conn |-> NoConn, reason |-> "none"]
NoCall  == [pc |-> "idle", force |-> FALSE, observed |-> 0, body |-> 0, answer |-> 0]

Init ==
  /\ self = [conn |-> NoConn, sup |-> NoTask, closing |-> FALSE]
  /\ owner = [t \in Owners |-> Resting]
  /\ sup = [s \in Tasks |-> Done]
  /\ open = {} /\ drops = 0
  /\ lock = NoTask
  /\ renew = [r \in Renewers |-> NoCall]
  /\ token = 1 /\ expired = {}
  /\ server = [issued |-> 1, session |-> 1, rotated |-> {}]
  /\ stray = {} /\ lost = {} /\ reused = {} /\ spent = {}

-----------------------------------------------------------------------------
\* Mutant: the socket is only forgotten.
Forgotten(c) == open

Closed(c) == open \ {c}

\* _close_connection takes the socket before it waits for its close.
TakeAndClose ==
  /\ self' = [self EXCEPT !.conn = NoConn]
  /\ open' = Closed(self.conn)

(* connect() and disconnect()                                              *)

Running(s) == s # NoTask /\ sup[s].pc # "done"

\* A task that was cancelled runs on the next pass of the event loop, before
\* anything comes in from the network.
Settled == \A s \in Tasks : ~sup[s].cancel

Free == {s \in Tasks : sup[s].pc = "done" /\ \A t \in Owners : owner[t].awaits # s}

Connect(t) ==
  /\ owner[t].pc = "idle"
  /\ ~Running(self.sup)
  /\ Free # {}
  /\ LET s == CHOOSE s \in Free : TRUE IN
       /\ sup' = [sup EXCEPT ![s] = [Done EXCEPT !.pc = "start", !.pending = TRUE]]
       /\ self' = [self EXCEPT !.closing = FALSE, !.sup = s]
       /\ owner' = [owner EXCEPT ![t] =
            [pc |-> "connecting", awaits |-> s, future |-> "pending"]]
  /\ UNCHANGED <<open, drops, lock, renew, session>>

ConnectUp(t) ==
  /\ owner[t].future = "up"
  /\ owner' = [owner EXCEPT ![t] = Resting]
  /\ UNCHANGED <<self, sup, open, drops, lock, renew, session>>

\* The future failed or was cancelled: connect() disconnects, then raises.
ConnectFailed(t) ==
  /\ owner[t].future \in {"failed", "cancelled"}
  /\ owner' = [owner EXCEPT ![t] = [Resting EXCEPT !.pc = "disconnect"]]
  /\ UNCHANGED <<self, sup, open, drops, lock, renew, session>>

\* Cancelling connect() cancels the future it awaits.
CancelConnect(t) ==
  /\ owner[t].future = "pending" /\ Settled
  /\ owner' = [owner EXCEPT ![t].awaits = NoTask, ![t].future = "cancelled"]
  /\ UNCHANGED <<self, sup, open, drops, lock, renew, session>>

\* Cancel the supervisor and wait for it ...
Disconnect(t) ==
  /\ owner[t].pc \in {"idle", "disconnect"}
  /\ self' = [self EXCEPT !.closing = TRUE, !.sup = NoTask]
  /\ IF Running(self.sup)
     THEN /\ sup' = [sup EXCEPT ![self.sup].cancel = TRUE]
          /\ owner' = [owner EXCEPT ![t].pc = "await", ![t].awaits = self.sup]
     ELSE /\ owner' = [owner EXCEPT ![t].pc = "close"]
          /\ UNCHANGED sup
  /\ UNCHANGED <<open, drops, lock, renew, session>>

\* Mutant: the task is cancelled and not awaited.
NotAwaited(s) == TRUE

Stopped(s) == ~Running(s)

DisconnectAwaited(t) ==
  /\ owner[t].pc = "await" /\ Stopped(owner[t].awaits)
  /\ owner' = [owner EXCEPT ![t].pc = "close", ![t].awaits = NoTask]
  /\ UNCHANGED <<self, sup, open, drops, lock, renew, session>>

\* ... then close the socket there is, whoever opened it.
DisconnectClose(t) ==
  /\ owner[t].pc = "close"
  /\ owner' = [owner EXCEPT ![t] = Resting]
  /\ TakeAndClose
  /\ UNCHANGED <<sup, drops, lock, renew, session>>

-----------------------------------------------------------------------------
(* _supervise                                                              *)

At(s, label) == sup[s].pc = label /\ ~sup[s].cancel
Goto(s, label) == sup' = [sup EXCEPT ![s].pc = label]

\* The outcome reaches connect(), if it still waits for this supervisor.
Settle(s, outcome) ==
  [t \in Owners |-> IF owner[t].future = "pending" /\ owner[t].awaits = s
                    THEN [owner[t] EXCEPT !.awaits = NoTask, !.future = outcome]
                    ELSE owner[t]]

\* _fail: the error goes to connect().
Fail(s) ==
  /\ Goto(s, "finally")
  /\ owner' = Settle(s, "failed")

\* The provider: a refresh first if the server asked for one, then a valid token.
Begin(s) ==
  /\ At(s, "start") \/ At(s, "loop")
  /\ IF self.closing THEN Goto(s, "finally") /\ UNCHANGED renew
     ELSE LET force == sup[s].force /\ token # 0
          IN /\ Goto(s, "provider")
             /\ renew' = [renew EXCEPT ![s] = [NoCall EXCEPT
                  !.pc = IF force THEN "check" ELSE "ensure", !.force = force]]
  /\ UNCHANGED <<self, owner, open, drops, lock, session>>

\* A dead session cannot be retried; any other error counts as an attempt.
Provided(s) ==
  /\ At(s, "provider")
  /\ \/ renew[s].pc = "returned" /\ Goto(s, "dial") /\ UNCHANGED owner
     \/ renew[s].pc = "refused"  /\ Fail(s)
     \/ renew[s].pc = "failed"   /\ Goto(s, "retry") /\ UNCHANGED owner
  /\ renew' = [renew EXCEPT ![s] = NoCall]
  /\ UNCHANGED <<self, open, drops, lock, session>>

DialUp(s) ==
  /\ At(s, "dial") /\ Settled /\ Conns \ open # {}
  /\ LET c == CHOOSE c \in Conns \ open : TRUE IN
       /\ open' = open \union {c}
       /\ self' = [self EXCEPT !.conn = c]
       /\ sup' = [sup EXCEPT ![s].pc = "restore", ![s].conn = c, ![s].force = FALSE]
  /\ UNCHANGED <<owner, drops, lock, renew, session>>

\* The handshake is refused with 401 or 403: renew the token, once.
DialRefused(s) ==
  /\ At(s, "dial") /\ drops < MaxDrops
  /\ drops' = drops + 1
  /\ \/ sup[s].retried /\ Fail(s)
     \/ /\ ~sup[s].retried
        /\ sup' = [sup EXCEPT ![s].pc = "loop", ![s].retried = TRUE, ![s].force = TRUE]
        /\ UNCHANGED owner
  /\ UNCHANGED <<self, open, lock, renew, session>>

DialFails(s) ==
  /\ At(s, "dial") /\ drops < MaxDrops
  /\ drops' = drops + 1
  /\ Goto(s, "retry")
  /\ UNCHANGED <<self, owner, open, lock, renew, session>>

\* The first connect gives up after max_retries attempts.
GivesUp(s) == sup[s].pending /\ sup[s].attempt + 1 >= MaxRetries

Retry(s) ==
  /\ At(s, "retry")
  /\ \/ GivesUp(s) /\ Fail(s)
     \/ /\ ~GivesUp(s)
        /\ sup' = [sup EXCEPT ![s].pc = "sleep",
                              ![s].attempt = IF sup[s].pending THEN @ + 1 ELSE @]
        /\ UNCHANGED owner
  /\ UNCHANGED <<self, open, drops, lock, renew, session>>

Slept(s) ==
  /\ At(s, "sleep")
  /\ Goto(s, "loop")
  /\ UNCHANGED <<self, owner, open, drops, lock, renew, session>>

\* _resubscribe is done, or failed: connect() returns.  If it was cancelled
\* meanwhile, set_result raises and ends the task.
Restored(s) ==
  /\ At(s, "restore")
  /\ \/ /\ sup[s].pending /\ Settle(s, "up") = owner
        /\ Goto(s, "finally")
     \/ /\ sup[s].pending => Settle(s, "up") # owner
        /\ sup' = [sup EXCEPT ![s].pc = "serve", ![s].pending = FALSE, ![s].attempt = 0]
  /\ owner' = Settle(s, "up")
  /\ UNCHANGED <<self, open, drops, lock, renew, session>>

\* _serve: the socket closed, the server refused it with a frame, or the token
\* is about to expire; of what is ready at once, a refusal wins over a close.
Served(s) ==
  /\ At(s, "serve")
  /\ \E reason \in {"closed", "unauthorized", "refused", "refresh"} :
       /\ reason # "closed" => sup[s].conn \in open
       /\ sup[s].conn \in open /\ reason # "refresh" => drops < MaxDrops
       /\ reason = "refresh" => server.issued < MaxTokens
       /\ drops' = IF reason = "refresh" \/ sup[s].conn \notin open THEN drops ELSE drops + 1
       /\ open' = IF reason = "closed" THEN open \ {sup[s].conn} ELSE open
       /\ sup' = [sup EXCEPT ![s].pc = "shut", ![s].reason = reason]
  /\ UNCHANGED <<self, owner, lock, renew, session>>

Shut(s) ==
  /\ At(s, "shut")
  /\ sup' = [sup EXCEPT ![s].pc = "shutting", ![s].conn = NoConn]
  /\ TakeAndClose
  /\ UNCHANGED <<owner, drops, lock, renew, session>>

\* Then what happens next depends on why the socket ended.
Decide(s) ==
  /\ At(s, "shutting") /\ Settled
  /\ LET reason == sup[s].reason
         renewal == reason \in {"refresh", "unauthorized"}
         last == \/ self.closing
                 \/ reason = "unauthorized" /\ sup[s].retried
                 \/ reason = "closed" /\ ~AutoReconnect
     IN sup' = [sup EXCEPT ![s].reason = "none", ![s].force = renewal,
          ![s].pc = IF last THEN "finally" ELSE IF renewal THEN "loop" ELSE "sleep",
          ![s].retried = reason # "closed" /\ (@ \/ reason = "unauthorized")]
  /\ UNCHANGED <<self, owner, open, drops, lock, renew, session>>

\* `finally' closes the socket and cancels the future, if it is still pending.
Finally(s) ==
  /\ At(s, "finally")
  /\ TakeAndClose
  /\ sup' = [sup EXCEPT ![s].pc = "ending", ![s].conn = NoConn]
  /\ UNCHANGED <<owner, drops, lock, renew, session>>

\* Mutant: the future is left alone.
Unsettled(s) == owner

Unanswered(s) == Settle(s, "cancelled")

Ending(s) ==
  /\ At(s, "ending")
  /\ owner' = Unanswered(s)
  /\ sup' = [sup EXCEPT ![s] = Done]
  /\ UNCHANGED <<self, open, drops, lock, renew, session>>

-----------------------------------------------------------------------------
(* Cancellation, and the token manager                                     *)

\* The server has one live session; presenting a rotated refresh token ends it.
Rotates(body) == body = server.session /\ server.issued < MaxTokens
Reuse(body)   == body \in server.rotated

Presented(body) ==
  /\ server' = IF Rotates(body)
               THEN [issued |-> server.issued + 1, session |-> server.issued + 1,
                     rotated |-> server.rotated \union {body}]
               ELSE IF Reuse(body) THEN [server EXCEPT !.session = 0] ELSE server
  /\ reused' = IF Reuse(body) THEN reused \union {body} ELSE reused

\* Nobody waits for the answer of a request any more, which the server may
\* have taken already, take later, or never get.
CutOff(r) ==
  /\ lost' = lost \union {renew[r].body}
  /\ stray' = IF renew[r].pc = "sent" THEN stray \union {renew[r].body} ELSE stray

\* Mutant: the lock is not released by `async with'.
LockKept(r) == lock

LockFreed(r) == IF lock = r THEN NoTask ELSE lock

\* CancelledError arises at the await the supervisor has reached; while it
\* closes the socket in `finally', it skips the rest of it.  A task that has
\* not run yet ends without entering _supervise, so without its `finally'.
CancelledAt(s) ==
  /\ sup[s].cancel
  /\ sup' = [sup EXCEPT ![s] = IF @.pc \in {"start", "ending"} THEN Done
                               ELSE [@ EXCEPT !.cancel = FALSE, !.pc = "finally"]]
  /\ owner' = IF sup[s].pc = "start" THEN Settle(s, "never") ELSE owner
  /\ renew' = [renew EXCEPT ![s] = NoCall]
  /\ lock' = LockFreed(s)
  /\ IF renew[s].pc \in {"sent", "answered"} THEN CutOff(s) ELSE UNCHANGED <<stray, lost>>
  /\ UNCHANGED <<self, open, drops, token, expired, server, reused, spent>>

StrayArrives ==
  /\ \E body \in stray : Presented(body) /\ stray' = stray \ {body}
  /\ UNCHANGED <<client, lock, renew, token, expired, lost, spent>>

Valid(g) == g # 0 /\ g \notin expired

\* refresh() and ensure_authenticated() called by another task.
UserCalls ==
  /\ renew[User].pc = "idle"
  /\ \E force \in BOOLEAN :
       renew' = [renew EXCEPT ![User] = [NoCall EXCEPT
         !.pc = IF force THEN "check" ELSE "ensure", !.force = force]]
  /\ UNCHANGED <<client, lock, session>>

\* The supervisor goes on with the outcome; what the user does with it is open.
Ends(r, outcome) == IF r \in Tasks THEN [NoCall EXCEPT !.pc = outcome] ELSE NoCall

Step(r, pc) == renew[r].pc = pc /\ (r \in Tasks => ~sup[r].cancel)

EnsureAuthenticated(r) ==
  /\ Step(r, "ensure")
  /\ renew' = [renew EXCEPT ![r] =
       IF Valid(token) THEN Ends(r, "returned")
       ELSE IF token # 0 THEN [NoCall EXCEPT !.pc = "check"] ELSE Ends(r, "refused")]
  /\ UNCHANGED <<client, lock, session>>

\* After refresh() the provider goes on to ensure_authenticated().
After(r) == IF r \in Tasks /\ renew[r].force THEN [NoCall EXCEPT !.pc = "ensure"]
            ELSE Ends(r, "returned")

\* With the lock: somebody else may have renewed the token in the meantime.
Granted(r, observed) ==
  LET renewed == Valid(token) /\ (token # observed \/ ~renew[r].force)
      sends   == ~renewed /\ token # 0
  IN /\ lock' = IF sends THEN r ELSE lock
     /\ renew' = [renew EXCEPT ![r] =
          IF sends THEN [@ EXCEPT !.pc = "sent", !.observed = 0, !.body = token]
          ELSE IF renewed THEN After(r) ELSE Ends(r, "refused")]

\* Mutant: a refresh does not wait for the one under way.
NoSingleFlight == TRUE

\* asyncio.Lock is handed to those who wait for it first.
LockIsFree == lock = NoTask /\ \A r \in Renewers : renew[r].pc # "lock"

Refresh(r) ==
  /\ Step(r, "check")
  /\ \/ /\ token = 0
        /\ renew' = [renew EXCEPT ![r] = Ends(r, "refused")]
        /\ UNCHANGED lock
     \/ /\ token # 0 /\ LockIsFree
        /\ Granted(r, token)
     \/ /\ token # 0 /\ ~LockIsFree
        /\ renew' = [renew EXCEPT ![r].pc = "lock", ![r].observed = token]
        /\ UNCHANGED lock
  /\ UNCHANGED <<client, session>>

Acquire(r) ==
  /\ Step(r, "lock") /\ lock = NoTask
  /\ Granted(r, renew[r].observed)
  /\ UNCHANGED <<client, session>>

\* The server answers: the token set is renewed, or the session is dead.
Answer(r) ==
  /\ Step(r, "sent")
  /\ Rotates(renew[r].body) \/ renew[r].body # server.session
  /\ Presented(renew[r].body)
  /\ renew' = [renew EXCEPT
       ![r].pc = IF Rotates(renew[r].body) THEN "answered" ELSE "rejected",
       ![r].answer = IF Rotates(renew[r].body) THEN server.issued + 1 ELSE 0]
  /\ UNCHANGED <<client, lock, token, expired, stray, lost, spent>>

\* The request or its answer is lost; the refresh is not retried.  At the bound
\* on its token sets the server gives no answer.
RequestFails(r) ==
  /\ Step(r, "sent")
  /\ \/ drops < MaxDrops /\ drops' = drops + 1
     \/ server.issued = MaxTokens /\ UNCHANGED drops
  /\ CutOff(r)
  /\ lock' = LockFreed(r)
  /\ renew' = [renew EXCEPT ![r] = Ends(r, "failed")]
  /\ UNCHANGED <<self, owner, sup, open, token, expired, server, reused, spent>>

Store(r) ==
  /\ Step(r, "answered")
  /\ token' = renew[r].answer
  /\ spent' = spent \union {renew[r].body}
  /\ lock' = LockFreed(r)
  /\ renew' = [renew EXCEPT ![r] = After(r)]
  /\ UNCHANGED <<client, expired, server, stray, lost, reused>>

\* The session is dead: the token is forgotten and a new OTP is needed.
Reject(r) ==
  /\ Step(r, "rejected")
  /\ token' = 0
  /\ lock' = LockFreed(r)
  /\ renew' = [renew EXCEPT ![r] = Ends(r, "refused")]
  /\ UNCHANGED <<client, expired, server, stray, lost, reused, spent>>

Expire ==
  /\ Valid(token) /\ server.issued < MaxTokens
  /\ expired' = expired \union {token}
  /\ UNCHANGED <<client, lock, renew, token, server, stray, lost, reused, spent>>

-----------------------------------------------------------------------------
Own(t) ==
  ConnectUp(t) \/ ConnectFailed(t) \/ DisconnectAwaited(t) \/ DisconnectClose(t)
    \/ (owner[t].pc = "disconnect" /\ Disconnect(t))
Supervise(s) ==
  Begin(s) \/ Provided(s) \/ DialUp(s) \/ DialRefused(s) \/ DialFails(s) \/ Retry(s)
    \/ Slept(s) \/ Restored(s) \/ Shut(s) \/ Decide(s) \/ Finally(s) \/ Ending(s)
    \/ CancelledAt(s)
Renew(r) ==
  EnsureAuthenticated(r) \/ Refresh(r) \/ Answer(r) \/ RequestFails(r) \/ Store(r) \/ Reject(r)

\* A task that has not reached an await that suspends runs on: there is one
\* thread, and nothing happens in between.
Runs(t) ==
  \/ t \in Owners /\ owner[t].pc \in {"disconnect", "close"}
  \/ t \in Tasks /\ sup[t].pc \in {"loop", "retry", "finally"}
  \/ t \in Renewers /\ renew[t].pc \in {"ensure", "check"}
  \/ t \in Tasks /\ renew[t].pc \in {"returned", "refused", "failed"}

Turn(t) == (\E u \in Owners \union Renewers : Runs(u)) => Runs(t)
Waits   == \A u \in Owners \union Renewers : ~Runs(u)

Next ==
  \/ \E t \in Owners : Turn(t) /\ (Connect(t) \/ CancelConnect(t) \/ Disconnect(t) \/ Own(t))
  \/ \E s \in Tasks : Turn(s) /\ (Supervise(s) \/ Served(s))
  \/ \E r \in Renewers : Turn(r) /\ (Renew(r) \/ Acquire(r))
  \/ Waits /\ (UserCalls \/ StrayArrives \/ Expire)

Spec == Init /\ [][Next]_vars

\* Nothing blocks: every task of the loop goes on, every request ends, and the
\* lock is handed out in the order it was asked for.
FairSpec ==
  /\ Spec
  /\ \A t \in Owners : WF_vars(Own(t))
  /\ \A s \in Tasks : WF_vars(Supervise(s))
  /\ \A r \in Renewers : WF_vars(Renew(r)) /\ SF_vars(Acquire(r))

-----------------------------------------------------------------------------
TypeOK ==
  /\ self \in [conn : Conns \union {NoConn}, sup : Tasks \union {NoTask}, closing : BOOLEAN]
  /\ owner \in [Owners -> [awaits : Tasks \union {NoTask},
       pc : {"idle", "connecting", "disconnect", "await", "close"},
       future : {"none", "pending", "up", "failed", "cancelled", "never"}]]
  /\ sup \in [Tasks -> [pc : {"start", "loop", "provider", "dial", "retry", "sleep", "restore",
       "serve", "shut", "shutting", "finally", "ending", "done"},
       pending : BOOLEAN, attempt : 0 .. MaxRetries - 1,
       retried : BOOLEAN, force : BOOLEAN, cancel : BOOLEAN, conn : Conns \union {NoConn},
       reason : {"none", "closed", "unauthorized", "refused", "refresh"}]]
  /\ open \subseteq Conns /\ drops \in 0 .. MaxDrops
  /\ lock \in Renewers \union {NoTask}
  /\ renew \in [Renewers -> [pc : {"idle", "ensure", "check", "lock", "sent", "answered",
       "rejected", "returned", "refused", "failed"}, force : BOOLEAN,
       observed : 0 .. MaxTokens, body : 0 .. MaxTokens, answer : 0 .. MaxTokens]]
  /\ token \in 0 .. MaxTokens
  /\ UNION {expired, stray, lost, reused, spent, server.rotated} \subseteq 1 .. MaxTokens
  /\ server.session \in 0 .. server.issued /\ server.issued \in 1 .. MaxTokens

\* Reusing a rotated refresh token revokes the session.  Whoever renews at the
\* same time, and wherever disconnect() cuts the supervisor off, _refresh
\* presents a rotated token only if an earlier request with that very token
\* was cut off before its answer could be stored.
ReuseOnlyAfterLoss == reused \subseteq lost

\* The old socket is always closed before a new one opens: the only socket
\* open is the one the client holds, so none leaks however connect(),
\* disconnect() and reconnections overlap.
NoSocketLeaks == open \subseteq {self.conn}

\* Once every disconnect() has returned and nobody has called connect() again,
\* no supervisor runs and no socket is open: neither a reconnect nor a dial
\* under way survives.
DisconnectStops ==
  (self.closing /\ \A t \in Owners : owner[t].pc \in {"idle", "connecting"}) =>
    open = {} /\ \A s \in Tasks : ~Running(s)

\* Every wait has somebody alive who ends it, whichever await a cancellation
\* strikes: the future a connect() awaits has a running supervisor, and the
\* lock is held by a refresh whose request is under way.  Left out is the
\* connect() whose supervisor was cancelled before its first step ("never").
WaitsForTheLiving ==
  /\ \A t \in Owners : owner[t].future = "pending" => Running(owner[t].awaits)
  /\ lock # NoTask => renew[lock].pc \in {"sent", "answered", "rejected"}

\* The docstring of connect(): it returns once the first connection is
\* established, or raises.  The code does not keep this when disconnect()
\* comes before the supervisor's first step.
ConnectReturns ==
  \A t \in Owners : owner[t].pc = "connecting" ~> owner[t].pc # "connecting"

-----------------------------------------------------------------------------
(* What the manager promises the server: RefreshSession, as the threads do. *)

Outstanding == IF lock = NoTask THEN 0 ELSE renew[lock].body

Session == INSTANCE RefreshSession WITH held <- token, outstanding <- Outstanding

\* Seen from the server, the tasks together behave as RefreshSession; a call
\* that is cancelled is one that fails.
ImplementsSession == Session!Spec
=============================================================================
