---------------------------- MODULE TokenManager ----------------------------
(***************************************************************************)
(* services/token_manager.py, the thread-based TokenManager: any number of *)
(* threads call refresh(), ensure_authenticated(), authenticate() and      *)
(* set_token() on one manager.  One action is one source line that reads   *)
(* or writes state another thread can see: _token, the Authorization       *)
(* header of the REST client, _refresh_lock, and the server.               *)
(*                                                                         *)
(* A token set is the number the server issued it under; 0 stands for      *)
(* None.  `expired' and `dead' are the sets for which is_token_expired and *)
(* not can_refresh hold, so time is the order in which numbers join them.  *)
(* The server keeps one session per apiKey: a login or a rotation replaces *)
(* it, a refresh token that was already rotated revokes it.                *)
(***************************************************************************)
EXTENDS Naturals

CONSTANTS
  Threads,       \* the threads that share the manager
  NoThread,      \* "nobody holds the lock"
  Calls,         \* the operations the threads use, a subset of AllCalls
  MaxTokens,     \* bound on the token sets the server issues
  PollAttempts   \* Smart OTP polls of one ensure_authenticated(), _poll_attempts

AllCalls == {"refresh", "ensure", "ensureOtp", "ensureTx", "login", "import"}

ASSUME ThreadsAssumption == NoThread \notin Threads
ASSUME CallsAssumption   == Calls \subseteq AllCalls
ASSUME BoundsAssumption  == MaxTokens \in Nat \ {0} /\ PollAttempts \in Nat \ {0}

VARIABLES
  token,      \* self._token
  header,     \* the access token in the REST client's Authorization header
  lock,       \* self._refresh_lock
  pc,         \* where each thread is
  call,       \* the operation each thread runs
  frame,      \* its locals: observed, body (the refresh token sent), answer, polls
  expired,    \* token sets whose access token is_token_expired
  dead,       \* token sets with not can_refresh
  issued,     \* server: token sets issued so far
  session,    \* server: the live token set of the apiKey, 0 when revoked
  consumed,   \* server: refresh tokens already rotated
  foreign,    \* token sets another process obtained and may hand to set_token
  lost,       \* history: rotated, but the answer never reached the client
  reused      \* history: refresh tokens presented after they were rotated

client == <<token, header, lock>>
local  == <<pc, call, frame>>
clock  == <<expired, dead>>
server == <<issued, session, consumed, foreign, lost, reused>>
vars   == <<client, local, clock, server>>

Resting == {"idle", "crashed", "none"}
Labels  == Resting \union
  {"e_check", "e_value", "e_branch", "e_return",
   "r_check", "r_observe", "r_acquire", "r_coalesce", "r_reuse", "r_recheck",
   "r_read", "r_sent", "r_store", "r_header", "r_rejected", "r_cleared",
   "r_failed", "r_return",
   "l_send", "l_sent", "l_store", "l_header", "l_return"}

NoFrame == [observed |-> 0, body |-> 0, answer |-> 0, polls |-> 0]

\* not is_token_expired, which is False for None
Valid(g) == g # 0 /\ g \notin expired

\* can_refresh, also False for None
Refreshable(g) == g # 0 /\ g \notin dead

Coalesced(observed) == Valid(token) /\ token # observed

Init ==
  /\ token = 0 /\ header = 0 /\ lock = NoThread
  /\ pc = [t \in Threads |-> "idle"]
  /\ call = [t \in Threads |-> "refresh"]
  /\ frame = [t \in Threads |-> NoFrame]
  /\ expired = {} /\ dead = {}
  /\ issued = 0 /\ session = 0 /\ consumed = {} /\ foreign = {}
  /\ lost = {} /\ reused = {}

-----------------------------------------------------------------------------
(* Control of one thread.                                                  *)

At(t, label) == pc[t] = label

Goto(t, label) ==
  /\ pc' = [pc EXCEPT ![t] = label]
  /\ UNCHANGED <<call, frame>>

\* A call, or the _refresh inside it, is over and its locals are gone: "crashed"
\* is an AttributeError on None, "none" a None result.
Leave(t, label) ==
  /\ pc' = [pc EXCEPT ![t] = label]
  /\ frame' = [frame EXCEPT ![t] = NoFrame]
  /\ UNCHANGED call

\* `return self._token' to the user, and the same for its access_token.
LeaveWithToken(t)  == Leave(t, IF token = 0 THEN "none" ELSE "idle")
LeaveWithAccess(t) == Leave(t, IF token = 0 THEN "crashed" ELSE "idle")

Entry(c) ==
  CASE c = "refresh" -> "r_check"
    [] c = "login"   -> "l_send"
    [] OTHER         -> "e_check"

Call(t) ==
  /\ pc[t] \in Resting
  /\ \E c \in Calls \ {"import"} :
       /\ call' = [call EXCEPT ![t] = c]
       /\ pc' = [pc EXCEPT ![t] = Entry(c)]
  /\ UNCHANGED <<client, frame, clock, server>>

\* set_token with a token set obtained elsewhere, each handed over once.
CallImport(t) ==
  /\ pc[t] \in Resting
  /\ "import" \in Calls
  /\ call' = [call EXCEPT ![t] = "import"]
  /\ pc' = [pc EXCEPT ![t] = "l_store"]
  /\ \E g \in foreign :
       /\ frame' = [frame EXCEPT ![t].answer = g]
       /\ foreign' = foreign \ {g}
  /\ UNCHANGED <<client, clock, issued, session, consumed, lost, reused>>

-----------------------------------------------------------------------------
(* ensure_authenticated                                                    *)

EnsureCheck(t) ==
  /\ At(t, "e_check")
  /\ Goto(t, IF Valid(token) THEN "e_value" ELSE "e_branch")
  /\ UNCHANGED <<client, clock, server>>

EnsureValue(t) ==
  /\ At(t, "e_value")
  /\ LeaveWithAccess(t)
  /\ UNCHANGED <<client, clock, server>>

EnsureBranch(t) ==
  /\ At(t, "e_branch")
  /\ \/ /\ Refreshable(token)
        /\ Goto(t, "r_check")
     \/ /\ ~Refreshable(token)
        /\ call[t] \in {"ensureOtp", "ensureTx"}
        /\ Goto(t, "l_send")
     \/ /\ ~Refreshable(token)
        /\ call[t] = "ensure"
        /\ Leave(t, "idle")
  /\ UNCHANGED <<client, clock, server>>

EnsureReturn(t) ==
  /\ At(t, "e_return")
  /\ LeaveWithAccess(t)
  /\ UNCHANGED <<client, clock, server>>

-----------------------------------------------------------------------------
(* _refresh                                                                *)

RefreshCheck(t) ==
  /\ At(t, "r_check")
  /\ IF Refreshable(token) THEN Goto(t, "r_observe") ELSE Leave(t, "idle")
  /\ UNCHANGED <<client, clock, server>>

RefreshObserve(t) ==
  /\ At(t, "r_observe")
  /\ pc' = [pc EXCEPT ![t] = "r_acquire"]
  /\ frame' = [frame EXCEPT ![t].observed = token]
  /\ UNCHANGED <<client, call, clock, server>>

\* Mutant: the lock is not waited for.
RefreshAcquireNoWait(t) ==
  /\ At(t, "r_acquire")
  /\ lock' = t
  /\ Goto(t, "r_coalesce")
  /\ UNCHANGED <<token, header, clock, server>>

RefreshAcquire(t) ==
  /\ At(t, "r_acquire")
  /\ lock = NoThread
  /\ lock' = t
  /\ Goto(t, "r_coalesce")
  /\ UNCHANGED <<token, header, clock, server>>

\* Mutant: refresh() forgets to look for a token obtained meanwhile.
RefreshCoalesceNever(t) ==
  /\ At(t, "r_coalesce")
  /\ Goto(t, IF call[t] # "refresh" /\ Valid(token) THEN "r_reuse" ELSE "r_recheck")
  /\ UNCHANGED <<client, clock, server>>

RefreshCoalesce(t) ==
  /\ At(t, "r_coalesce")
  /\ Goto(t, IF \/ Coalesced(frame[t].observed)
                \/ call[t] # "refresh" /\ Valid(token)
             THEN "r_reuse" ELSE "r_recheck")
  /\ UNCHANGED <<client, clock, server>>

RefreshReuse(t) ==
  /\ At(t, "r_reuse")
  /\ lock' = NoThread
  /\ IF call[t] = "refresh" THEN LeaveWithToken(t) ELSE Leave(t, "e_return")
  /\ UNCHANGED <<token, header, clock, server>>

RefreshRecheck(t) ==
  /\ At(t, "r_recheck")
  /\ \/ /\ Refreshable(token)
        /\ Goto(t, "r_read")
        /\ UNCHANGED lock
     \/ /\ ~Refreshable(token)
        /\ Leave(t, "idle")
        /\ lock' = NoThread
  /\ UNCHANGED <<token, header, clock, server>>

\* Mutant: posts the refresh token captured before the lock was held.
RefreshSendObserved(t) ==
  /\ At(t, "r_read")
  /\ pc' = [pc EXCEPT ![t] = "r_sent"]
  /\ frame' = [frame EXCEPT ![t].body = frame[t].observed]
  /\ UNCHANGED <<client, call, clock, server>>

\* Mutant: the lock covers the checks but not the request.
RefreshSendUnlocked(t) ==
  /\ At(t, "r_read")
  /\ pc' = [pc EXCEPT ![t] = "r_sent"]
  /\ frame' = [frame EXCEPT ![t].body = token]
  /\ lock' = NoThread
  /\ UNCHANGED <<token, header, call, clock, server>>

\* Reads self._token.refresh_token and posts it (retry=False).
RefreshSend(t) ==
  /\ At(t, "r_read")
  /\ \/ /\ token # 0
        /\ pc' = [pc EXCEPT ![t] = "r_sent"]
        /\ frame' = [frame EXCEPT ![t].body = token]
        /\ UNCHANGED <<lock, call>>
     \/ /\ token = 0
        /\ Leave(t, "crashed")
        /\ lock' = NoThread
  /\ UNCHANGED <<token, header, clock, server>>

\* _parse_token: the new token may carry no usable expiry or refresh token.
StoreAnswer(t) ==
  /\ token' = frame[t].answer
  /\ expired' \in {expired, expired \union {frame[t].answer}}
  /\ dead' \in {dead, dead \union {frame[t].answer}}

RefreshStore(t) ==
  /\ At(t, "r_store")
  /\ StoreAnswer(t)
  /\ Goto(t, "r_header")
  /\ UNCHANGED <<header, lock, server>>

\* set_auth_header reads self._token again; leaving the block releases the lock.
RefreshHeader(t) ==
  /\ At(t, "r_header")
  /\ \/ /\ token # 0
        /\ header' = token
        /\ Leave(t, IF call[t] = "refresh" THEN "r_return" ELSE "e_return")
     \/ /\ token = 0
        /\ Leave(t, "crashed")
        /\ UNCHANGED header
  /\ lock' = NoThread
  /\ UNCHANGED <<token, clock, server>>

\* A reauth code: _clear_token forgets the token, then the header.
RefreshClear(t) ==
  /\ At(t, "r_rejected")
  /\ token' = 0
  /\ Goto(t, "r_cleared")
  /\ UNCHANGED <<header, lock, clock, server>>

\* Mutant: the Authorization header outlives the token.
RefreshClearKeepsHeader(t) ==
  /\ At(t, "r_cleared")
  /\ lock' = NoThread
  /\ Leave(t, "idle")
  /\ UNCHANGED <<token, header, clock, server>>

RefreshClearHeader(t) ==
  /\ At(t, "r_cleared")
  /\ header' = 0
  /\ lock' = NoThread
  /\ Leave(t, "idle")
  /\ UNCHANGED <<token, clock, server>>

\* Mutant: every failure clears the token.
RefreshFailClears(t) ==
  /\ At(t, "r_failed")
  /\ token' = 0 /\ header' = 0
  /\ lock' = NoThread
  /\ Leave(t, "idle")
  /\ UNCHANGED <<clock, server>>

\* Mutant: acquire and release instead of a with block.
RefreshFailLocked(t) ==
  /\ At(t, "r_failed")
  /\ Leave(t, "idle")
  /\ UNCHANGED <<client, clock, server>>

\* Any other failure (timeout, 429, 5xx, unusable payload) leaves the token alone.
RefreshFail(t) ==
  /\ At(t, "r_failed")
  /\ lock' = NoThread
  /\ Leave(t, "idle")
  /\ UNCHANGED <<token, header, clock, server>>

RefreshReturn(t) ==
  /\ At(t, "r_return")
  /\ LeaveWithToken(t)
  /\ UNCHANGED <<client, clock, server>>

-----------------------------------------------------------------------------
(* authenticate, _poll_smart_otp and set_token                             *)

LoginSend(t) ==
  /\ At(t, "l_send")
  /\ Goto(t, "l_sent")
  /\ UNCHANGED <<client, clock, server>>

LoginStore(t) ==
  /\ At(t, "l_store")
  /\ StoreAnswer(t)
  /\ Goto(t, "l_header")
  /\ UNCHANGED <<header, lock, server>>

\* authenticate reads self._token again, set_token uses its argument.
LoginHeader(t) ==
  /\ At(t, "l_header")
  /\ \/ /\ call[t] = "import"
        /\ header' = frame[t].answer
        /\ Leave(t, "idle")
     \/ /\ call[t] # "import" /\ token # 0
        /\ header' = token
        /\ Goto(t, IF call[t] = "login" THEN "l_return" ELSE "e_return")
     \/ /\ call[t] # "import" /\ token = 0
        /\ Leave(t, "crashed")
        /\ UNCHANGED header
  /\ UNCHANGED <<token, lock, clock, server>>

LoginReturn(t) ==
  /\ At(t, "l_return")
  /\ LeaveWithToken(t)
  /\ UNCHANGED <<client, clock, server>>

-----------------------------------------------------------------------------
(* The server and the passage of time.                                     *)

\* The presented refresh token is the live one: it is rotated, and the answer
\* arrives, or it is lost (timeout, broken payload).
ServerRotate(t) ==
  /\ At(t, "r_sent")
  /\ frame[t].body = session
  /\ issued < MaxTokens
  /\ issued' = issued + 1
  /\ session' = issued + 1
  /\ consumed' = consumed \union {session}
  /\ \/ /\ pc' = [pc EXCEPT ![t] = "r_store"]
        /\ frame' = [frame EXCEPT ![t].answer = issued + 1]
        /\ UNCHANGED lost
     \/ /\ pc' = [pc EXCEPT ![t] = "r_failed"]
        /\ lost' = lost \union {session}
        /\ UNCHANGED frame
  /\ UNCHANGED <<client, call, clock, foreign, reused>>

\* Superseded or revoked: refused. Already rotated: the session is revoked too.
ServerReject(t) ==
  /\ At(t, "r_sent")
  /\ frame[t].body # session
  /\ IF frame[t].body \in consumed
     THEN session' = 0 /\ reused' = reused \union {frame[t].body}
     ELSE UNCHANGED <<session, reused>>
  /\ \E label \in {"r_rejected", "r_failed"} : Goto(t, label)
  /\ UNCHANGED <<client, clock, issued, consumed, foreign, lost>>

\* The request never got there, or got an error that is not a reauth code.
ServerUnavailable(t) ==
  /\ At(t, "r_sent")
  /\ Goto(t, "r_failed")
  /\ UNCHANGED <<client, clock, server>>

ServerLogin(t) ==
  /\ At(t, "l_sent")
  /\ issued < MaxTokens
  /\ issued' = issued + 1
  /\ session' = issued + 1
  /\ \/ /\ pc' = [pc EXCEPT ![t] = "l_store"]
        /\ frame' = [frame EXCEPT ![t].answer = issued + 1]
        /\ UNCHANGED call
     \/ Leave(t, "idle")
  /\ UNCHANGED <<client, clock, consumed, foreign, lost, reused>>

\* A wrong OTP, a rejected or expired Smart OTP transaction, or an outage.
ServerRefuseLogin(t) ==
  /\ At(t, "l_sent")
  /\ Leave(t, "idle")
  /\ UNCHANGED <<client, clock, server>>

\* Smart OTP still pending (202/401114): poll again or give up.
ServerPending(t) ==
  /\ At(t, "l_sent")
  /\ call[t] = "ensureTx"
  /\ \/ /\ frame[t].polls + 1 < PollAttempts
        /\ frame' = [frame EXCEPT ![t].polls = @ + 1]
        /\ pc' = [pc EXCEPT ![t] = "l_send"]
        /\ UNCHANGED call
     \/ /\ frame[t].polls + 1 >= PollAttempts
        /\ Leave(t, "idle")
  /\ UNCHANGED <<client, clock, server>>

\* A login of the same apiKey in another process.
OtherLogin ==
  /\ issued < MaxTokens
  /\ issued' = issued + 1
  /\ session' = issued + 1
  /\ foreign' = foreign \union {issued + 1}
  /\ UNCHANGED <<client, local, clock, consumed, lost, reused>>

RevokeSession ==
  /\ session # 0
  /\ session' = 0
  /\ UNCHANGED <<client, local, clock, issued, consumed, foreign, lost, reused>>

Expire ==
  /\ Valid(token)
  /\ expired' = expired \union {token}
  /\ UNCHANGED <<client, local, dead, server>>

ExpireRefresh ==
  /\ Refreshable(token)
  /\ dead' = dead \union {token}
  /\ UNCHANGED <<client, local, expired, server>>

-----------------------------------------------------------------------------
Ensure(t) == EnsureCheck(t) \/ EnsureValue(t) \/ EnsureBranch(t) \/ EnsureReturn(t)

Refresh(t) ==
  \/ RefreshCheck(t) \/ RefreshObserve(t) \/ RefreshAcquire(t)
  \/ RefreshCoalesce(t) \/ RefreshReuse(t) \/ RefreshRecheck(t)
  \/ RefreshSend(t) \/ RefreshStore(t) \/ RefreshHeader(t)
  \/ RefreshClear(t) \/ RefreshClearHeader(t) \/ RefreshFail(t)
  \/ RefreshReturn(t)

Login(t) == LoginSend(t) \/ LoginStore(t) \/ LoginHeader(t) \/ LoginReturn(t)

Answer(t) ==
  \/ ServerRotate(t) \/ ServerReject(t) \/ ServerUnavailable(t)
  \/ ServerLogin(t) \/ ServerRefuseLogin(t) \/ ServerPending(t)

Environment == OtherLogin \/ RevokeSession \/ Expire \/ ExpireRefresh

Next ==
  \/ \E t \in Threads :
       Call(t) \/ CallImport(t) \/ Ensure(t) \/ Refresh(t) \/ Login(t) \/ Answer(t)
  \/ Environment

Spec == Init /\ [][Next]_vars

\* The same threads after one completed authenticate().
LoggedInInit ==
  /\ token = 1 /\ header = 1 /\ lock = NoThread
  /\ pc = [t \in Threads |-> "idle"]
  /\ call = [t \in Threads |-> "refresh"]
  /\ frame = [t \in Threads |-> NoFrame]
  /\ expired = {} /\ dead = {}
  /\ issued = 1 /\ session = 1 /\ consumed = {} /\ foreign = {}
  /\ lost = {} /\ reused = {}

LoggedInSpec == LoggedInInit /\ [][Next]_vars

\* A thread in a call keeps running; a request is answered or times out.
Fairness == \A t \in Threads :
  /\ WF_vars(Ensure(t) \/ Refresh(t) \/ Login(t))
  /\ WF_vars(Answer(t))

FairSpec == LoggedInSpec /\ Fairness

-----------------------------------------------------------------------------
(* Properties.                                                             *)

TokenId == 0..MaxTokens
Issued  == 1..issued
Frames  == [observed : TokenId, body : TokenId, answer : TokenId,
            polls : 0..(PollAttempts - 1)]

\* Every variable keeps its type.
TypeOK ==
  /\ issued \in TokenId
  /\ token \in Issued \union {0} /\ header \in Issued \union {0}
  /\ session \in Issued \union {0}
  /\ lock \in Threads \union {NoThread}
  /\ pc \in [Threads -> Labels]
  /\ call \in [Threads -> AllCalls]
  /\ frame \in [Threads -> Frames]
  /\ expired \subseteq Issued /\ dead \subseteq Issued
  /\ consumed \subseteq Issued /\ foreign \subseteq Issued
  /\ lost \subseteq consumed /\ reused \subseteq consumed

\* Labels between posting a refresh token and dealing with the answer.
Flying == {"r_sent", "r_store", "r_rejected", "r_failed"}

\* At most one refresh request of the process is with the server, whatever
\* else the threads do: the lock of _refresh is single-flight.
SingleFlight ==
  \A t, u \in Threads : pc[t] \in Flying /\ pc[u] \in Flying => t = u

\* A rotated refresh token is presented again only when the client could not
\* know of the rotation, its answer being lost: neither a waiting thread nor a
\* late answer brings an old token set back and gets the session revoked.
NoReuse == reused \subseteq lost

\* The second read of self._token in _refresh never meets None: only _refresh
\* clears the token, and only under the lock.
RefreshHasToken == \A t \in Threads : At(t, "r_read") => token # 0

\* _clear_token forgets a token set only when its session is over.
ClearsOnlyDeadSession == [][token # 0 /\ token' = 0 => token # session]_vars

\* With no refresh under way, requests carry the access token of the current
\* token set: the two assignments are never left half done.
HeaderFollowsToken == lock = NoThread => header = token

\* A waiting thread reuses what the lock holder obtained: it posts a refresh
\* only for the token set it saw before it queued, or for an expired one.
NoRedundantRefresh == \A t \in Threads :
  At(t, "r_read") => token = frame[t].observed \/ ~Valid(token)

\* Whatever the server answers or fails to answer, the refresh lock is given up.
LockReleased == \A t \in Threads : lock = t ~> lock # t

-----------------------------------------------------------------------------
(* What the manager promises the server: RefreshSession.                   *)

Bodies(labels) == {frame[t].body : t \in {u \in Threads : pc[u] \in labels}}

Outstanding == IF Bodies(Flying) = {} THEN 0 ELSE CHOOSE r \in Bodies(Flying) : TRUE
Spent       == consumed \ (lost \union Bodies({"r_store"}))

Session == INSTANCE RefreshSession WITH
  held <- token, outstanding <- Outstanding, spent <- Spent

\* Seen from the server, the threads together behave as RefreshSession.
ImplementsSession == Session!Spec
=============================================================================
