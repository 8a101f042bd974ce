-------------------------- MODULE AsyncStreamProofs --------------------------
(***************************************************************************)
(* Proofs about AsyncStream, for any number of owners, supervisors,        *)
(* sockets, token sets and retries: who renews the token, which supervisor *)
(* may hold a socket, and who ends whose wait.                             *)
(***************************************************************************)
EXTENDS AsyncStream, TLAPS

-----------------------------------------------------------------------------
(* The invariants.                                                         *)

\* The shape of the state, as far as the proofs need it.
CallFields == {"pc", "force", "observed", "body", "answer"}
SupFields  == {"pc", "pending", "attempt", "retried", "force", "cancel", "conn", "reason"}
RenewShape == /\ renew = [r \in Renewers |-> renew[r]]
              /\ \A r \in Renewers : DOMAIN renew[r] = CallFields
SupShape   == /\ sup = [s \in Tasks |-> sup[s]]
              /\ \A s \in Tasks : DOMAIN sup[s] = SupFields
OwnerShape == /\ owner = [t \in Owners |-> owner[t]]
              /\ \A t \in Owners : DOMAIN owner[t] = {"pc", "awaits", "future"}
SelfShape  == DOMAIN self = {"conn", "sup", "closing"} /\ self.sup \in Tasks \union {NoTask}
Shape      == RenewShape /\ SupShape /\ OwnerShape /\ SelfShape

\* The lock is held by exactly the renewer whose request is under way.
Requesting == {"sent", "answered", "rejected"}
LockInv == /\ lock \in Renewers \union {NoTask}
           /\ \A r \in Renewers : renew[r].pc \in Requesting <=> lock = r

\* Only a supervisor that waits for its provider has a call of its own.
ProviderInv == \A s \in Tasks : renew[s].pc # "idle" => sup[s].pc = "provider"

\* What the server has issued, and what of it is where.
Issued == 1 .. server.issued
TokensInv ==
  /\ DOMAIN server = {"issued", "session", "rotated"} /\ server.issued \in Nat
  /\ token \in Issued \union {0} /\ server.rotated \subseteq Issued
  /\ stray \subseteq Issued \intersect lost
  /\ reused \subseteq lost
\* A refresh under way sends the token held; its answer has been nowhere else yet.
SentInv == \A r \in Renewers :
  /\ renew[r].pc \in Requesting => renew[r].body = token /\ token # 0
  /\ renew[r].pc = "answered" =>
       renew[r].answer \in Issued \ (server.rotated \union stray)
\* A rotated token still held is about to be replaced, or its answer was lost.
HeldInv == token \in server.rotated =>
  token \in lost \/ \E r \in Renewers : renew[r].pc = "answered"

\* A supervisor that is neither cancelled nor ending is the client's.
Active(s)  == sup[s].pc \notin {"done", "finally", "ending"} /\ ~sup[s].cancel
ActiveInv  == \A s \in Tasks : Active(s) => s = self.sup
\* A cancelled one still runs and is not the client's; a client that closes has none.
ForgottenInv == /\ \A s \in Tasks : sup[s].cancel => s # self.sup /\ sup[s].pc # "done"
                /\ self.closing => self.sup = NoTask

\* A socket is open only while a supervisor will still close it.
Closers   == {"restore", "serve", "shut", "finally"}
SocketInv == NoSocketLeaks /\ (open # {} => \E s \in Tasks : sup[s].pc \in Closers)

\* Each running supervisor is the client's, or somebody waits for its end.
AwaitedInv == \A s \in Tasks : sup[s].pc # "done" =>
  s = self.sup \/ \E t \in Owners : owner[t].pc = "await" /\ owner[t].awaits = s

\* Who waits for its first connection, and for whom.
Pending(t, s) == owner[t].future = "pending" /\ owner[t].awaits = s
FutureInv ==
  /\ \A t \in Owners : owner[t].future # "none" => owner[t].pc = "connecting"
  /\ \A t \in Owners : owner[t].future = "pending" =>
       owner[t].awaits \in Tasks /\ sup[owner[t].awaits].pc # "done"
\* Nobody waits any more for a supervisor that has come up, or that ends unless it
\* was cancelled once.
AnsweredInv == \A s \in Tasks, t \in Owners : Pending(t, s) =>
  /\ sup[s].pending /\ sup[s].pc \notin {"serve", "shut", "shutting"}
  /\ sup[s].pc \in {"finally", "ending"} => s # self.sup /\ ~sup[s].cancel

IInv == /\ Shape /\ LockInv /\ ProviderInv /\ TokensInv /\ SentInv /\ HeldInv
        /\ ActiveInv /\ ForgottenInv /\ SocketInv /\ AwaitedInv /\ FutureInv /\ AnsweredInv

TokenInv == RenewShape /\ LockInv /\ TokensInv /\ SentInv /\ HeldInv

-----------------------------------------------------------------------------
(* Renewing the token.                                                     *)

\* No call carries a request.
LEMMA RestingCalls ==
  /\ DOMAIN NoCall = CallFields /\ NoCall.pc = "idle"
  /\ \A r \in Renewers : \A outcome : outcome \notin Requesting =>
       DOMAIN Ends(r, outcome) = CallFields /\ Ends(r, outcome).pc \notin Requesting
  /\ \A r \in Renewers : DOMAIN After(r) = CallFields /\ After(r).pc \notin Requesting
BY DEF NoCall, CallFields, Ends, After, Requesting

\* A step of a call that is not inside the lock, before and after.
LEMMA OutsideLock ==
  ASSUME TokenInv, NEW r \in Renewers, renew[r].pc \notin Requesting,
         NEW c, DOMAIN c = CallFields, c.pc \notin Requesting,
         renew' = [renew EXCEPT ![r] = c], UNCHANGED <<lock, token, server, stray, lost, reused>>
  PROVE  TokenInv'
<1>1. RenewShape'
  BY DEF TokenInv, RenewShape
<1>2. LockInv' /\ TokensInv'
  BY DEF TokenInv, RenewShape, LockInv, TokensInv, Issued
<1>4. SentInv'
  BY DEF TokenInv, RenewShape, SentInv, Issued, Requesting
<1>3. HeldInv'
  BY <1>1 DEF TokenInv, RenewShape, HeldInv, Requesting
<1> QED  BY <1>1, <1>2, <1>3, <1>4 DEF TokenInv

\* Getting the lock: the call sends the token held, or ends.
LEMMA GrantedToken ==
  ASSUME TokenInv, NEW r \in Renewers, renew[r].pc \notin Requesting, lock = NoTask,
         NEW observed, Granted(r, observed), UNCHANGED session
  PROVE  TokenInv'
<1> DEFINE renewed == Valid(token) /\ (token # observed \/ ~renew[r].force)
           sends   == ~renewed /\ token # 0
<1>1. CASE sends
  <2> DEFINE c == [renew[r] EXCEPT !.pc = "sent", !.observed = 0, !.body = token]
  <2>1. lock' = r /\ renew' = [renew EXCEPT ![r] = c]
    BY <1>1 DEF Granted
  <2>2. DOMAIN c = CallFields /\ c.pc = "sent" /\ c.body = token
    BY DEF TokenInv, RenewShape, CallFields
  <2> HIDE DEF c
  <2>3. RenewShape'
    BY <2>1, <2>2 DEF TokenInv, RenewShape
  <2>4. LockInv'
    BY <2>1, <2>2, <2>3, TasksAssumption DEF TokenInv, RenewShape, LockInv, Requesting
  <2>5. TokensInv' /\ SentInv'
    BY <1>1, <2>1, <2>2 DEF TokenInv, RenewShape, TokensInv, SentInv, session, Issued, Requesting
  <2>6. HeldInv'
    BY <2>1, <2>2 DEF TokenInv, RenewShape, HeldInv, session, Requesting
  <2> QED  BY <2>3, <2>4, <2>5, <2>6 DEF TokenInv
<1>2. CASE ~sends
  <2>1. lock' = lock /\ renew' = [renew EXCEPT ![r] = IF renewed THEN After(r) ELSE Ends(r, "refused")]
    BY <1>2 DEF Granted
  <2>2. Ends(r, "refused").pc \notin Requesting /\ DOMAIN Ends(r, "refused") = CallFields
    BY RestingCalls DEF Requesting
  <2> QED  BY <2>1, <2>2, RestingCalls, OutsideLock DEF session
<1> QED  BY <1>1, <1>2

\* A request ends: the lock is released, and the token kept, replaced or forgotten.
LEMMA ReleaseToken ==
  ASSUME TokenInv, NEW r \in Renewers, renew[r].pc \in Requesting,
         NEW c, DOMAIN c = CallFields, c.pc \notin Requesting,
         renew' = [renew EXCEPT ![r] = c], lock' = LockFreed(r),
         server' = server, reused' = reused,
         lost \subseteq lost', stray' \subseteq stray \union (Issued \intersect lost'), stray \subseteq stray',
         token' \in Issued \union {0},
         token' \in server.rotated => token' \in lost'
  PROVE  TokenInv'
<1>1. RenewShape'
  BY DEF TokenInv, RenewShape
<1>2. lock = r /\ lock' = NoTask /\ \A q \in Renewers : renew'[q].pc \notin Requesting
  BY <1>1, TasksAssumption DEF TokenInv, RenewShape, LockInv, LockFreed
<1>3. LockInv' /\ SentInv'
  BY <1>2, TasksAssumption DEF LockInv, SentInv, Requesting
<1>4. TokensInv' /\ HeldInv'
  BY DEF TokenInv, TokensInv, HeldInv, Issued
<1> QED  BY <1>1, <1>3, <1>4 DEF TokenInv

\* The server takes a refresh token that some request carries or carried: the token
\* held, or one whose request was cut off.
LEMMA PresentedTokens ==
  ASSUME TokenInv, NEW body \in Issued, Presented(body),
         (body = token /\ (token \in server.rotated => token \in lost)) \/ body \in stray,
         UNCHANGED <<token, lost>>, stray' \subseteq stray
  PROVE  /\ TokensInv' /\ server.rotated \subseteq server'.rotated
         /\ server.issued <= server'.issued
         /\ server'.rotated \subseteq server.rotated \union {body}
         /\ Rotates(body) => server'.issued = server.issued + 1
<1>1. DOMAIN server = {"issued", "session", "rotated"} /\ server.issued \in Nat
  BY DEF TokenInv, TokensInv
<1>2. body \in server.rotated => body \in lost
  BY DEF TokenInv, TokensInv
<1>3. CASE Rotates(body)
  <2>1. server' = [issued |-> server.issued + 1, session |-> server.issued + 1,
                   rotated |-> server.rotated \union {body}]
    BY <1>3 DEF Presented
  <2>2. Issued \subseteq Issued'
    BY <1>1, <2>1 DEF Issued
  <2>3. reused' \subseteq lost
    BY <1>2 DEF Presented, Reuse, TokenInv, TokensInv
  <2> QED  BY <1>1, <2>1, <2>2, <2>3 DEF TokenInv, TokensInv
<1>4. CASE ~Rotates(body)
  <2>1. server' = server \/ server' = [server EXCEPT !.session = 0]
    BY <1>4 DEF Presented
  <2>2. DOMAIN server' = DOMAIN server /\ server'.issued = server.issued /\ server'.rotated = server.rotated
    BY <1>1, <2>1
  <2>3. reused' \subseteq lost
    BY <1>2 DEF Presented, Reuse, TokenInv, TokensInv
  <2> QED  BY <1>1, <1>4, <2>2, <2>3 DEF TokenInv, TokensInv, Issued
<1> QED  BY <1>3, <1>4

LEMMA AnswerToken ==
  ASSUME TokenInv, NEW r \in Renewers, Answer(r)
  PROVE  TokenInv'
<1> DEFINE body == renew[r].body
           c == [renew[r] EXCEPT
                  !.pc = IF Rotates(body) THEN "answered" ELSE "rejected",
                  !.answer = IF Rotates(body) THEN server.issued + 1 ELSE 0]
<1>1. renew[r].pc = "sent" /\ lock = r /\ body = token /\ token \in Issued
  BY DEF Answer, Step, TokenInv, LockInv, SentInv, TokensInv, Requesting
<1>2. \A q \in Renewers : q # r => renew[q].pc \notin Requesting
  BY <1>1 DEF TokenInv, LockInv
<1>3. token \in server.rotated => token \in lost
  BY <1>1, <1>2 DEF TokenInv, HeldInv, Requesting
<1>4. Presented(body) /\ UNCHANGED <<lock, token, stray, lost>>
  BY DEF Answer
<1>5. /\ TokensInv' /\ server'.rotated \subseteq server.rotated \union {body}
      /\ server.issued <= server'.issued
      /\ Rotates(body) => server'.issued = server.issued + 1
  BY <1>1, <1>3, <1>4, PresentedTokens
<1>6. renew' = [renew EXCEPT ![r] = c]
  BY DEF Answer, TokenInv, RenewShape
<1>7. /\ DOMAIN c = CallFields /\ c.body = body /\ c.pc \in {"answered", "rejected"}
      /\ c.pc = "answered" => Rotates(body) /\ c.answer = server.issued + 1
      /\ Rotates(body) => c.pc = "answered"
  BY DEF TokenInv, RenewShape, CallFields
<1> HIDE DEF c
<1>8. RenewShape'
  BY <1>6, <1>7 DEF TokenInv, RenewShape
<1>9. LockInv'
  BY <1>1, <1>2, <1>4, <1>6, <1>7 DEF TokenInv, RenewShape, LockInv, Requesting
<1>10. SentInv'
  <2>1. c.pc = "answered" => c.answer \in (Issued \ (server.rotated \union stray))'
    <3> SUFFICES ASSUME c.pc = "answered" PROVE c.answer \in (Issued \ (server.rotated \union stray))'
      OBVIOUS
    <3>1. c.answer = server'.issued /\ c.answer = server.issued + 1 /\ server.issued \in Nat
      BY <1>5, <1>7 DEF TokenInv, TokensInv
    <3>2. c.answer \notin Issued /\ c.answer \in Issued'
      BY <3>1 DEF Issued
    <3>3. server.rotated \union {body} \union stray \subseteq Issued
      BY <1>1 DEF TokenInv, TokensInv
    <3> QED  BY <1>4, <1>5, <3>2, <3>3
  <2> QED  BY <1>1, <1>2, <1>4, <1>6, <1>7, <2>1 DEF TokenInv, RenewShape, SentInv, Requesting
<1>11. HeldInv'
  <2>1. CASE Rotates(body)
    BY <1>6, <1>7, <2>1 DEF HeldInv, TokenInv, RenewShape
  <2>2. CASE ~Rotates(body)
    <3>1. server'.rotated = server.rotated
      BY <2>2 DEF Answer, Presented, TokenInv, TokensInv
    <3> QED  BY <1>3, <1>4, <3>1 DEF HeldInv
  <2> QED  BY <2>1, <2>2
<1> QED  BY <1>5, <1>8, <1>9, <1>10, <1>11 DEF TokenInv

LEMMA StrayToken ==
  ASSUME TokenInv, StrayArrives
  PROVE  TokenInv'
<1>1. PICK body \in stray : Presented(body) /\ stray' = stray \ {body}
  BY DEF StrayArrives
<1>2. UNCHANGED <<lock, renew, token, lost>> /\ body \in Issued /\ body \in lost
  BY <1>1 DEF StrayArrives, TokenInv, TokensInv
<1>3. /\ TokensInv' /\ server'.rotated \subseteq server.rotated \union {body}
      /\ server.issued <= server'.issued
  BY <1>1, <1>2, PresentedTokens
<1>4. SentInv'
  <2>1. server.issued \in Nat /\ server'.issued \in Nat
    BY <1>3 DEF TokenInv, TokensInv
  <2>2. Issued \subseteq Issued'
    BY <1>3, <2>1 DEF Issued
  <2> QED  BY <1>1, <1>2, <1>3, <2>2 DEF TokenInv, SentInv
<1>5. HeldInv'
  BY <1>2, <1>3 DEF TokenInv, HeldInv
<1> QED  BY <1>2, <1>3, <1>4, <1>5 DEF TokenInv, RenewShape, LockInv

\* The calls of _refresh and ensure_authenticated.
LEMMA RenewToken ==
  ASSUME TokenInv, NEW r \in Renewers, Renew(r) \/ Acquire(r)
  PROVE  TokenInv'
<1>0. DOMAIN renew[r] = CallFields /\ renew = [q \in Renewers |-> renew[q]]
  BY DEF TokenInv, RenewShape
<1>1. CASE EnsureAuthenticated(r)
  <2>1. PICK c : /\ renew' = [renew EXCEPT ![r] = c]
                 /\ c \in {Ends(r, "returned"), [NoCall EXCEPT !.pc = "check"], Ends(r, "refused")}
    BY <1>1 DEF EnsureAuthenticated
  <2>2. DOMAIN c = CallFields /\ c.pc \notin Requesting
    BY <2>1 DEF Ends, NoCall, CallFields, Requesting
  <2> QED  BY <1>1, <2>1, <2>2, OutsideLock DEF EnsureAuthenticated, Step, session, Requesting
<1>2. CASE Refresh(r)
  <2>0. renew[r].pc \notin Requesting
    BY <1>2 DEF Refresh, Step, Requesting
  <2>1. CASE renew' = [renew EXCEPT ![r] = Ends(r, "refused")] /\ UNCHANGED lock
    <3>1. Ends(r, "refused").pc \notin Requesting /\ DOMAIN Ends(r, "refused") = CallFields
      BY RestingCalls DEF Requesting
    <3> QED  BY <1>2, <2>0, <2>1, <3>1, OutsideLock DEF Refresh, session
  <2>2. CASE LockIsFree /\ Granted(r, token)
    BY <1>2, <2>0, <2>2, GrantedToken DEF Refresh, LockIsFree
  <2>3. CASE renew' = [renew EXCEPT ![r].pc = "lock", ![r].observed = token] /\ UNCHANGED lock
    <3> DEFINE c == [renew[r] EXCEPT !.pc = "lock", !.observed = token]
    <3>1. renew' = [renew EXCEPT ![r] = c] /\ DOMAIN c = CallFields /\ c.pc = "lock"
      BY <1>0, <2>3 DEF CallFields
    <3> HIDE DEF c
    <3> QED  BY <1>2, <2>0, <2>3, <3>1, OutsideLock DEF Refresh, session, Requesting
  <2> QED  BY <1>2, <2>1, <2>2, <2>3 DEF Refresh
<1>3. CASE Acquire(r)
  BY <1>3, GrantedToken DEF Acquire, Step, Requesting
<1>4. CASE Answer(r)
  BY <1>4, AnswerToken
<1>5. CASE RequestFails(r)
  <2>1. renew[r].pc = "sent" /\ renew[r].body = token /\ token \in Issued
    BY <1>5 DEF RequestFails, Step, TokenInv, SentInv, TokensInv, Requesting
  <2>2. lost' = lost \union {token} /\ stray' = stray \union {token}
    BY <1>5, <2>1 DEF RequestFails, CutOff
  <2>3. Ends(r, "failed").pc \notin Requesting /\ DOMAIN Ends(r, "failed") = CallFields
    BY RestingCalls DEF Requesting
  <2>4. renew' = [renew EXCEPT ![r] = Ends(r, "failed")] /\ lock' = LockFreed(r)
          /\ UNCHANGED <<token, server, reused>>
    BY <1>5 DEF RequestFails
  <2> QED  BY <2>1, <2>2, <2>3, <2>4, ReleaseToken DEF Requesting
<1>6. CASE Store(r)
  <2>1. renew[r].pc = "answered" /\ renew[r].answer \in Issued \ server.rotated
    BY <1>6 DEF Store, Step, TokenInv, SentInv
  <2>2. renew' = [renew EXCEPT ![r] = After(r)] /\ lock' = LockFreed(r) /\ token' = renew[r].answer
          /\ UNCHANGED <<server, stray, lost, reused>>
    BY <1>6 DEF Store
  <2> QED  BY <2>1, <2>2, RestingCalls, ReleaseToken DEF Requesting
<1>7. CASE Reject(r)
  <2>1. Ends(r, "refused").pc \notin Requesting /\ DOMAIN Ends(r, "refused") = CallFields
    BY RestingCalls DEF Requesting
  <2>2. renew[r].pc = "rejected" /\ renew' = [renew EXCEPT ![r] = Ends(r, "refused")]
          /\ lock' = LockFreed(r) /\ token' = 0 /\ UNCHANGED <<server, stray, lost, reused>>
    BY <1>7 DEF Reject, Step
  <2>3. 0 \notin server.rotated
    BY DEF TokenInv, TokensInv, Issued
  <2> QED  BY <2>1, <2>2, <2>3, ReleaseToken DEF Requesting
<1> QED  BY <1>1, <1>2, <1>3, <1>4, <1>5, <1>6, <1>7 DEF Renew

\* A supervisor that is cancelled in the middle of a refresh: the answer is lost.
LEMMA CancelToken ==
  ASSUME TokenInv, NEW s \in Tasks, CancelledAt(s)
  PROVE  TokenInv'
<1>1. /\ renew' = [renew EXCEPT ![s] = NoCall] /\ lock' = LockFreed(s) /\ s \in Renewers
      /\ UNCHANGED <<token, server, reused>>
  BY DEF CancelledAt, Renewers
<1>2. CASE renew[s].pc \in Requesting
  <2>1. renew[s].body = token /\ token \in Issued
    BY <1>1, <1>2 DEF TokenInv, SentInv, TokensInv
  <2>2. CASE renew[s].pc = "rejected"
    <3>1. token \in server.rotated => token \in lost
      BY <1>1, <1>2, <2>2 DEF TokenInv, HeldInv, LockInv, Requesting
    <3>2. UNCHANGED <<stray, lost>>
      BY <2>2 DEF CancelledAt
    <3> QED  BY <1>1, <1>2, <2>1, <3>1, <3>2, RestingCalls, ReleaseToken DEF Requesting
  <2>3. CASE renew[s].pc # "rejected"
    <3>1. lost' = lost \union {token} /\ stray' \in {stray, stray \union {token}}
      BY <1>2, <2>1, <2>3 DEF CancelledAt, CutOff, Requesting
    <3> QED  BY <1>1, <1>2, <2>1, <3>1, RestingCalls, ReleaseToken DEF Requesting
  <2> QED  BY <2>2, <2>3
<1>3. CASE renew[s].pc \notin Requesting
  <2>1. lock' = lock /\ UNCHANGED <<stray, lost>>
    BY <1>1, <1>3 DEF CancelledAt, LockFreed, TokenInv, LockInv, Requesting
  <2> QED  BY <1>1, <1>3, <2>1, RestingCalls, OutsideLock DEF Requesting
<1> QED  BY <1>2, <1>3

\* Every step keeps the token invariant.
LEMMA StepToken ==
  ASSUME TokenInv, ProviderInv, [Next]_vars
  PROVE  TokenInv'
<1>0. ASSUME UNCHANGED <<lock, renew, session>>
      PROVE  TokenInv'
  BY <1>0 DEF TokenInv, RenewShape, LockInv, TokensInv, SentInv, HeldInv, Issued, session
<1>1. ASSUME NEW t \in Owners, Connect(t) \/ CancelConnect(t) \/ Disconnect(t) \/ Own(t)
      PROVE  TokenInv'
  BY <1>0, <1>1 DEF Connect, CancelConnect, Disconnect, Own, ConnectUp, ConnectFailed,
                    DisconnectAwaited, DisconnectClose
<1>2. ASSUME NEW s \in Tasks, Begin(s)
      PROVE  TokenInv'
  <2>1. UNCHANGED <<lock, session>> /\ renew[s].pc = "idle" /\ s \in Renewers
    BY <1>2 DEF Begin, At, ProviderInv, Renewers
  <2>2. renew' = renew \/ \E pc \in {"check", "ensure"} : \E force :
          renew' = [renew EXCEPT ![s] = [NoCall EXCEPT !.pc = pc, !.force = force]]
    BY <1>2 DEF Begin
  <2>3. CASE renew' = renew
    BY <1>0, <2>1, <2>3
  <2>4. ASSUME NEW pc \in {"check", "ensure"}, NEW force,
               renew' = [renew EXCEPT ![s] = [NoCall EXCEPT !.pc = pc, !.force = force]]
        PROVE  TokenInv'
    <3> DEFINE c == [NoCall EXCEPT !.pc = pc, !.force = force]
    <3>1. DOMAIN c = CallFields /\ c.pc \notin Requesting
      BY DEF NoCall, CallFields, Requesting
    <3> HIDE DEF c
    <3>2. renew' = [renew EXCEPT ![s] = c]
      BY <2>4 DEF c
    <3> QED  BY <2>1, <3>1, <3>2, OutsideLock DEF session, Requesting
  <2> QED  BY <2>2, <2>3, <2>4
<1>3. ASSUME NEW s \in Tasks, Provided(s)
      PROVE  TokenInv'
  <2>1. /\ renew' = [renew EXCEPT ![s] = NoCall] /\ UNCHANGED <<lock, session>>
        /\ renew[s].pc \notin Requesting /\ s \in Renewers
    BY <1>3 DEF Provided, Requesting, Renewers
  <2> QED  BY <2>1, RestingCalls, OutsideLock DEF session, Requesting
<1>4. ASSUME NEW s \in Tasks,
             DialUp(s) \/ DialRefused(s) \/ DialFails(s) \/ Retry(s) \/ Slept(s) \/ Restored(s)
               \/ Shut(s) \/ Decide(s) \/ Finally(s) \/ Ending(s) \/ Served(s)
      PROVE  TokenInv'
  BY <1>0, <1>4 DEF DialUp, DialRefused, DialFails, Retry, Slept, Restored, Shut, Decide,
                    Finally, Ending, Served
<1>5. ASSUME NEW s \in Tasks, CancelledAt(s)
      PROVE  TokenInv'
  BY <1>5, CancelToken
<1>6. ASSUME NEW r \in Renewers, Renew(r) \/ Acquire(r)
      PROVE  TokenInv'
  BY <1>6, RenewToken
<1>7. CASE UserCalls
  <2>1. PICK force \in BOOLEAN : renew' = [renew EXCEPT ![User] =
          [NoCall EXCEPT !.pc = IF force THEN "check" ELSE "ensure", !.force = force]]
    BY <1>7 DEF UserCalls
  <2> DEFINE c == [NoCall EXCEPT !.pc = IF force THEN "check" ELSE "ensure", !.force = force]
  <2>2. DOMAIN c = CallFields /\ c.pc \notin Requesting /\ renew' = [renew EXCEPT ![User] = c]
    BY <2>1 DEF NoCall, CallFields, Requesting
  <2> HIDE DEF c
  <2>3. renew[User].pc \notin Requesting /\ User \in Renewers /\ UNCHANGED <<lock, session>>
    BY <1>7 DEF UserCalls, Requesting, Renewers
  <2> QED  BY <2>2, <2>3, OutsideLock DEF session
<1>8. CASE StrayArrives
  BY <1>8, StrayToken
<1>9. CASE Expire
  BY <1>9 DEF Expire, TokenInv, RenewShape, LockInv, TokensInv, SentInv, HeldInv, Issued
<1>10. CASE UNCHANGED vars
  BY <1>0, <1>10 DEF vars
<1> QED  BY <1>1, <1>2, <1>3, <1>4, <1>5, <1>6, <1>7, <1>8, <1>9, <1>10 DEF Next, Supervise

-----------------------------------------------------------------------------
(* Supervisors and owners.                                                 *)

\* Whom a step of a supervisor may move.
LEMMA SuperviseMoves ==
  ASSUME Shape, NEW s \in Tasks, Supervise(s) \/ Served(s)
  PROVE  sup' = [sup EXCEPT ![s] = sup'[s]] /\ DOMAIN sup'[s] = SupFields
<1> USE DEF Shape, SupShape
<1>1. ASSUME NEW label, Goto(s, label)
      PROVE  sup' = [sup EXCEPT ![s] = sup'[s]] /\ DOMAIN sup'[s] = SupFields
  BY <1>1 DEF Goto
<1>2. CASE Begin(s) \/ Provided(s) \/ DialFails(s) \/ Slept(s)
  BY <1>1, <1>2 DEF Begin, Provided, DialFails, Slept, Fail
<1>3. CASE DialUp(s)
  BY <1>3 DEF DialUp
<1>4. CASE DialRefused(s)
  BY <1>1, <1>4 DEF DialRefused, Fail
<1>5. CASE Retry(s)
  BY <1>1, <1>5 DEF Retry, Fail
<1>6. CASE Restored(s)
  BY <1>1, <1>6 DEF Restored
<1>7. CASE Shut(s) \/ Finally(s)
  BY <1>7 DEF Shut, Finally
<1>8. CASE Decide(s)
  BY <1>8 DEF Decide
<1>9. CASE Ending(s) \/ CancelledAt(s)
  BY <1>9 DEF Ending, CancelledAt, Done, SupFields
<1>10. CASE Served(s)
  BY <1>10 DEF Served
<1> QED  BY <1>2, <1>3, <1>4, <1>5, <1>6, <1>7, <1>8, <1>9, <1>10 DEF Supervise

\* Settle touches only those who wait for this supervisor.
LEMMA SettleShape ==
  ASSUME OwnerShape, NEW s, NEW outcome, owner' = Settle(s, outcome)
  PROVE  /\ OwnerShape'
         /\ \A t \in Owners :
              IF Pending(t, s)
              THEN /\ owner'[t].pc = owner[t].pc /\ owner'[t].awaits = NoTask
                   /\ owner'[t].future = outcome
              ELSE owner'[t] = owner[t]
BY DEF OwnerShape, Settle, Pending

\* What a step of a supervisor does to the attributes of the client, and to the owners.
LEMMA SuperviseRest ==
  ASSUME Shape, NEW s \in Tasks, Supervise(s) \/ Served(s)
  PROVE  /\ DOMAIN self' = DOMAIN self /\ self'.sup = self.sup /\ self'.closing = self.closing
         /\ owner' = owner \/ \E outcome \in {"up", "failed", "cancelled", "never"} :
                                owner' = Settle(s, outcome)
<1> USE DEF Shape, SelfShape
<1>1. CASE Begin(s) \/ Provided(s) \/ DialFails(s) \/ Slept(s) \/ DialRefused(s) \/ Retry(s)
             \/ Served(s)
  BY <1>1 DEF Begin, Provided, DialFails, Slept, DialRefused, Retry, Served, Fail
<1>2. CASE DialUp(s) \/ Shut(s) \/ Decide(s) \/ Finally(s)
  BY <1>2 DEF DialUp, Shut, Decide, Finally, TakeAndClose
<1>3. CASE Restored(s) \/ Ending(s) \/ CancelledAt(s)
  BY <1>3 DEF Restored, Ending, CancelledAt, Unanswered
<1> QED  BY <1>1, <1>2, <1>3 DEF Supervise

LEMMA InitShape == Init => Shape
BY DEF Init, Shape, RenewShape, SupShape, OwnerShape, SelfShape, NoCall, CallFields, Done,
       SupFields, Resting

LEMMA StepShape ==
  ASSUME Shape, RenewShape', [Next]_vars
  PROVE  Shape'
<1>1. ASSUME NEW t \in Owners, Connect(t) \/ CancelConnect(t) \/ Disconnect(t) \/ Own(t)
      PROVE  Shape'
  <2>1. SupShape'
    BY <1>1 DEF Shape, SupShape, SupFields, Connect, CancelConnect, Disconnect, Own, ConnectUp,
           ConnectFailed, DisconnectAwaited, DisconnectClose, Done
  <2>2. OwnerShape'
    BY <1>1 DEF Shape, OwnerShape, Connect, CancelConnect, Disconnect, Own, ConnectUp,
           ConnectFailed, DisconnectAwaited, DisconnectClose, Resting
  <2>3. CASE Connect(t)
    <3>1. PICK s \in Tasks : self' = [self EXCEPT !.closing = FALSE, !.sup = s]
      BY <2>3 DEF Connect, Free
    <3> QED  BY <2>1, <2>2, <3>1 DEF Shape, SelfShape
  <2>4. CASE ~Connect(t)
    <3>1. SelfShape'
      BY <1>1, <2>4 DEF Shape, SelfShape, CancelConnect, Disconnect, Own, ConnectUp,
             ConnectFailed, DisconnectAwaited, DisconnectClose, TakeAndClose
    <3> QED  BY <2>1, <2>2, <3>1 DEF Shape
  <2> QED  BY <2>3, <2>4
<1>2. ASSUME NEW s \in Tasks, Supervise(s) \/ Served(s)
      PROVE  Shape'
  <2>1. SupShape'
    BY <1>2, SuperviseMoves DEF Shape, SupShape
  <2>2. SelfShape' /\ OwnerShape'
    BY <1>2, SuperviseRest, SettleShape DEF Shape, SelfShape, OwnerShape
  <2> QED  BY <2>1, <2>2 DEF Shape
<1>3. ASSUME UNCHANGED <<self, owner, sup>>
      PROVE  Shape'
  BY <1>3 DEF Shape, SupShape, OwnerShape, SelfShape
<1>4. CASE (\E r \in Renewers : Renew(r) \/ Acquire(r)) \/ UserCalls \/ StrayArrives \/ Expire
  BY <1>3, <1>4 DEF Renew, Acquire, EnsureAuthenticated, Refresh, Answer, RequestFails, Store,
         Reject, UserCalls, StrayArrives, Expire, client
<1>5. CASE UNCHANGED vars
  BY <1>3, <1>5 DEF vars, client
<1> QED  BY <1>1, <1>2, <1>4, <1>5 DEF Next

\* A step to another label changes nothing else.
LEMMA GotoStep ==
  ASSUME Shape, NEW s \in Tasks, NEW label, Goto(s, label)
  PROVE  sup'[s] = [sup[s] EXCEPT !.pc = label] /\ sup'[s].pc = label
           /\ sup'[s].cancel = sup[s].cancel /\ sup'[s].pending = sup[s].pending
BY DEF Goto, Shape, SupShape, SupFields

\* How a step moves its supervisor: it stays cancelled or not, unless the step is the
\* cancellation, and never becomes active again.
LEMMA SuperviseSteps ==
  ASSUME Shape, ForgottenInv, NEW s \in Tasks, Supervise(s) \/ Served(s)
  PROVE  /\ sup[s].pc # "done"
         /\ Active(s)' => Active(s)
         /\ sup'[s].cancel => sup[s].cancel
         /\ sup'[s].pc = "done" => sup[s].pc \in {"start", "ending"}
         /\ sup[s].pc \in Closers /\ sup'[s].pc \notin Closers => open' = Closed(self.conn)
         /\ sup[s].pc = "provider" /\ sup'[s].pc # "provider" => renew'[s] = NoCall
<1> USE DEF Shape, SupShape, SupFields, RenewShape, Active, At, Closers
<1>1. CASE Begin(s)
  <2>1. sup'[s].pc \in {"finally", "provider"} /\ sup'[s].cancel = sup[s].cancel
    BY <1>1, GotoStep DEF Begin
  <2> QED  BY <1>1, <2>1 DEF Begin
<1>2. CASE Provided(s)
  <2>1. renew'[s] = NoCall
    BY <1>2 DEF Provided, Renewers
  <2>2. sup'[s].pc \in {"dial", "finally", "retry"} /\ sup'[s].cancel = sup[s].cancel
    BY <1>2, GotoStep DEF Provided, Fail
  <2> QED  BY <1>2, <2>1, <2>2 DEF Provided
<1>3. CASE DialUp(s)
  BY <1>3 DEF DialUp
<1>4. CASE DialRefused(s)
  <2>1. sup'[s].pc \in {"finally", "loop"} /\ sup'[s].cancel = sup[s].cancel
    <3>1. CASE Fail(s)
      BY <3>1, GotoStep DEF Fail
    <3>2. CASE ~Fail(s)
      BY <1>4, <3>2 DEF DialRefused
    <3> QED  BY <3>1, <3>2
  <2> QED  BY <1>4, <2>1 DEF DialRefused
<1>5. CASE DialFails(s) \/ Slept(s)
  BY <1>5 DEF DialFails, Slept, Goto
<1>6. CASE Retry(s)
  <2>1. sup'[s].pc \in {"finally", "sleep"} /\ sup'[s].cancel = sup[s].cancel
    <3>1. CASE Fail(s)
      BY <3>1, GotoStep DEF Fail
    <3>2. CASE ~Fail(s)
      BY <1>6, <3>2 DEF Retry
    <3> QED  BY <3>1, <3>2
  <2> QED  BY <1>6, <2>1 DEF Retry
<1>7. CASE Restored(s)
  BY <1>7 DEF Restored, Goto
<1>8. CASE Shut(s)
  BY <1>8 DEF Shut, TakeAndClose
<1>9. CASE Decide(s)
  <2>1. sup'[s].pc \in {"finally", "loop", "sleep"} /\ sup'[s].cancel = sup[s].cancel
    BY <1>9 DEF Decide
  <2> QED  BY <1>9, <2>1 DEF Decide
<1>10. CASE Finally(s)
  BY <1>10 DEF Finally, TakeAndClose
<1>11. CASE Ending(s)
  BY <1>11 DEF Ending, Done
<1>12. CASE CancelledAt(s)
  <2>1. renew'[s] = NoCall
    BY <1>12 DEF CancelledAt, Renewers
  <2>2. sup'[s] = IF sup[s].pc \in {"start", "ending"} THEN Done
                  ELSE [sup[s] EXCEPT !.cancel = FALSE, !.pc = "finally"]
    BY <1>12 DEF CancelledAt
  <2>3. CASE sup[s].pc \in {"start", "ending"}
    BY <1>12, <2>1, <2>2, <2>3 DEF CancelledAt, Done
  <2>4. CASE sup[s].pc \notin {"start", "ending"}
    BY <1>12, <2>1, <2>2, <2>4 DEF CancelledAt, ForgottenInv
  <2> QED  BY <2>3, <2>4
<1>13. CASE Served(s)
  BY <1>13 DEF Served
<1> QED  BY <1>1, <1>2, <1>3, <1>4, <1>5, <1>6, <1>7, <1>8, <1>9, <1>10, <1>11, <1>12,
            <1>13 DEF Supervise

\* connect() starts a supervisor nobody waits for any more.
LEMMA ConnectStep ==
  ASSUME Shape, NEW t \in Owners, Connect(t)
  PROVE  \E s \in Tasks :
           /\ sup[s].pc = "done" /\ \A u \in Owners : owner[u].awaits # s
           /\ sup' = [sup EXCEPT ![s] = sup'[s]]
           /\ sup'[s].pc = "start" /\ ~sup'[s].cancel /\ sup'[s].pending
           /\ self'.sup = s /\ ~self'.closing /\ self'.conn = self.conn
           /\ owner' = [owner EXCEPT ![t] = [pc |-> "connecting", awaits |-> s, future |-> "pending"]]
           /\ UNCHANGED <<open, renew, lock>>
<1>1. PICK s \in Free :
        /\ sup' = [sup EXCEPT ![s] = [Done EXCEPT !.pc = "start", !.pending = TRUE]]
        /\ self' = [self EXCEPT !.closing = FALSE, !.sup = s]
        /\ owner' = [owner EXCEPT ![t] = [pc |-> "connecting", awaits |-> s, future |-> "pending"]]
        /\ UNCHANGED <<open, renew, lock>>
  BY DEF Connect
<1>2. s \in Tasks /\ sup[s].pc = "done" /\ \A u \in Owners : owner[u].awaits # s
  BY DEF Free
<1>3. self'.sup = s /\ ~self'.closing /\ self'.conn = self.conn
  BY <1>1 DEF Shape, SelfShape
<1>4. sup'[s].pc = "start" /\ ~sup'[s].cancel /\ sup'[s].pending
  BY <1>1, <1>2 DEF Done, Shape, SupShape
<1>5. sup' = [sup EXCEPT ![s] = sup'[s]]
  BY <1>1, <1>2 DEF Shape, SupShape
<1> QED  BY <1>1, <1>2, <1>3, <1>4, <1>5

\* disconnect() cancels the client's supervisor, if it runs, and forgets it.
LEMMA DisconnectStep ==
  ASSUME Shape, NEW t \in Owners, Disconnect(t)
  PROVE  /\ self'.sup = NoTask /\ self'.closing /\ self'.conn = self.conn
         /\ \A s \in Tasks : /\ sup'[s].pc = sup[s].pc /\ sup'[s].pending = sup[s].pending
                             /\ IF s = self.sup /\ Running(s) THEN sup'[s].cancel
                                ELSE sup'[s] = sup[s]
         /\ owner' = [owner EXCEPT ![t] = owner'[t]] /\ owner[t].pc \in {"idle", "disconnect"}
         /\ owner'[t].future = owner[t].future
         /\ IF Running(self.sup) THEN owner'[t].pc = "await" /\ owner'[t].awaits = self.sup
                                 ELSE owner'[t].pc = "close"
         /\ UNCHANGED <<open, renew, lock>>
<1>1. self'.sup = NoTask /\ self'.closing /\ self'.conn = self.conn
  BY DEF Disconnect, Shape, SelfShape
<1>2. owner[t].pc \in {"idle", "disconnect"} /\ UNCHANGED <<open, renew, lock>>
  BY DEF Disconnect
<1>3. CASE Running(self.sup)
  <2>1. /\ sup' = [sup EXCEPT ![self.sup].cancel = TRUE] /\ self.sup \in Tasks
        /\ owner' = [owner EXCEPT ![t].pc = "await", ![t].awaits = self.sup]
    BY <1>3 DEF Disconnect, Running, Shape, SelfShape
  <2>2. \A s \in Tasks : /\ sup'[s].pc = sup[s].pc /\ sup'[s].pending = sup[s].pending
                         /\ IF s = self.sup /\ Running(s) THEN sup'[s].cancel
                            ELSE sup'[s] = sup[s]
    BY <1>3, <2>1 DEF Shape, SupShape, SupFields
  <2>3. /\ owner' = [owner EXCEPT ![t] = owner'[t]] /\ owner'[t].future = owner[t].future
        /\ owner'[t].pc = "await" /\ owner'[t].awaits = self.sup
    BY <2>1 DEF Shape, OwnerShape
  <2> QED  BY <1>1, <1>2, <1>3, <2>2, <2>3
<1>4. CASE ~Running(self.sup)
  <2>1. sup' = sup /\ owner' = [owner EXCEPT ![t].pc = "close"]
    BY <1>4 DEF Disconnect
  <2>2. /\ owner' = [owner EXCEPT ![t] = owner'[t]] /\ owner'[t].future = owner[t].future
        /\ owner'[t].pc = "close"
    BY <2>1 DEF Shape, OwnerShape
  <2> QED  BY <1>1, <1>2, <1>4, <2>1, <2>2
<1> QED  BY <1>3, <1>4

LEMMA StepProvider ==
  ASSUME Shape, ForgottenInv, ProviderInv, [Next]_vars
  PROVE  ProviderInv'
<1>1. ASSUME NEW t \in Owners, Connect(t) \/ CancelConnect(t) \/ Disconnect(t) \/ Own(t)
      PROVE  ProviderInv'
  <2>1. \A s \in Tasks : sup[s].pc = "provider" => sup'[s].pc = "provider"
    <3>1. CASE Connect(t)
      BY <3>1, ConnectStep DEF Shape, SupShape
    <3>2. CASE Disconnect(t)
      BY <3>2, DisconnectStep
    <3>3. CASE ~Connect(t) /\ ~Disconnect(t)
      BY <1>1, <3>3 DEF CancelConnect, Own, ConnectUp, ConnectFailed, DisconnectAwaited, DisconnectClose
    <3> QED  BY <3>1, <3>2, <3>3
  <2>2. renew' = renew
    BY <1>1 DEF Connect, CancelConnect, Disconnect, Own, ConnectUp,
           ConnectFailed, DisconnectAwaited, DisconnectClose
  <2> QED  BY <2>1, <2>2 DEF ProviderInv
<1>2. ASSUME NEW s \in Tasks, Supervise(s) \/ Served(s)
      PROVE  ProviderInv'
  <2>1. \A r \in Tasks \ {s} : sup'[r] = sup[r] /\ renew'[r] = renew[r]
    <3>1. renew' = [renew EXCEPT ![s] = renew'[s]]
      BY <1>2 DEF Supervise, Begin, Provided, DialUp, DialRefused, DialFails, Retry, Slept, Restored,
             Shut, Decide, Finally, Ending, CancelledAt, Served, Shape, RenewShape
    <3> QED  BY <1>2, <3>1, SuperviseMoves DEF Shape, SupShape, RenewShape, Renewers
  <2>2. renew'[s].pc # "idle" => sup'[s].pc = "provider"
    <3>1. CASE Begin(s)
      <4>1. self.closing => renew' = renew /\ renew[s].pc = "idle"
        BY <3>1 DEF Begin, At, ProviderInv
      <4>2. ~self.closing => sup'[s].pc = "provider"
        BY <3>1, GotoStep DEF Begin
      <4> QED  BY <4>1, <4>2
    <3>2. CASE ~Begin(s)
      <4>1. renew'[s] = renew[s] \/ renew'[s] = NoCall
        BY <1>2, <3>2 DEF Supervise, Provided, DialUp, DialRefused, DialFails, Retry, Slept, Restored,
             Shut, Decide, Finally, Ending, CancelledAt, Served, Shape, RenewShape, Renewers
      <4> QED  BY <1>2, <4>1, SuperviseSteps DEF ProviderInv, NoCall
    <3> QED  BY <3>1, <3>2
  <2> QED  BY <2>1, <2>2 DEF ProviderInv
<1>3. ASSUME sup' = sup, \A s \in Tasks : renew'[s].pc # "idle" => renew[s].pc # "idle"
      PROVE  ProviderInv'
  BY <1>3 DEF ProviderInv
<1>4. ASSUME NEW r \in Renewers, Renew(r) \/ Acquire(r)
      PROVE  ProviderInv'
  <2>1. renew[r].pc # "idle" /\ sup' = sup
    BY <1>4 DEF Renew, Acquire, EnsureAuthenticated, Refresh, Answer, RequestFails, Store,
         Reject, Step, client
  <2>2. \A s \in Renewers : s # r => renew'[s] = renew[s]
    BY <1>4 DEF Renew, Acquire, EnsureAuthenticated, Refresh, Answer, RequestFails, Store,
         Reject, Granted, Shape, RenewShape
  <2> QED  BY <1>3, <2>1, <2>2 DEF Renewers
<1>5. CASE UserCalls
  BY <1>3, <1>5, TasksAssumption DEF UserCalls, client, Shape, RenewShape, Renewers
<1>6. CASE StrayArrives \/ Expire \/ UNCHANGED vars
  BY <1>3, <1>6 DEF StrayArrives, Expire, vars, client
<1> QED  BY <1>1, <1>2, <1>4, <1>5, <1>6 DEF Next

\* A step is one of an owner, one of a supervisor, or leaves both alone.
LEMMA Steps ==
  ASSUME [Next]_vars
  PROVE  \/ \E t \in Owners : Turn(t) /\ (Connect(t) \/ CancelConnect(t) \/ Disconnect(t) \/ Own(t))
         \/ \E s \in Tasks : Turn(s) /\ (Supervise(s) \/ Served(s))
         \/ UNCHANGED <<self, owner, sup, open>>
<1>1. CASE (\E r \in Renewers : Renew(r) \/ Acquire(r)) \/ UserCalls \/ StrayArrives \/ Expire
  BY <1>1 DEF Renew, Acquire, EnsureAuthenticated, Refresh, Answer, RequestFails, Store,
         Reject, UserCalls, StrayArrives, Expire, client
<1>2. CASE UNCHANGED vars
  BY <1>2 DEF vars, client
<1> QED  BY <1>1, <1>2 DEF Next

\* The steps of an owner that only change what it waits for.
LEMMA OwnSteps ==
  ASSUME Shape, NEW t \in Owners, Connect(t) \/ CancelConnect(t) \/ Disconnect(t) \/ Own(t),
         ~Connect(t), ~Disconnect(t)
  PROVE  /\ sup' = sup /\ self'.sup = self.sup /\ self'.closing = self.closing
         /\ owner' = [owner EXCEPT ![t] = owner'[t]]
         /\ \/ self' = self /\ open' = open
            \/ self'.conn = NoConn /\ open' = Closed(self.conn)
<1>1. CASE CancelConnect(t)
  BY <1>1 DEF CancelConnect, Shape, OwnerShape
<1>2. CASE ~CancelConnect(t)
  BY <1>2 DEF Own, ConnectUp, ConnectFailed, DisconnectAwaited, DisconnectClose, TakeAndClose,
         Shape, SelfShape, OwnerShape, Resting
<1> QED  BY <1>1, <1>2

LEMMA StepActive ==
  ASSUME Shape, ActiveInv, ForgottenInv, [Next]_vars
  PROVE  ActiveInv' /\ ForgottenInv'
<1> USE DEF Active, ActiveInv, ForgottenInv
<1>1. ASSUME NEW t \in Owners, Connect(t) \/ CancelConnect(t) \/ Disconnect(t) \/ Own(t)
      PROVE  ActiveInv' /\ ForgottenInv'
  <2>1. CASE Connect(t)
    <3>1. PICK s \in Tasks :
           /\ sup[s].pc = "done" /\ sup' = [sup EXCEPT ![s] = sup'[s]]
           /\ sup'[s].pc = "start" /\ ~sup'[s].cancel
           /\ self'.sup = s /\ ~self'.closing
      BY <2>1, ConnectStep
    <3>2. \A u \in Tasks : u # s => sup'[u] = sup[u]
      BY <3>1 DEF Shape, SupShape
    <3>3. \A u \in Tasks : ~Active(u)
      BY <2>1, TasksAssumption DEF Connect, Running, Renewers
    <3> QED  BY <3>1, <3>2, <3>3
  <2>2. CASE Disconnect(t)
    <3>1. self'.sup = NoTask /\ NoTask \notin Tasks
      BY <2>2, DisconnectStep, TasksAssumption DEF Renewers
    <3>2. \A s \in Tasks : sup'[s].pc = sup[s].pc
            /\ IF s = self.sup /\ Running(s) THEN sup'[s].cancel ELSE sup'[s] = sup[s]
      BY <2>2, DisconnectStep
    <3> QED  BY <3>1, <3>2 DEF Running
  <2>3. CASE ~Connect(t) /\ ~Disconnect(t)
    BY <1>1, <2>3, OwnSteps
  <2> QED  BY <2>1, <2>2, <2>3
<1>2. ASSUME NEW s \in Tasks, Supervise(s) \/ Served(s)
      PROVE  ActiveInv' /\ ForgottenInv'
  <2>1. \A u \in Tasks : u # s => sup'[u] = sup[u]
    BY <1>2, SuperviseMoves DEF Shape, SupShape
  <2>2. self'.sup = self.sup /\ self'.closing = self.closing
    BY <1>2, SuperviseRest
  <2>3. Active(s)' => Active(s)
    BY <1>2, SuperviseSteps
  <2>4. ~sup'[s].cancel
    <3>1. CASE CancelledAt(s)
      BY <3>1 DEF CancelledAt, Done, Shape, SupShape, SupFields
    <3>2. CASE ~CancelledAt(s)
      <4>1. ~sup[s].cancel
        BY <1>2, <3>2 DEF Supervise, Begin, Provided, DialUp, DialRefused, DialFails, Retry,
           Slept, Restored, Shut, Decide, Finally, Ending, Served, At
      <4> QED  BY <1>2, <4>1, SuperviseSteps
    <3> QED  BY <3>1, <3>2
  <2> QED  BY <2>1, <2>2, <2>3, <2>4
<1>3. CASE UNCHANGED <<self, owner, sup, open>>
  BY <1>3
<1> QED  BY <1>1, <1>2, <1>3, Steps

\* A step of a supervisor other than the dial opens no socket, and what it leaves
\* open is the socket the client holds.
LEMMA OpenSteps ==
  ASSUME Shape, NoSocketLeaks, NEW s \in Tasks, Supervise(s) \/ Served(s), ~DialUp(s)
  PROVE  NoSocketLeaks' /\ open' \subseteq open
<1>1. CASE Shut(s) \/ Finally(s)
  BY <1>1 DEF Shut, Finally, TakeAndClose, Closed, NoSocketLeaks
<1>2. CASE Served(s)
  BY <1>2 DEF Served, NoSocketLeaks
<1>3. CASE ~Shut(s) /\ ~Finally(s) /\ ~Served(s)
  BY <1>3 DEF Supervise, Begin, Provided, DialRefused, DialFails, Retry, Slept, Restored,
         Decide, Ending, CancelledAt, NoSocketLeaks
<1> QED  BY <1>1, <1>2, <1>3

\* When a supervisor dials, no other one still has a socket to close.
LEMMA DialsAlone ==
  ASSUME SocketInv, ActiveInv, ProviderInv, NEW s \in Tasks, Turn(s), DialUp(s)
  PROVE  open = {}
<1> SUFFICES ASSUME NEW u \in Tasks, sup[u].pc \in Closers
             PROVE  FALSE
  BY DEF SocketInv
<1>1. sup[s].pc = "dial" /\ ~sup[s].cancel /\ ~sup[u].cancel
  BY DEF DialUp, At, Settled
<1>2. CASE sup[u].pc = "finally"
  <2>1. Runs(u) /\ u \in Renewers
    BY <1>2 DEF Runs, Renewers
  <2>2. Runs(s)
    BY <2>1 DEF Turn
  <2>3. s \notin Owners /\ renew[s].pc = "idle"
    BY <1>1, TasksAssumption DEF Renewers, ProviderInv
  <2> QED  BY <1>1, <2>2, <2>3 DEF Runs
<1>3. CASE sup[u].pc # "finally"
  BY <1>1, <1>3 DEF ActiveInv, Active, Closers
<1> QED  BY <1>2, <1>3

LEMMA StepSocket ==
  ASSUME Shape, ForgottenInv, ProviderInv, ActiveInv, SocketInv, [Next]_vars
  PROVE  SocketInv'
<1>0. ASSUME open' = open, self'.conn = self.conn,
             \A u \in Tasks : sup[u].pc \in Closers => sup'[u].pc = sup[u].pc
      PROVE  SocketInv'
  BY <1>0 DEF SocketInv, NoSocketLeaks
<1>1. ASSUME NEW t \in Owners, Connect(t) \/ CancelConnect(t) \/ Disconnect(t) \/ Own(t)
      PROVE  SocketInv'
  <2>1. CASE Connect(t)
    <3>1. PICK s \in Tasks :
           /\ sup[s].pc = "done" /\ sup' = [sup EXCEPT ![s] = sup'[s]]
           /\ self'.conn = self.conn /\ open' = open
      BY <2>1, ConnectStep
    <3>2. \A u \in Tasks : u # s => sup'[u] = sup[u]
      BY <3>1 DEF Shape, SupShape
    <3> QED  BY <1>0, <3>1, <3>2 DEF Closers
  <2>2. CASE Disconnect(t)
    BY <1>0, <2>2, DisconnectStep
  <2>3. CASE ~Connect(t) /\ ~Disconnect(t)
    <3>1. sup' = sup
      BY <1>1, <2>3, OwnSteps
    <3>2. \/ self' = self /\ open' = open
          \/ self'.conn = NoConn /\ open' = Closed(self.conn)
      BY <1>1, <2>3, OwnSteps
    <3>3. Closed(self.conn) = {}
      BY DEF Closed, SocketInv, NoSocketLeaks
    <3> QED  BY <3>1, <3>2, <3>3 DEF SocketInv, NoSocketLeaks
  <2> QED  BY <2>1, <2>2, <2>3
<1>2. ASSUME NEW s \in Tasks, Turn(s), Supervise(s) \/ Served(s)
      PROVE  SocketInv'
  <2>1. CASE DialUp(s)
    <3>1. open = {}
      BY <1>2, <2>1, DialsAlone
    <3>2. PICK c : open' = open \union {c} /\ self' = [self EXCEPT !.conn = c]
      BY <2>1 DEF DialUp
    <3>3. self'.conn = c
      BY <3>2 DEF Shape, SelfShape
    <3>4. sup'[s].pc = "restore"
      BY <2>1 DEF DialUp, Shape, SupShape, SupFields
    <3> QED  BY <3>1, <3>2, <3>3, <3>4 DEF SocketInv, NoSocketLeaks, Closers
  <2>2. CASE ~DialUp(s)
    <3>1. NoSocketLeaks' /\ open' \subseteq open
      BY <1>2, <2>2, OpenSteps DEF SocketInv
    <3>2. \A u \in Tasks : u # s => sup'[u] = sup[u]
      BY <1>2, SuperviseMoves DEF Shape, SupShape
    <3>3. sup[s].pc \in Closers /\ sup'[s].pc \notin Closers => open' = {}
      BY <1>2, SuperviseSteps DEF Closed, SocketInv, NoSocketLeaks
    <3> QED  BY <3>1, <3>2, <3>3 DEF SocketInv
  <2> QED  BY <2>1, <2>2
<1>3. CASE UNCHANGED <<self, owner, sup, open>>
  BY <1>0, <1>3
<1> QED  BY <1>1, <1>2, <1>3, Steps

LEMMA StepAwaited ==
  ASSUME Shape, ForgottenInv, FutureInv, AwaitedInv, [Next]_vars
  PROVE  AwaitedInv'
<1> DEFINE Awaiting(w, u) == owner[w].pc = "await" /\ owner[w].awaits = u
<1>1. ASSUME NEW t \in Owners, Connect(t) \/ CancelConnect(t) \/ Disconnect(t) \/ Own(t)
      PROVE  AwaitedInv'
  <2>1. CASE Connect(t)
    <3>1. PICK s \in Tasks :
           /\ sup' = [sup EXCEPT ![s] = sup'[s]] /\ self'.sup = s
           /\ owner' = [owner EXCEPT ![t] = [pc |-> "connecting", awaits |-> s, future |-> "pending"]]
      BY <2>1, ConnectStep
    <3>2. \A u \in Tasks : u # s => sup'[u] = sup[u]
      BY <3>1 DEF Shape, SupShape
    <3>3. owner[t].pc = "idle" /\ ~Running(self.sup)
      BY <2>1 DEF Connect
    <3>4. \A w \in Owners, u \in Tasks : Awaiting(w, u) => Awaiting(w, u)'
      BY <3>1, <3>3 DEF Shape, OwnerShape
    <3> QED  BY <3>1, <3>2, <3>3, <3>4, TasksAssumption DEF AwaitedInv, Running, Renewers
  <2>2. CASE Disconnect(t)
    <3>1. /\ \A u \in Tasks : sup'[u].pc = sup[u].pc
          /\ owner' = [owner EXCEPT ![t] = owner'[t]] /\ owner[t].pc \in {"idle", "disconnect"}
          /\ Running(self.sup) => owner'[t].pc = "await" /\ owner'[t].awaits = self.sup
      BY <2>2, DisconnectStep
    <3>2. \A w \in Owners, u \in Tasks : Awaiting(w, u) => Awaiting(w, u)'
      BY <3>1 DEF Shape, OwnerShape
    <3> QED  BY <3>1, <3>2, TasksAssumption DEF AwaitedInv, Running, Renewers
  <2>3. CASE ~Connect(t) /\ ~Disconnect(t)
    <3>1. sup' = sup /\ self'.sup = self.sup /\ owner' = [owner EXCEPT ![t] = owner'[t]]
      BY <1>1, <2>3, OwnSteps
    <3>2. owner[t].pc = "await" => Stopped(owner[t].awaits)
      BY <1>1, <2>3 DEF CancelConnect, Own, ConnectUp, ConnectFailed, DisconnectAwaited,
             DisconnectClose, FutureInv
    <3>3. \A w \in Owners, u \in Tasks : w # t /\ Awaiting(w, u) => Awaiting(w, u)'
      BY <3>1 DEF Shape, OwnerShape
    <3> QED  BY <3>1, <3>2, <3>3, TasksAssumption DEF AwaitedInv, Stopped, Running, Renewers
  <2> QED  BY <2>1, <2>2, <2>3
<1>2. ASSUME NEW s \in Tasks, Supervise(s) \/ Served(s)
      PROVE  AwaitedInv'
  <2>1. \A u \in Tasks : sup'[u].pc # "done" => sup[u].pc # "done"
    BY <1>2, SuperviseMoves, SuperviseSteps DEF Shape, SupShape
  <2>2. self'.sup = self.sup
    BY <1>2, SuperviseRest
  <2>3. \A w \in Owners, u \in Tasks : Awaiting(w, u) => Awaiting(w, u)'
    <3>1. owner' = owner \/ \E outcome : owner' = Settle(s, outcome)
      BY <1>2, SuperviseRest
    <3>2. \A w \in Owners : Pending(w, s) => owner[w].pc = "connecting"
      BY DEF FutureInv, Pending
    <3> QED  BY <3>1, <3>2, SettleShape DEF Shape
  <2> QED  BY <2>1, <2>2, <2>3 DEF AwaitedInv
<1>3. CASE UNCHANGED <<self, owner, sup, open>>
  BY <1>3 DEF AwaitedInv
<1> QED  BY <1>1, <1>2, <1>3, Steps

\* Whoever still waits after a step of this supervisor waited before, and the step
\* gave no answer.
LEMMA StillPending ==
  ASSUME Shape, NEW s \in Tasks, Supervise(s) \/ Served(s), NEW t \in Owners, NEW u \in Tasks,
         Pending(t, u)'
  PROVE  /\ Pending(t, u)
         /\ u = s => \A outcome \in {"up", "failed", "cancelled", "never"} : owner' # Settle(s, outcome)
<1>1. \A outcome \in {"up", "failed", "cancelled", "never"} :
        owner' = Settle(s, outcome) => ~Pending(t, s) /\ owner'[t] = owner[t]
  BY SettleShape, TasksAssumption DEF Shape, Pending, Renewers
<1>2. owner' = owner \/ \E outcome \in {"up", "failed", "cancelled", "never"} :
                          owner' = Settle(s, outcome)
  BY SuperviseRest
<1>3. Pending(t, u)
  BY <1>1, <1>2 DEF Pending
<1> QED  BY <1>1, <1>3

\* The answers owners get from supervisors.
AnswerInv == FutureInv /\ AnsweredInv

\* The steps of owners start a wait, or end one.
LEMMA OwnAnswers ==
  ASSUME Shape, AnswerInv, ForgottenInv, NEW t \in Owners,
         Connect(t) \/ CancelConnect(t) \/ Disconnect(t) \/ Own(t)
  PROVE  AnswerInv'
<1>1. CASE Connect(t)
  <2>1. PICK s \in Tasks :
         /\ sup[s].pc = "done" /\ \A u \in Owners : owner[u].awaits # s
         /\ sup' = [sup EXCEPT ![s] = sup'[s]]
         /\ sup'[s].pc = "start" /\ ~sup'[s].cancel /\ sup'[s].pending
         /\ self'.sup = s
         /\ owner' = [owner EXCEPT ![t] = [pc |-> "connecting", awaits |-> s, future |-> "pending"]]
    BY <1>1, ConnectStep
  <2>2. \A u \in Tasks : u # s => sup'[u] = sup[u]
    BY <2>1 DEF Shape, SupShape
  <2>3. /\ owner'[t].pc = "connecting" /\ owner'[t].awaits = s
        /\ \A w \in Owners : w # t => owner'[w] = owner[w]
    BY <2>1 DEF Shape, OwnerShape
  <2>4. FutureInv'
    BY <2>1, <2>2, <2>3 DEF AnswerInv, FutureInv
  <2>5. AnsweredInv'
    BY <2>1, <2>2, <2>3 DEF AnswerInv, AnsweredInv, Pending
  <2> QED  BY <2>4, <2>5 DEF AnswerInv
<1>2. CASE Disconnect(t)
  <2>1. /\ self'.sup = NoTask /\ owner[t].pc \in {"idle", "disconnect"}
        /\ owner' = [owner EXCEPT ![t] = owner'[t]] /\ owner'[t].future = owner[t].future
        /\ \A s \in Tasks : /\ sup'[s].pc = sup[s].pc /\ sup'[s].pending = sup[s].pending
                            /\ s # self.sup => sup'[s] = sup[s]
    BY <1>2, DisconnectStep
  <2>2. owner'[t].future = "none" /\ \A w \in Owners : w # t => owner'[w] = owner[w]
    BY <2>1 DEF AnswerInv, FutureInv, Shape, OwnerShape
  <2>3. FutureInv'
    BY <2>1, <2>2 DEF AnswerInv, FutureInv
  <2>4. AnsweredInv'
    BY <2>1, <2>2, TasksAssumption DEF AnswerInv, AnsweredInv, Pending, Renewers
  <2> QED  BY <2>3, <2>4 DEF AnswerInv
<1>3. CASE ~Connect(t) /\ ~Disconnect(t)
  <2>1. sup' = sup /\ self'.sup = self.sup /\ owner' = [owner EXCEPT ![t] = owner'[t]]
    BY <1>3, OwnSteps
  <2>2. owner'[t].future = "none" \/ (owner'[t].future = "cancelled" /\ owner'[t].pc = "connecting")
    <3>1. CASE CancelConnect(t)
      BY <3>1 DEF CancelConnect, AnswerInv, FutureInv, Shape, OwnerShape
    <3>2. CASE ConnectUp(t) \/ ConnectFailed(t) \/ DisconnectClose(t)
      BY <3>2 DEF ConnectUp, ConnectFailed, DisconnectClose, Resting, Shape, OwnerShape
    <3>3. CASE DisconnectAwaited(t)
      BY <3>3 DEF DisconnectAwaited, AnswerInv, FutureInv, Shape, OwnerShape
    <3> QED  BY <1>3, <3>1, <3>2, <3>3 DEF Own
  <2>3. \A w \in Owners : w # t => owner'[w] = owner[w]
    BY <2>1 DEF Shape, OwnerShape
  <2>4. FutureInv'
    BY <2>1, <2>2, <2>3 DEF AnswerInv, FutureInv
  <2>5. AnsweredInv'
    BY <2>1, <2>2, <2>3 DEF AnswerInv, AnsweredInv, Pending
  <2> QED  BY <2>4, <2>5 DEF AnswerInv
<1> QED  BY <1>1, <1>2, <1>3

\* A supervisor answers before it ends, and while it serves nobody waits.
LEMMA SuperviseAnswers ==
  ASSUME Shape, AnswerInv, ActiveInv, ForgottenInv, NEW s \in Tasks, Supervise(s) \/ Served(s)
  PROVE  AnswerInv'
<1>1. \A u \in Tasks : u # s => sup'[u] = sup[u]
  BY SuperviseMoves DEF Shape, SupShape
<1>2. self'.sup = self.sup
  BY SuperviseRest
<1>3. ASSUME NEW t \in Owners, Pending(t, s)'
      PROVE  /\ sup'[s].pending /\ sup'[s].pc \notin {"done", "serve", "shut", "shutting"}
             /\ sup'[s].pc \in {"finally", "ending"} => s # self.sup /\ ~sup'[s].cancel
  <2>1. Pending(t, s) /\ \A outcome \in {"up", "failed", "cancelled", "never"} : owner' # Settle(s, outcome)
    BY <1>3, StillPending
  <2>2. /\ sup[s].pending /\ sup[s].pc \notin {"serve", "shut", "shutting"}
        /\ sup[s].pc \in {"finally", "ending"} => s # self.sup /\ ~sup[s].cancel
    BY <2>1 DEF AnswerInv, AnsweredInv
  <2>3. CASE Begin(s)
    <3>1. ~self.closing
      BY <2>3, TasksAssumption DEF Begin, At, ActiveInv, Active, ForgottenInv, Renewers
    <3>2. Goto(s, "provider")
      BY <2>3, <3>1 DEF Begin
    <3>3. sup'[s].pc = "provider" /\ sup'[s].pending = sup[s].pending
      BY <3>2, GotoStep
    <3> QED  BY <2>2, <3>3
  <2>4. CASE Provided(s) \/ DialFails(s) \/ Slept(s)
    <3>1. Goto(s, "dial") \/ Goto(s, "retry") \/ Goto(s, "loop")
      BY <2>1, <2>4 DEF Provided, DialFails, Slept, Fail
    <3>2. sup'[s].pc \in {"dial", "retry", "loop"} /\ sup'[s].pending = sup[s].pending
      BY <3>1, GotoStep
    <3> QED  BY <2>2, <3>2
  <2>5. CASE DialUp(s) \/ DialRefused(s) \/ Retry(s)
    BY <2>1, <2>2, <2>5 DEF DialUp, DialRefused, Retry, Fail, Shape, SupShape, SupFields
  <2>6. CASE Finally(s)
    BY <2>2, <2>6 DEF Finally, At, Shape, SupShape, SupFields
  <2>7. CASE CancelledAt(s)
    <3>1. sup[s].pc \notin {"start", "ending"} /\ sup[s].cancel
      BY <2>1, <2>2, <2>7 DEF CancelledAt
    <3>2. sup'[s] = [sup[s] EXCEPT !.cancel = FALSE, !.pc = "finally"]
      BY <2>7, <3>1 DEF CancelledAt, Shape, SupShape
    <3> QED  BY <2>2, <3>1, <3>2 DEF ForgottenInv, Shape, SupShape, SupFields
  <2>8. CASE Served(s) \/ Restored(s) \/ Shut(s) \/ Decide(s) \/ Ending(s)
    BY <2>1, <2>2, <2>8 DEF Served, Restored, Shut, Decide, Ending, Unanswered, At
  <2> QED  BY <2>3, <2>4, <2>5, <2>6, <2>7, <2>8 DEF Supervise
<1>4. FutureInv'
  <2>1. \A t \in Owners : owner'[t].future # "none" => owner'[t].pc = "connecting"
    BY SuperviseRest, SettleShape DEF Shape, AnswerInv, FutureInv, Pending
  <2>2. ASSUME NEW t \in Owners, owner'[t].future = "pending"
        PROVE  owner'[t].awaits \in Tasks /\ sup'[owner'[t].awaits].pc # "done"
    <3>1. owner'[t] = owner[t]
      BY <2>2, SuperviseRest, SettleShape DEF Shape
    <3>2. owner[t].awaits \in Tasks /\ sup[owner[t].awaits].pc # "done"
      BY <2>2, <3>1 DEF AnswerInv, FutureInv
    <3> QED  BY <1>1, <1>3, <2>2, <3>1, <3>2 DEF Pending
  <2> QED  BY <2>1, <2>2 DEF FutureInv
<1>5. AnsweredInv'
  <2>1. \A t \in Owners, u \in Tasks : Pending(t, u)' => Pending(t, u)
    BY StillPending
  <2> QED  BY <1>1, <1>2, <1>3, <2>1 DEF AnswerInv, AnsweredInv
<1> QED  BY <1>4, <1>5 DEF AnswerInv

LEMMA StepAnswers ==
  ASSUME Shape, AnswerInv, ActiveInv, ForgottenInv, [Next]_vars
  PROVE  AnswerInv'
<1>1. CASE UNCHANGED <<self, owner, sup, open>>
  BY <1>1 DEF AnswerInv, FutureInv, AnsweredInv, Pending
<1> QED  BY <1>1, Steps, OwnAnswers, SuperviseAnswers

-----------------------------------------------------------------------------
(* The theorems.                                                           *)

LEMMA InitIInv == Init => IInv
<1> SUFFICES ASSUME Init PROVE IInv
  OBVIOUS
<1>1. Shape
  BY InitShape
<1>2. LockInv /\ ProviderInv /\ SentInv
  BY TasksAssumption DEF Init, LockInv, ProviderInv, SentInv, NoCall, Requesting, Renewers
<1>3. TokensInv /\ HeldInv
  BY DEF Init, TokensInv, HeldInv, Issued
<1>4. ActiveInv /\ ForgottenInv /\ SocketInv /\ AwaitedInv
  BY DEF Init, Done, ActiveInv, Active, ForgottenInv, SocketInv, NoSocketLeaks, AwaitedInv
<1>5. FutureInv /\ AnsweredInv
  BY DEF Init, Resting, FutureInv, AnsweredInv, Pending
<1> QED  BY <1>1, <1>2, <1>3, <1>4, <1>5 DEF IInv

LEMMA StepIInv == IInv /\ [Next]_vars => IInv'
<1> SUFFICES ASSUME IInv, [Next]_vars PROVE IInv'
  OBVIOUS
<1>1. TokenInv'
  BY StepToken DEF IInv, TokenInv, Shape
<1>2. Shape'
  BY <1>1, StepShape DEF IInv, TokenInv
<1>3. ProviderInv' /\ ActiveInv' /\ ForgottenInv'
  BY StepProvider, StepActive DEF IInv
<1>4. SocketInv' /\ AwaitedInv'
  BY StepSocket, StepAwaited DEF IInv
<1>5. AnswerInv'
  BY StepAnswers DEF IInv, AnswerInv
<1> QED  BY <1>1, <1>2, <1>3, <1>4, <1>5 DEF IInv, TokenInv, AnswerInv

LEMMA AlwaysIInv == Spec => []IInv
BY InitIInv, StepIInv, PTL DEF Spec

\* A rotated refresh token is presented to the server only after a request with that
\* token was cut off: by a lost answer, or by disconnect() cancelling the
\* supervisor inside _refresh.  Whoever else renews at the same time, nobody
\* presents a token twice.
THEOREM ReuseNeedsLoss == Spec => []ReuseOnlyAfterLoss
<1>1. IInv => ReuseOnlyAfterLoss
  BY DEF IInv, TokensInv, ReuseOnlyAfterLoss
<1> QED  BY <1>1, AlwaysIInv, PTL

\* The only socket open is the one the client holds, whatever connect(), disconnect()
\* and reconnections of however many owners overlap.
THEOREM SocketsDoNotLeak == Spec => []NoSocketLeaks
<1>1. IInv => NoSocketLeaks
  BY DEF IInv, SocketInv
<1> QED  BY <1>1, AlwaysIInv, PTL

\* Once every disconnect() has returned and nobody has called connect() since, no
\* supervisor runs and no socket is open.
THEOREM DisconnectEndsAll == Spec => []DisconnectStops
<1>1. IInv => DisconnectStops
  <2> SUFFICES ASSUME IInv, self.closing, \A t \in Owners : owner[t].pc \in {"idle", "connecting"}
               PROVE  open = {} /\ \A s \in Tasks : ~Running(s)
    BY DEF DisconnectStops
  <2>1. \A s \in Tasks : sup[s].pc = "done"
    BY TasksAssumption DEF IInv, ForgottenInv, AwaitedInv, Renewers
  <2> QED  BY <2>1 DEF IInv, SocketInv, Closers, Running
<1> QED  BY <1>1, AlwaysIInv, PTL

\* The future a connect() awaits has a supervisor that runs, and the lock of the token
\* manager a refresh whose request is under way, wherever a cancellation struck.
THEOREM WaitsHaveAnEnd == Spec => []WaitsForTheLiving
<1>1. IInv => WaitsForTheLiving
  BY TasksAssumption DEF IInv, LockInv, FutureInv, WaitsForTheLiving, Running, Requesting, Renewers
<1> QED  BY <1>1, AlwaysIInv, PTL

-----------------------------------------------------------------------------
(* The types of the variables.                                             *)

SelfType == [conn : Conns \union {NoConn}, sup : Tasks \union {NoTask}, closing : BOOLEAN]
Outcomes == {"none", "pending", "up", "failed", "cancelled", "never"}
OwnerType == [awaits : Tasks \union {NoTask},
              pc : {"idle", "connecting", "disconnect", "await", "close"}, future : Outcomes]
SupLabels == {"start", "loop", "provider", "dial", "retry", "sleep", "restore",
              "serve", "shut", "shutting", "finally", "ending", "done"}
Attempts == 0 .. MaxRetries - 1
SupType == [pc : SupLabels, pending : BOOLEAN, attempt : Attempts,
            retried : BOOLEAN, force : BOOLEAN, cancel : BOOLEAN, conn : Conns \union {NoConn},
            reason : {"none", "closed", "unauthorized", "refused", "refresh"}]
TokenIds == 0 .. MaxTokens
CallType == [pc : {"idle", "ensure", "check", "lock", "sent", "answered",
                   "rejected", "returned", "refused", "failed"}, force : BOOLEAN,
             observed : TokenIds, body : TokenIds, answer : TokenIds]

ClientTyped == /\ self \in SelfType /\ owner \in [Owners -> OwnerType]
               /\ sup \in [Tasks -> SupType] /\ open \subseteq Conns
CallsTyped  == /\ renew \in [Renewers -> CallType] /\ token \in TokenIds
               /\ server.session \in 0 .. server.issued /\ server.issued \in 1 .. MaxTokens
               /\ expired \subseteq Issued /\ lost \subseteq Issued /\ spent \subseteq Issued

\* What the invariant does not already say of the types.
LEMMA TypeParts ==
  ASSUME IInv, ClientTyped, CallsTyped, drops \in 0 .. MaxDrops
  PROVE  TypeOK
<1>1. Issued \subseteq 1 .. MaxTokens
  BY BoundsAssumption DEF Issued, CallsTyped
<1>2. /\ expired \subseteq Issued /\ stray \subseteq Issued /\ lost \subseteq Issued /\ spent \subseteq Issued
      /\ reused \subseteq Issued /\ server.rotated \subseteq Issued
  BY DEF IInv, TokensInv, CallsTyped
<1>3. UNION {expired, stray, lost, reused, spent, server.rotated} \subseteq 1 .. MaxTokens
  BY <1>1, <1>2
<1>4. lock \in Renewers \union {NoTask}
  BY DEF IInv, LockInv
<1>5. /\ self \in [conn : Conns \union {NoConn}, sup : Tasks \union {NoTask}, closing : BOOLEAN]
      /\ owner \in [Owners -> [awaits : Tasks \union {NoTask},
           pc : {"idle", "connecting", "disconnect", "await", "close"},
           future : {"none", "pending", "up", "failed", "cancelled", "never"}]]
  BY DEF ClientTyped, SelfType, OwnerType, Outcomes
<1>6. sup \in [Tasks -> SupType] /\ open \subseteq Conns
  BY DEF ClientTyped
<1>7. renew \in [Renewers -> CallType] /\ token \in 0 .. MaxTokens
  BY DEF CallsTyped, TokenIds
<1> QED
  BY <1>3, <1>4, <1>5, <1>6, <1>7 DEF TypeOK, SupType, SupLabels, Attempts, CallType, TokenIds, CallsTyped

-----------------------------------------------------------------------------
(* The client.                                                             *)

LEMMA DoneTyped == Done \in SupType
<1>1. 0 \in Attempts
  BY BoundsAssumption DEF Attempts
<1> QED  BY <1>1 DEF Done, SupType, SupLabels

LEMMA SettleTyped ==
  ASSUME owner \in [Owners -> OwnerType], NEW s \in Tasks, NEW outcome \in Outcomes
  PROVE  Settle(s, outcome) \in [Owners -> OwnerType]
BY DEF Settle, OwnerType

LEMMA GotoTyped ==
  ASSUME sup \in [Tasks -> SupType], NEW s \in Tasks, NEW label \in SupLabels, Goto(s, label)
  PROVE  sup' \in [Tasks -> SupType]
BY DEF Goto, SupType

LEMMA TakeTyped ==
  ASSUME self \in SelfType, open \subseteq Conns, TakeAndClose
  PROVE  self' \in SelfType /\ open' \subseteq Conns
BY DEF TakeAndClose, Closed, SelfType

LEMMA OwnersTyped ==
  ASSUME ClientTyped, NEW t \in Owners, Connect(t) \/ CancelConnect(t) \/ Disconnect(t) \/ Own(t)
  PROVE  ClientTyped' /\ drops' = drops
<1>0. /\ self \in SelfType /\ owner \in [Owners -> OwnerType] /\ sup \in [Tasks -> SupType]
      /\ open \subseteq Conns /\ owner[t] \in OwnerType /\ Resting \in OwnerType
  BY DEF ClientTyped, Resting, OwnerType, Outcomes
<1>1. CASE Connect(t)
  <2>1. PICK s \in Free : /\ sup' = [sup EXCEPT ![s] = [Done EXCEPT !.pc = "start", !.pending = TRUE]]
                          /\ self' = [self EXCEPT !.closing = FALSE, !.sup = s]
                          /\ owner' = [owner EXCEPT ![t] =
                               [pc |-> "connecting", awaits |-> s, future |-> "pending"]]
    BY <1>1 DEF Connect
  <2>2. s \in Tasks
    BY DEF Free
  <2>3. [Done EXCEPT !.pc = "start", !.pending = TRUE] \in SupType
    BY DoneTyped DEF SupType, SupLabels
  <2>4. self' \in SelfType /\ owner' \in [Owners -> OwnerType]
    BY <1>0, <2>1, <2>2 DEF SelfType, OwnerType, Outcomes
  <2>5. sup' \in [Tasks -> SupType]
    BY <1>0, <2>1, <2>3
  <2> QED  BY <1>0, <1>1, <2>4, <2>5 DEF Connect, ClientTyped
<1>2. CASE CancelConnect(t) \/ ConnectUp(t) \/ ConnectFailed(t) \/ DisconnectAwaited(t)
  <2>1. owner' \in [Owners -> OwnerType]
    BY <1>0, <1>2 DEF CancelConnect, ConnectUp, ConnectFailed, DisconnectAwaited, OwnerType, Outcomes
  <2> QED  BY <1>0, <1>2, <2>1 DEF CancelConnect, ConnectUp, ConnectFailed, DisconnectAwaited, ClientTyped
<1>3. CASE Disconnect(t)
  <2>1. self' \in SelfType
    BY <1>0, <1>3 DEF Disconnect, SelfType
  <2>2. owner' \in [Owners -> OwnerType] /\ sup' \in [Tasks -> SupType]
    <3>1. CASE Running(self.sup)
      <4>1. self.sup \in Tasks
        BY <1>0, <3>1 DEF SelfType, Running
      <4>2. owner' = [owner EXCEPT ![t].pc = "await", ![t].awaits = self.sup]
            /\ sup' = [sup EXCEPT ![self.sup].cancel = TRUE]
        BY <1>3, <3>1 DEF Disconnect
      <4>3. owner' \in [Owners -> OwnerType]
        BY <1>0, <4>1, <4>2 DEF OwnerType
      <4>4. sup' \in [Tasks -> SupType]
        BY <1>0, <4>1, <4>2 DEF SupType
      <4> QED  BY <4>3, <4>4
    <3>2. CASE ~Running(self.sup)
      <4>1. owner' = [owner EXCEPT ![t].pc = "close"] /\ sup' = sup
        BY <1>3, <3>2 DEF Disconnect
      <4> QED  BY <1>0, <4>1 DEF OwnerType
    <3> QED  BY <3>1, <3>2
  <2> QED  BY <1>0, <1>3, <2>1, <2>2 DEF Disconnect, ClientTyped
<1>4. CASE DisconnectClose(t)
  <2>1. self' \in SelfType /\ open' \subseteq Conns
    BY <1>0, <1>4, TakeTyped DEF DisconnectClose
  <2> QED  BY <1>0, <1>4, <2>1 DEF DisconnectClose, ClientTyped
<1> QED  BY <1>1, <1>2, <1>3, <1>4 DEF Own

\* The supervisor; a connect() gives up before its count of attempts reaches the bound.
LEMMA SupervisorTyped ==
  ASSUME ClientTyped, drops \in 0 .. MaxDrops, NEW s \in Tasks, Supervise(s) \/ Served(s)
  PROVE  ClientTyped' /\ drops' \in 0 .. MaxDrops
<1>0. /\ self \in SelfType /\ owner \in [Owners -> OwnerType] /\ sup \in [Tasks -> SupType]
      /\ open \subseteq Conns /\ sup[s] \in SupType
  BY DEF ClientTyped
<1>f. ASSUME Fail(s) PROVE owner' \in [Owners -> OwnerType] /\ sup' \in [Tasks -> SupType]
  <2>1. owner' = Settle(s, "failed") /\ Goto(s, "finally")
    BY <1>f DEF Fail
  <2> QED  BY <1>0, <2>1, SettleTyped, GotoTyped DEF Outcomes, SupLabels
<1>d. drops < MaxDrops => drops + 1 \in 0 .. MaxDrops
  BY BoundsAssumption
<1>1. CASE Begin(s) \/ Slept(s)
  <2>1. \E label \in SupLabels : Goto(s, label)
    BY <1>1 DEF Begin, Slept, SupLabels
  <2>2. sup' \in [Tasks -> SupType]
    BY <1>0, <2>1, GotoTyped
  <2> QED  BY <1>0, <1>1, <2>2 DEF Begin, Slept, ClientTyped
<1>2. CASE Provided(s)
  <2>1. Fail(s) \/ (owner' = owner /\ \E label \in SupLabels : Goto(s, label))
    BY <1>2 DEF Provided, SupLabels
  <2>2. sup' \in [Tasks -> SupType] /\ owner' \in [Owners -> OwnerType]
    BY <1>0, <1>f, <2>1, GotoTyped
  <2> QED  BY <1>0, <1>2, <2>2 DEF Provided, ClientTyped
<1>3. CASE DialUp(s)
  <2>1. PICK c \in Conns \ open :
          /\ open' = open \union {c} /\ self' = [self EXCEPT !.conn = c]
          /\ sup' = [sup EXCEPT ![s].pc = "restore", ![s].conn = c, ![s].force = FALSE]
    BY <1>3 DEF DialUp
  <2>2. self' \in SelfType /\ open' \subseteq Conns
    BY <1>0, <2>1 DEF SelfType
  <2>3. sup' \in [Tasks -> SupType]
    BY <1>0, <2>1 DEF SupType, SupLabels
  <2> QED  BY <1>0, <1>3, <2>2, <2>3 DEF DialUp, ClientTyped
<1>4. CASE DialRefused(s)
  <2>1. \/ Fail(s)
        \/ /\ owner' = owner
           /\ sup' = [sup EXCEPT ![s].pc = "loop", ![s].retried = TRUE, ![s].force = TRUE]
    BY <1>4 DEF DialRefused
  <2>2. sup' \in [Tasks -> SupType] /\ owner' \in [Owners -> OwnerType]
    BY <1>0, <1>f, <2>1 DEF SupType, SupLabels
  <2>3. drops' \in 0 .. MaxDrops
    BY <1>4, <1>d DEF DialRefused
  <2> QED  BY <1>0, <1>4, <2>2, <2>3 DEF DialRefused, ClientTyped
<1>5. CASE DialFails(s)
  <2>1. sup' \in [Tasks -> SupType]
    BY <1>0, <1>5, GotoTyped DEF DialFails, SupLabels
  <2>2. drops' \in 0 .. MaxDrops
    BY <1>5, <1>d DEF DialFails
  <2> QED  BY <1>0, <1>5, <2>1, <2>2 DEF DialFails, ClientTyped
<1>6. CASE Retry(s)
  <2>1. CASE Fail(s)
    BY <1>0, <1>6, <1>f, <2>1 DEF Retry, ClientTyped
  <2>2. CASE /\ ~GivesUp(s) /\ owner' = owner
             /\ sup' = [sup EXCEPT ![s].pc = "sleep",
                                   ![s].attempt = IF sup[s].pending THEN @ + 1 ELSE @]
    <3> DEFINE attempt == IF sup[s].pending THEN sup[s].attempt + 1 ELSE sup[s].attempt
    <3>1. sup[s].attempt \in Attempts /\ sup[s].pending \in BOOLEAN
      BY <1>0 DEF SupType
    <3>2. attempt \in Attempts
      BY <2>2, <3>1, BoundsAssumption DEF GivesUp, Attempts
    <3>3. sup' = [sup EXCEPT ![s] = [sup[s] EXCEPT !.pc = "sleep", !.attempt = attempt]]
      BY <1>0, <2>2 DEF SupType
    <3> HIDE DEF attempt
    <3>4. [sup[s] EXCEPT !.pc = "sleep", !.attempt = attempt] \in SupType
      BY <1>0, <3>2 DEF SupType, SupLabels
    <3>5. sup' \in [Tasks -> SupType]
      BY <1>0, <3>3, <3>4
    <3> QED  BY <1>0, <1>6, <2>2, <3>5 DEF Retry, ClientTyped
  <2> QED  BY <1>6, <2>1, <2>2 DEF Retry
<1>7. CASE Restored(s)
  <2>1. owner' \in [Owners -> OwnerType]
    BY <1>0, <1>7, SettleTyped DEF Restored, Outcomes
  <2>2. sup' \in [Tasks -> SupType]
    <3>1. CASE Goto(s, "finally")
      BY <1>0, <3>1, GotoTyped DEF SupLabels
    <3>2. CASE sup' = [sup EXCEPT ![s].pc = "serve", ![s].pending = FALSE, ![s].attempt = 0]
      <4>1. 0 \in Attempts
        BY BoundsAssumption DEF Attempts
      <4> QED  BY <1>0, <3>2, <4>1 DEF SupType, SupLabels
    <3> QED  BY <1>7, <3>1, <3>2 DEF Restored
  <2> QED  BY <1>0, <1>7, <2>1, <2>2 DEF Restored, ClientTyped
<1>8. CASE Served(s)
  <2>1. PICK reason \in {"closed", "unauthorized", "refused", "refresh"} :
          /\ sup[s].conn \in open /\ reason # "refresh" => drops < MaxDrops
          /\ drops' = IF reason = "refresh" \/ sup[s].conn \notin open THEN drops ELSE drops + 1
          /\ open' = IF reason = "closed" THEN open \ {sup[s].conn} ELSE open
          /\ sup' = [sup EXCEPT ![s].pc = "shut", ![s].reason = reason]
    BY <1>8 DEF Served
  <2>2. sup' \in [Tasks -> SupType]
    BY <1>0, <2>1 DEF SupType, SupLabels
  <2>3. open' \subseteq Conns
    BY <1>0, <2>1
  <2>4. drops' \in 0 .. MaxDrops
    BY <1>d, <2>1
  <2> QED  BY <1>0, <1>8, <2>2, <2>3, <2>4 DEF Served, ClientTyped
<1>9. CASE Shut(s) \/ Finally(s)
  <2>1. self' \in SelfType /\ open' \subseteq Conns
    BY <1>0, <1>9, TakeTyped DEF Shut, Finally
  <2>2. sup' \in [Tasks -> SupType]
    BY <1>0, <1>9 DEF Shut, Finally, SupType, SupLabels
  <2> QED  BY <1>0, <1>9, <2>1, <2>2 DEF Shut, Finally, ClientTyped
<1>10. CASE Decide(s)
  <2>1. PICK force \in BOOLEAN, label \in {"finally", "loop", "sleep"}, retried \in BOOLEAN :
          sup' = [sup EXCEPT ![s].reason = "none", ![s].force = force, ![s].pc = label,
                             ![s].retried = retried]
    <3> DEFINE reason  == sup[s].reason
               renewal == reason \in {"refresh", "unauthorized"}
               last == \/ self.closing
                       \/ reason = "unauthorized" /\ sup[s].retried
                       \/ reason = "closed" /\ ~AutoReconnect
               label   == IF last THEN "finally" ELSE IF renewal THEN "loop" ELSE "sleep"
               retried == reason # "closed" /\ (sup[s].retried \/ reason = "unauthorized")
    <3>1. renewal \in BOOLEAN /\ label \in {"finally", "loop", "sleep"} /\ retried \in BOOLEAN
      OBVIOUS
    <3>2. sup' = [sup EXCEPT ![s].reason = "none", ![s].force = renewal, ![s].pc = label,
                             ![s].retried = retried]
      BY <1>0, <1>10 DEF Decide, SupType
    <3> HIDE DEF reason, renewal, last, label, retried
    <3> QED  BY <3>1, <3>2
  <2>2. sup' \in [Tasks -> SupType]
    BY <1>0, <2>1 DEF SupType, SupLabels
  <2> QED  BY <1>0, <1>10, <2>2 DEF Decide, ClientTyped
<1>11. CASE Ending(s)
  <2>1. owner' \in [Owners -> OwnerType]
    BY <1>0, <1>11, SettleTyped DEF Ending, Unanswered, Outcomes
  <2>2. sup' \in [Tasks -> SupType]
    BY <1>0, <1>11, DoneTyped DEF Ending
  <2> QED  BY <1>0, <1>11, <2>1, <2>2 DEF Ending, ClientTyped
<1>12. CASE CancelledAt(s)
  <2>1. owner' \in [Owners -> OwnerType]
    BY <1>0, <1>12, SettleTyped DEF CancelledAt, Outcomes
  <2>2. sup' \in [Tasks -> SupType]
    <3>1. [sup[s] EXCEPT !.cancel = FALSE, !.pc = "finally"] \in SupType
      BY <1>0 DEF SupType, SupLabels
    <3>2. \/ sup' = [sup EXCEPT ![s] = Done]
          \/ sup' = [sup EXCEPT ![s] = [sup[s] EXCEPT !.cancel = FALSE, !.pc = "finally"]]
      BY <1>0, <1>12 DEF CancelledAt
    <3> QED  BY <1>0, <3>1, <3>2, DoneTyped
  <2> QED  BY <1>0, <1>12, <2>1, <2>2 DEF CancelledAt, ClientTyped
<1> QED
  BY <1>1, <1>2, <1>3, <1>4, <1>5, <1>6, <1>7, <1>8, <1>9, <1>10, <1>11, <1>12 DEF Supervise

-----------------------------------------------------------------------------
(* The token manager.                                                      *)

LEMMA CallTyped ==
  /\ NoCall \in CallType
  /\ \A r \in Renewers : /\ After(r) \in CallType
                         /\ \A outcome \in {"returned", "refused", "failed"} :
                              Ends(r, outcome) \in CallType
<1>1. 0 \in TokenIds
  BY BoundsAssumption DEF TokenIds
<1> QED  BY <1>1 DEF NoCall, After, Ends, CallType

LEMMA StartTyped ==
  ASSUME NEW force \in BOOLEAN, NEW label \in {"ensure", "check"}
  PROVE  [NoCall EXCEPT !.pc = label, !.force = force] \in CallType
<1>1. 0 \in TokenIds
  BY BoundsAssumption DEF TokenIds
<1> QED  BY <1>1 DEF NoCall, CallType

LEMMA GrantedTyped ==
  ASSUME CallsTyped, NEW r \in Renewers, NEW observed, Granted(r, observed)
  PROVE  renew' \in [Renewers -> CallType]
<1> DEFINE renewed == Valid(token) /\ (token # observed \/ ~renew[r].force)
           sends   == ~renewed /\ token # 0
<1>0. renew[r] \in CallType /\ token \in TokenIds /\ 0 \in TokenIds
  BY BoundsAssumption DEF CallsTyped, TokenIds
<1>1. [renew[r] EXCEPT !.pc = "sent", !.observed = 0, !.body = token] \in CallType
  BY <1>0 DEF CallType
<1>2. \/ renew' = [renew EXCEPT ![r] = [renew[r] EXCEPT !.pc = "sent", !.observed = 0, !.body = token]]
      \/ renew' = [renew EXCEPT ![r] = After(r)]
      \/ renew' = [renew EXCEPT ![r] = Ends(r, "refused")]
  BY DEF Granted, CallsTyped
<1> QED  BY <1>1, <1>2, CallTyped DEF CallsTyped

\* The session of the server after a refresh token was presented.
LEMMA PresentedTyped ==
  ASSUME TokensInv, CallsTyped, NEW body, Presented(body)
  PROVE  /\ server'.session \in 0 .. server'.issued /\ server'.issued \in 1 .. MaxTokens
         /\ Issued \subseteq Issued'
         /\ Rotates(body) => server.issued + 1 \in TokenIds
<1>0. /\ DOMAIN server = {"issued", "session", "rotated"} /\ server.session \in 0 .. server.issued
      /\ server.issued \in 1 .. MaxTokens /\ server.issued \in Nat
  BY BoundsAssumption DEF TokensInv, CallsTyped
<1>1. CASE Rotates(body)
  <2>1. server'.session = server.issued + 1 /\ server'.issued = server.issued + 1
    BY <1>1 DEF Presented
  <2>2. server.issued + 1 \in 1 .. MaxTokens /\ server.issued + 1 \in 0 .. server.issued + 1
    BY <1>0, <1>1, BoundsAssumption DEF Rotates
  <2> QED  BY <1>0, <2>1, <2>2, BoundsAssumption DEF Issued, TokenIds
<1>2. CASE ~Rotates(body)
  <2>1. server' = server \/ server' = [server EXCEPT !.session = 0]
    BY <1>2 DEF Presented
  <2>2. server'.issued = server.issued /\ server'.session \in {0, server.session}
    BY <1>0, <2>1
  <2>3. 0 \in 0 .. server.issued
    BY <1>0
  <2> QED  BY <1>0, <1>2, <2>2, <2>3 DEF Issued
<1> QED  BY <1>1, <1>2

LEMMA RenewTyped ==
  ASSUME TokenInv, CallsTyped, drops \in 0 .. MaxDrops, NEW r \in Renewers, Renew(r) \/ Acquire(r)
  PROVE  CallsTyped' /\ drops' \in 0 .. MaxDrops /\ UNCHANGED <<self, owner, sup, open>>
<1>0. renew \in [Renewers -> CallType] /\ renew[r] \in CallType /\ token \in TokenIds
  BY DEF CallsTyped
<1>1. CASE EnsureAuthenticated(r)
  <2>1. [NoCall EXCEPT !.pc = "check"] \in CallType
    <3>1. 0 \in TokenIds
      BY BoundsAssumption DEF TokenIds
    <3> QED  BY <3>1 DEF NoCall, CallType
  <2>2. \E c \in {Ends(r, "returned"), Ends(r, "refused"), [NoCall EXCEPT !.pc = "check"]} :
          renew' = [renew EXCEPT ![r] = c]
    BY <1>1 DEF EnsureAuthenticated
  <2>3. renew' \in [Renewers -> CallType]
    BY <1>0, <2>1, <2>2, CallTyped
  <2> QED  BY <1>1, <2>3 DEF EnsureAuthenticated, CallsTyped, Issued, session, client
<1>2. CASE Refresh(r)
  <2>1. renew' \in [Renewers -> CallType]
    <3>1. CASE renew' = [renew EXCEPT ![r] = Ends(r, "refused")]
      BY <1>0, <3>1, CallTyped
    <3>2. CASE Granted(r, token)
      BY <3>2, GrantedTyped
    <3>3. CASE renew' = [renew EXCEPT ![r].pc = "lock", ![r].observed = token]
      BY <1>0, <3>3 DEF CallType
    <3> QED  BY <1>2, <3>1, <3>2, <3>3 DEF Refresh
  <2> QED  BY <1>2, <2>1 DEF Refresh, CallsTyped, Issued, session, client
<1>3. CASE Acquire(r)
  <2>1. renew' \in [Renewers -> CallType]
    BY <1>3, GrantedTyped DEF Acquire
  <2> QED  BY <1>3, <2>1 DEF Acquire, CallsTyped, Issued, session, client
<1>4. CASE Answer(r)
  <2> DEFINE body == renew[r].body
             pc == IF Rotates(body) THEN "answered" ELSE "rejected"
             answer == IF Rotates(body) THEN server.issued + 1 ELSE 0
  <2>1. Presented(body) /\ UNCHANGED <<client, token, expired, lost, spent>>
    BY <1>4 DEF Answer
  <2>2. /\ server'.session \in 0 .. server'.issued /\ server'.issued \in 1 .. MaxTokens
        /\ Issued \subseteq Issued'
        /\ Rotates(body) => server.issued + 1 \in TokenIds
    BY <2>1, PresentedTyped DEF TokenInv
  <2>3. answer \in TokenIds /\ pc \in {"answered", "rejected"}
    <3>1. 0 \in TokenIds
      BY BoundsAssumption DEF TokenIds
    <3> QED  BY <2>2, <3>1
  <2>4. renew' = [renew EXCEPT ![r] = [renew[r] EXCEPT !.pc = pc, !.answer = answer]]
    BY <1>0, <1>4 DEF Answer
  <2> HIDE DEF body, pc, answer
  <2>5. renew' \in [Renewers -> CallType]
    BY <1>0, <2>3, <2>4 DEF CallType
  <2>6. /\ expired' \subseteq Issued' /\ lost' \subseteq Issued' /\ spent' \subseteq Issued'
        /\ token' \in TokenIds
    BY <2>1, <2>2 DEF CallsTyped
  <2>7. CallsTyped'
    BY <2>2, <2>5, <2>6 DEF CallsTyped
  <2> QED  BY <2>1, <2>7 DEF client
<1>5. CASE RequestFails(r)
  <2>1. renew' \in [Renewers -> CallType]
    BY <1>0, <1>5, CallTyped DEF RequestFails
  <2>2. drops' \in 0 .. MaxDrops
    BY <1>5, BoundsAssumption DEF RequestFails
  <2>3. renew[r].body \in Issued
    BY <1>5 DEF RequestFails, Step, TokenInv, SentInv, TokensInv, Requesting
  <2>4. lost' \subseteq Issued
    BY <1>5, <2>3 DEF RequestFails, CutOff, CallsTyped
  <2> QED  BY <1>5, <2>1, <2>2, <2>4 DEF RequestFails, CallsTyped, Issued
<1>6. CASE Store(r) \/ Reject(r)
  <2>1. renew' \in [Renewers -> CallType]
    BY <1>0, <1>6, CallTyped DEF Store, Reject
  <2>2. token' \in TokenIds
    BY <1>0, <1>6, BoundsAssumption DEF Store, Reject, CallType, TokenIds
  <2>3. spent' \subseteq Issued
    <3>1. renew[r].pc = "answered" => renew[r].body \in Issued
      BY DEF TokenInv, SentInv, TokensInv, Requesting
    <3> QED  BY <1>6, <3>1 DEF Store, Reject, Step, CallsTyped
  <2> QED  BY <1>6, <2>1, <2>2, <2>3 DEF Store, Reject, CallsTyped, Issued, client
<1> QED  BY <1>1, <1>2, <1>3, <1>4, <1>5, <1>6 DEF Renew, client

\* What the supervisors and the surroundings do to the calls.
LEMMA CallsRest ==
  ASSUME IInv, CallsTyped,
         \/ \E t \in Owners : Connect(t) \/ CancelConnect(t) \/ Disconnect(t) \/ Own(t)
         \/ \E s \in Tasks : Supervise(s) \/ Served(s)
         \/ UserCalls \/ StrayArrives \/ Expire
  PROVE  CallsTyped'
<1>0. renew \in [Renewers -> CallType] /\ Tasks \subseteq Renewers /\ User \in Renewers
  BY DEF CallsTyped, Renewers
<1>1. ASSUME UNCHANGED <<renew, session>> PROVE CallsTyped'
  BY <1>1 DEF CallsTyped, Issued, session
<1>2. ASSUME NEW t \in Owners, Connect(t) \/ CancelConnect(t) \/ Disconnect(t) \/ Own(t)
      PROVE  CallsTyped'
  BY <1>1, <1>2 DEF Connect, CancelConnect, Disconnect, Own, ConnectUp, ConnectFailed,
                    DisconnectAwaited, DisconnectClose
<1>3. ASSUME NEW s \in Tasks,
             DialUp(s) \/ DialRefused(s) \/ DialFails(s) \/ Retry(s) \/ Slept(s) \/ Restored(s)
               \/ Shut(s) \/ Decide(s) \/ Finally(s) \/ Ending(s) \/ Served(s)
      PROVE  CallsTyped'
  BY <1>1, <1>3 DEF DialUp, DialRefused, DialFails, Retry, Slept, Restored, Shut, Decide,
                    Finally, Ending, Served
<1>4. ASSUME NEW s \in Tasks, Begin(s) PROVE CallsTyped'
  <2>1. CASE self.closing
    BY <1>1, <1>4, <2>1 DEF Begin
  <2>2. CASE ~self.closing
    <3> DEFINE force == sup[s].force /\ token # 0
               label == IF force THEN "check" ELSE "ensure"
    <3>1. renew' = [renew EXCEPT ![s] = [NoCall EXCEPT !.pc = label, !.force = force]]
      BY <1>4, <2>2 DEF Begin
    <3>2. force \in BOOLEAN /\ label \in {"ensure", "check"}
      OBVIOUS
    <3> HIDE DEF force, label
    <3>3. renew' \in [Renewers -> CallType]
      BY <1>0, <3>1, <3>2, StartTyped
    <3> QED  BY <1>4, <3>3 DEF Begin, CallsTyped, Issued, session
  <2> QED  BY <2>1, <2>2
<1>5. ASSUME NEW s \in Tasks, Provided(s) PROVE CallsTyped'
  <2>1. renew' \in [Renewers -> CallType]
    BY <1>0, <1>5, CallTyped DEF Provided
  <2> QED  BY <1>5, <2>1 DEF Provided, CallsTyped, Issued, session
<1>6. ASSUME NEW s \in Tasks, CancelledAt(s) PROVE CallsTyped'
  <2>1. renew' \in [Renewers -> CallType]
    BY <1>0, <1>6, CallTyped DEF CancelledAt
  <2>2. lost' \subseteq Issued
    <3>1. CASE renew[s].pc \in {"sent", "answered"}
      <4>1. renew[s].body \in Issued
        BY <1>0, <3>1 DEF IInv, SentInv, TokensInv, Requesting
      <4> QED  BY <1>6, <3>1, <4>1 DEF CancelledAt, CutOff, CallsTyped
    <3>2. CASE renew[s].pc \notin {"sent", "answered"}
      BY <1>6, <3>2 DEF CancelledAt, CallsTyped
    <3> QED  BY <3>1, <3>2
  <2> QED  BY <1>6, <2>1, <2>2 DEF CancelledAt, CallsTyped, Issued
<1>7. CASE StrayArrives
  <2>1. PICK body \in stray : Presented(body) /\ stray' = stray \ {body}
    BY <1>7 DEF StrayArrives
  <2>2. /\ server'.session \in 0 .. server'.issued /\ server'.issued \in 1 .. MaxTokens
        /\ Issued \subseteq Issued'
    BY <2>1, PresentedTyped DEF IInv
  <2> QED  BY <1>7, <2>2 DEF StrayArrives, CallsTyped
<1>8. CASE Expire
  BY <1>8 DEF Expire, IInv, TokensInv, Valid, CallsTyped, Issued
<1>9. CASE UserCalls
  <2>1. PICK force \in BOOLEAN : renew' = [renew EXCEPT ![User] =
          [NoCall EXCEPT !.pc = IF force THEN "check" ELSE "ensure", !.force = force]]
    BY <1>9 DEF UserCalls
  <2>2. [NoCall EXCEPT !.pc = IF force THEN "check" ELSE "ensure", !.force = force] \in CallType
    BY StartTyped
  <2>3. renew' \in [Renewers -> CallType]
    BY <1>0, <2>1, <2>2
  <2> QED  BY <1>9, <2>3 DEF UserCalls, CallsTyped, Issued, session
<1> QED  BY <1>2, <1>3, <1>4, <1>5, <1>6, <1>7, <1>8, <1>9 DEF Supervise

\* Every variable keeps to its type, whatever is cancelled; in particular the first
\* connect gives up within max_retries attempts, and no call holds or sends a token
\* the server has not issued.
THEOREM TypeCorrect == Spec => []TypeOK
<1> DEFINE Typed == ClientTyped /\ CallsTyped /\ drops \in 0 .. MaxDrops
<1>1. Init => Typed
  <2> SUFFICES ASSUME Init PROVE Typed
    OBVIOUS
  <2>1. self \in SelfType /\ Resting \in OwnerType
    BY DEF Init, SelfType, Resting, OwnerType, Outcomes
  <2>2. ClientTyped
    BY <2>1, DoneTyped DEF Init, ClientTyped
  <2>3. CallsTyped /\ drops \in 0 .. MaxDrops
    BY CallTyped, BoundsAssumption DEF Init, CallsTyped, TokenIds, Issued
  <2> QED  BY <2>2, <2>3
<1>2. Typed /\ IInv /\ [Next]_vars => Typed'
  <2> SUFFICES ASSUME Typed, IInv, [Next]_vars PROVE Typed'
    OBVIOUS
  <2>1. ASSUME NEW t \in Owners, Connect(t) \/ CancelConnect(t) \/ Disconnect(t) \/ Own(t)
        PROVE  Typed'
    BY <2>1, OwnersTyped, CallsRest
  <2>2. ASSUME NEW s \in Tasks, Supervise(s) \/ Served(s) PROVE Typed'
    BY <2>2, SupervisorTyped, CallsRest
  <2>3. ASSUME NEW r \in Renewers, Renew(r) \/ Acquire(r) PROVE Typed'
    BY <2>3, RenewTyped DEF IInv, TokenInv, Shape, ClientTyped
  <2>4. CASE UserCalls \/ StrayArrives \/ Expire
    <3>1. UNCHANGED client
      BY <2>4 DEF UserCalls, StrayArrives, Expire
    <3> QED  BY <2>4, <3>1, CallsRest DEF client, ClientTyped
  <2>5. CASE UNCHANGED vars
    BY <2>5 DEF vars, client, session, ClientTyped, CallsTyped, Issued
  <2> QED  BY <2>1, <2>2, <2>3, <2>4, <2>5 DEF Next
<1>3. Typed /\ IInv => TypeOK
  BY TypeParts
<1> HIDE DEF Typed
<1> QED  BY <1>1, <1>2, <1>3, AlwaysIInv, PTL DEF Spec

-----------------------------------------------------------------------------
(* What the manager promises the server: RefreshSession.                   *)

\* A renewal was stored only of a token the server had rotated; the token held is
\* none of these, and one whose renewal has arrived has been rotated.
SpentInv ==
  /\ spent \subseteq server.rotated /\ token \notin spent
  /\ \A r \in Renewers : renew[r].pc = "answered" => renew[r].body \in server.rotated

\* With the lock held, what is outstanding is the token held; without, nothing is.
LEMMA OutstandingOf ==
  ASSUME LockInv, SentInv, TokensInv
  PROVE  /\ \A r \in Renewers : renew[r].pc \in Requesting =>
              lock = r /\ Outstanding = token /\ Outstanding # 0
         /\ lock = NoTask => Outstanding = 0
         /\ Outstanding \in {0, token}
BY TasksAssumption DEF LockInv, SentInv, Outstanding

\* Unless a call gets the lock or its request ends, nothing is seen of it.
LEMMA SameSession ==
  ASSUME LockInv, RenewShape, UNCHANGED <<lock, token, spent>>,
         lock \in Renewers => renew'[lock].body = renew[lock].body
  PROVE  UNCHANGED Session!vars
BY DEF LockInv, Outstanding, Session!vars

\* Getting the lock: the token held is presented, or nothing is seen.
LEMMA GrantedSession ==
  ASSUME TokenInv, SpentInv, NEW r \in Renewers, renew[r].pc \notin Requesting, lock = NoTask,
         NEW observed, Granted(r, observed), UNCHANGED session
  PROVE  SpentInv' /\ (Session!Present \/ UNCHANGED Session!vars)
<1> DEFINE renewed == Valid(token) /\ (token # observed \/ ~renew[r].force)
           sends   == ~renewed /\ token # 0
<1>1. CASE sends
  <2> DEFINE c == [renew[r] EXCEPT !.pc = "sent", !.observed = 0, !.body = token]
  <2>1. lock' = r /\ renew' = [renew EXCEPT ![r] = c]
    BY <1>1 DEF Granted
  <2>2. c.pc = "sent" /\ c.body = token
    BY DEF TokenInv, RenewShape, CallFields
  <2> HIDE DEF c
  <2>3. SpentInv'
    BY <2>1, <2>2 DEF SpentInv, session, TokenInv, RenewShape
  <2>4. Outstanding = 0 /\ Outstanding' = token
    BY <2>1, <2>2, TasksAssumption DEF Outstanding, TokenInv, RenewShape
  <2>5. token \in Nat \ {0} /\ token \notin spent
    BY <1>1 DEF SpentInv, TokenInv, TokensInv, Issued
  <2> QED  BY <2>3, <2>4, <2>5 DEF Session!Present, Session!Tokens, session
<1>2. CASE ~sends
  <2>1. lock' = lock /\ renew' = [renew EXCEPT ![r] = IF renewed THEN After(r) ELSE Ends(r, "refused")]
    BY <1>2 DEF Granted
  <2>2. After(r).pc \notin Requesting /\ Ends(r, "refused").pc \notin Requesting
    BY RestingCalls DEF Requesting
  <2>3. SpentInv'
    BY <2>1, <2>2 DEF SpentInv, session, TokenInv, RenewShape, Requesting
  <2> QED  BY <2>1, <2>3, TasksAssumption DEF Outstanding, Session!vars, session
<1> QED  BY <1>1, <1>2

\* A call that is not inside the lock goes on or ends unseen.
LEMMA OutsideSession ==
  ASSUME TokenInv, SpentInv, NEW r \in Renewers, renew[r].pc \notin Requesting,
         NEW c, c.pc \notin Requesting, renew' = [renew EXCEPT ![r] = c],
         UNCHANGED <<lock, token, spent, server>>
  PROVE  SpentInv' /\ UNCHANGED Session!vars
<1>1. SpentInv'
  BY DEF SpentInv, TokenInv, RenewShape, Requesting
<1>2. lock # r
  BY DEF TokenInv, LockInv
<1> QED  BY <1>1, <1>2, SameSession DEF TokenInv, RenewShape

\* A request ends without a renewal: the token is kept, and may be sent again.
LEMMA FailSession ==
  ASSUME TokenInv, SpentInv, NEW r \in Renewers, renew[r].pc \in Requesting,
         NEW c, c.pc \notin Requesting, renew' = [renew EXCEPT ![r] = c],
         lock' = LockFreed(r), UNCHANGED <<token, spent, server>>
  PROVE  SpentInv' /\ Session!Fail
<1>1. SpentInv'
  BY DEF SpentInv, TokenInv, RenewShape, Requesting
<1>2. Outstanding # 0 /\ lock' = NoTask
  BY OutstandingOf DEF TokenInv, LockFreed
<1> QED  BY <1>1, <1>2 DEF Outstanding, Session!Fail

LEMMA RenewSession ==
  ASSUME TokenInv, SpentInv, NEW r \in Renewers, Renew(r) \/ Acquire(r)
  PROVE  SpentInv' /\ [Session!Next]_(Session!vars)
<1>0. renew = [q \in Renewers |-> renew[q]] /\ DOMAIN renew[r] = CallFields
  BY DEF TokenInv, RenewShape
<1>1. CASE EnsureAuthenticated(r)
  <2>1. PICK c : /\ renew' = [renew EXCEPT ![r] = c]
                 /\ c \in {Ends(r, "returned"), [NoCall EXCEPT !.pc = "check"], Ends(r, "refused")}
    BY <1>1 DEF EnsureAuthenticated
  <2>2. c.pc \notin Requesting
    BY <2>1 DEF Ends, NoCall, Requesting
  <2> QED  BY <1>1, <2>1, <2>2, OutsideSession DEF EnsureAuthenticated, Step, session, Requesting
<1>2. CASE Refresh(r)
  <2>0. renew[r].pc \notin Requesting /\ UNCHANGED session
    BY <1>2 DEF Refresh, Step, Requesting
  <2>1. CASE renew' = [renew EXCEPT ![r] = Ends(r, "refused")] /\ UNCHANGED lock
    <3>1. Ends(r, "refused").pc \notin Requesting
      BY RestingCalls DEF Requesting
    <3> QED  BY <2>0, <2>1, <3>1, OutsideSession DEF session
  <2>2. CASE LockIsFree /\ Granted(r, token)
    BY <2>0, <2>2, GrantedSession DEF LockIsFree, Session!Next
  <2>3. CASE renew' = [renew EXCEPT ![r].pc = "lock", ![r].observed = token] /\ UNCHANGED lock
    <3> DEFINE c == [renew[r] EXCEPT !.pc = "lock", !.observed = token]
    <3>1. renew' = [renew EXCEPT ![r] = c] /\ c.pc = "lock"
      BY <1>0, <2>3 DEF CallFields
    <3> HIDE DEF c
    <3> QED  BY <2>0, <2>3, <3>1, OutsideSession DEF session, Requesting
  <2> QED  BY <1>2, <2>1, <2>2, <2>3 DEF Refresh
<1>3. CASE Acquire(r)
  BY <1>3, GrantedSession DEF Acquire, Step, Requesting, Session!Next
<1>4. CASE Answer(r)
  <2> DEFINE body == renew[r].body
             pc == IF Rotates(body) THEN "answered" ELSE "rejected"
             answer == IF Rotates(body) THEN server.issued + 1 ELSE 0
             c == [renew[r] EXCEPT !.pc = pc, !.answer = answer]
  <2>1. renew' = [renew EXCEPT ![r] = c] /\ Presented(body) /\ UNCHANGED <<lock, token, spent>>
    BY <1>0, <1>4 DEF Answer
  <2>2. c.pc = pc /\ c.body = body
    BY <1>0 DEF CallFields
  <2>3. server.rotated \subseteq server'.rotated /\ (Rotates(body) => body \in server'.rotated)
    <3>1. DOMAIN server = {"issued", "session", "rotated"}
      BY DEF TokenInv, TokensInv
    <3> QED  BY <2>1, <3>1 DEF Presented
  <2> HIDE DEF c
  <2>4. SpentInv'
    BY <1>0, <2>1, <2>2, <2>3 DEF SpentInv
  <2>5. UNCHANGED Session!vars
    BY <1>0, <2>1, <2>2, SameSession DEF TokenInv
  <2> QED  BY <2>4, <2>5
<1>5. CASE RequestFails(r)
  <2>1. Ends(r, "failed").pc \notin Requesting
    BY RestingCalls DEF Requesting
  <2> QED  BY <1>5, <2>1, FailSession DEF RequestFails, Step, Requesting, Session!Next
<1>6. CASE Store(r)
  <2>1. renew[r].pc = "answered" /\ lock = r /\ Outstanding = token /\ Outstanding # 0
    BY <1>6, OutstandingOf DEF Store, Step, TokenInv, Requesting
  <2>2. /\ token' = renew[r].answer /\ spent' = spent \union {renew[r].body}
        /\ renew' = [renew EXCEPT ![r] = After(r)] /\ lock' = NoTask /\ server' = server
    BY <1>6, <2>1 DEF Store, LockFreed
  <2>3. /\ renew[r].body = token /\ renew[r].body \in server.rotated
        /\ renew[r].answer \in Nat \ {0} /\ renew[r].answer \notin server.rotated
    BY <2>1 DEF TokenInv, SentInv, SpentInv, Requesting, Issued
  <2>4. SpentInv'
    BY <1>0, <2>2, <2>3, RestingCalls DEF SpentInv, Requesting
  <2>5. Session!Renew
    BY <2>1, <2>2, <2>3 DEF Session!Renew, Session!Tokens, Outstanding, SpentInv
  <2> QED  BY <2>4, <2>5 DEF Session!Next
<1>7. CASE Reject(r)
  <2>1. renew[r].pc = "rejected" /\ lock = r /\ Outstanding # 0
    BY <1>7, OutstandingOf DEF Reject, Step, TokenInv, Requesting
  <2>2. /\ token' = 0 /\ renew' = [renew EXCEPT ![r] = Ends(r, "refused")] /\ lock' = NoTask
        /\ UNCHANGED <<server, spent>>
    BY <1>7, <2>1 DEF Reject, LockFreed
  <2>3. 0 \notin spent
    BY DEF TokenInv, TokensInv, SpentInv, Issued
  <2>4. Ends(r, "refused").pc \notin Requesting
    BY RestingCalls DEF Requesting
  <2>5. SpentInv'
    BY <1>0, <2>2, <2>3, <2>4 DEF SpentInv, Requesting
  <2>6. Session!Reject
    BY <2>1, <2>2 DEF Session!Reject, Outstanding
  <2> QED  BY <2>5, <2>6 DEF Session!Next
<1> QED  BY <1>1, <1>2, <1>3, <1>4, <1>5, <1>6, <1>7 DEF Renew

\* A supervisor that is cancelled in the middle of a refresh: Fail.
LEMMA CancelSession ==
  ASSUME TokenInv, SpentInv, NEW s \in Tasks, CancelledAt(s)
  PROVE  SpentInv' /\ [Session!Next]_(Session!vars)
<1>1. /\ renew' = [renew EXCEPT ![s] = NoCall] /\ lock' = LockFreed(s) /\ s \in Renewers
      /\ UNCHANGED <<token, server, spent>> /\ NoCall.pc \notin Requesting
  BY RestingCalls DEF CancelledAt, Renewers, Requesting
<1>2. CASE renew[s].pc \in Requesting
  BY <1>1, <1>2, FailSession DEF Session!Next
<1>3. CASE renew[s].pc \notin Requesting
  <2>1. lock' = lock
    BY <1>1, <1>3 DEF LockFreed, TokenInv, LockInv
  <2> QED  BY <1>1, <1>3, <2>1, OutsideSession
<1> QED  BY <1>2, <1>3

\* Every step of the stream is a step of the session or a stutter.
LEMMA StepSession ==
  ASSUME TokenInv, ProviderInv, SpentInv, [Next]_vars
  PROVE  SpentInv' /\ [Session!Next]_(Session!vars)
<1>0. ASSUME UNCHANGED <<lock, renew, token, server, spent>>
      PROVE  SpentInv' /\ UNCHANGED Session!vars
  BY <1>0, SameSession DEF SpentInv, TokenInv
<1>1. ASSUME NEW t \in Owners, Connect(t) \/ CancelConnect(t) \/ Disconnect(t) \/ Own(t)
      PROVE  SpentInv' /\ UNCHANGED Session!vars
  BY <1>0, <1>1 DEF Connect, CancelConnect, Disconnect, Own, ConnectUp, ConnectFailed,
                    DisconnectAwaited, DisconnectClose, session
<1>2. ASSUME NEW s \in Tasks, Begin(s)
      PROVE  SpentInv' /\ UNCHANGED Session!vars
  <2>1. UNCHANGED <<lock, session>> /\ renew[s].pc = "idle" /\ s \in Renewers
    BY <1>2 DEF Begin, At, ProviderInv, Renewers
  <2>2. renew' = renew \/ \E pc \in {"check", "ensure"} : \E force :
          renew' = [renew EXCEPT ![s] = [NoCall EXCEPT !.pc = pc, !.force = force]]
    BY <1>2 DEF Begin
  <2>3. CASE renew' = renew
    BY <1>0, <2>1, <2>3 DEF session
  <2>4. ASSUME NEW pc \in {"check", "ensure"}, NEW force,
               renew' = [renew EXCEPT ![s] = [NoCall EXCEPT !.pc = pc, !.force = force]]
        PROVE  SpentInv' /\ UNCHANGED Session!vars
    <3> DEFINE c == [NoCall EXCEPT !.pc = pc, !.force = force]
    <3>1. c.pc \notin Requesting
      BY DEF NoCall, Requesting
    <3> HIDE DEF c
    <3>2. renew' = [renew EXCEPT ![s] = c]
      BY <2>4 DEF c
    <3> QED  BY <2>1, <3>1, <3>2, OutsideSession DEF session, Requesting
  <2> QED  BY <2>2, <2>3, <2>4
<1>3. ASSUME NEW s \in Tasks, Provided(s)
      PROVE  SpentInv' /\ UNCHANGED Session!vars
  <2>1. /\ renew' = [renew EXCEPT ![s] = NoCall] /\ UNCHANGED <<lock, session>>
        /\ renew[s].pc \notin Requesting /\ s \in Renewers
    BY <1>3 DEF Provided, Requesting, Renewers
  <2> QED  BY <2>1, RestingCalls, OutsideSession DEF session, Requesting
<1>4. ASSUME NEW s \in Tasks,
             DialUp(s) \/ DialRefused(s) \/ DialFails(s) \/ Retry(s) \/ Slept(s) \/ Restored(s)
               \/ Shut(s) \/ Decide(s) \/ Finally(s) \/ Ending(s) \/ Served(s)
      PROVE  SpentInv' /\ UNCHANGED Session!vars
  BY <1>0, <1>4 DEF DialUp, DialRefused, DialFails, Retry, Slept, Restored, Shut, Decide,
                    Finally, Ending, Served, session
<1>5. ASSUME NEW s \in Tasks, CancelledAt(s)
      PROVE  SpentInv' /\ [Session!Next]_(Session!vars)
  BY <1>5, CancelSession
<1>6. ASSUME NEW r \in Renewers, Renew(r) \/ Acquire(r)
      PROVE  SpentInv' /\ [Session!Next]_(Session!vars)
  BY <1>6, RenewSession
<1>7. CASE UserCalls
  <2>1. PICK force \in BOOLEAN : renew' = [renew EXCEPT ![User] =
          [NoCall EXCEPT !.pc = IF force THEN "check" ELSE "ensure", !.force = force]]
    BY <1>7 DEF UserCalls
  <2> DEFINE c == [NoCall EXCEPT !.pc = IF force THEN "check" ELSE "ensure", !.force = force]
  <2>2. c.pc \notin Requesting /\ renew' = [renew EXCEPT ![User] = c]
    BY <2>1 DEF NoCall, Requesting
  <2> HIDE DEF c
  <2>3. renew[User].pc \notin Requesting /\ User \in Renewers /\ UNCHANGED <<lock, session>>
    BY <1>7 DEF UserCalls, Requesting, Renewers
  <2> QED  BY <2>2, <2>3, OutsideSession DEF session
<1>8. CASE StrayArrives
  <2>1. PICK body \in stray : Presented(body)
    BY <1>8 DEF StrayArrives
  <2>2. server.rotated \subseteq server'.rotated
    <3>1. DOMAIN server = {"issued", "session", "rotated"}
      BY DEF TokenInv, TokensInv
    <3> QED  BY <2>1, <3>1 DEF Presented
  <2>3. UNCHANGED <<lock, renew, token, spent>>
    BY <1>8 DEF StrayArrives
  <2> QED  BY <2>2, <2>3, SameSession DEF SpentInv, TokenInv
<1>9. CASE Expire \/ UNCHANGED vars
  BY <1>0, <1>9 DEF Expire, vars, session
<1> QED  BY <1>1, <1>2, <1>3, <1>4, <1>5, <1>6, <1>7, <1>8, <1>9 DEF Next, Supervise

LEMMA InitSession == Init => SpentInv /\ Session!Init
BY TasksAssumption DEF Init, NoCall, SpentInv, Session!Init, Outstanding

\* For any number of owners, supervisors and cancellations, the tasks are towards the
\* server a RefreshSession, as the threads are: one request at a time is waited for,
\* and no token is sent again once its renewal was stored.
THEOREM Refinement == Spec => ImplementsSession
<1>1. IInv /\ SpentInv /\ [Next]_vars => SpentInv' /\ [Session!Next]_(Session!vars)
  BY StepSession DEF IInv, TokenInv, Shape
<1> QED  BY <1>1, InitSession, AlwaysIInv, PTL DEF Spec, ImplementsSession, Session!Spec

\* In particular the token held and the token on its way were never renewed before,
\* wherever a cancellation struck.
THEOREM EachTokenOnce == Spec => []Session!SingleUse
<1>1. IInv /\ SpentInv => Session!SingleUse
  <2> SUFFICES ASSUME IInv, SpentInv PROVE Session!SingleUse
    OBVIOUS
  <2>1. Outstanding \in {0, token} /\ 0 \notin spent
    BY OutstandingOf DEF IInv, SpentInv, TokensInv, Issued
  <2> QED  BY <2>1 DEF SpentInv, Session!SingleUse
<1>2. IInv /\ SpentInv /\ [Next]_vars => SpentInv'
  BY StepSession DEF IInv, TokenInv, Shape
<1> QED  BY <1>1, <1>2, InitSession, AlwaysIInv, PTL DEF Spec
=============================================================================
