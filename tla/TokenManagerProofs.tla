------------------------- MODULE TokenManagerProofs -------------------------
(***************************************************************************)
(* Theorems about TokenManager for any number of threads and tokens.       *)
(*                                                                         *)
(* IInv, the inductive invariant, says who may hold what: the lock belongs *)
(* to the one thread between its acquisition and its release, a token set  *)
(* travels to one place at a time (in an answer, with another process, or  *)
(* as the stored token), and a rotated refresh token is nowhere but with   *)
(* the thread that is about to replace it, or lost.                        *)
(***************************************************************************)
EXTENDS TokenManager, TLAPS

Locked  == {"r_coalesce", "r_reuse", "r_recheck", "r_read", "r_sent", "r_store",
            "r_header", "r_rejected", "r_cleared", "r_failed"}
Storing == {"r_store", "l_store"}

\* The lock is held by exactly the thread inside the `with' block.
LockInv == \A t \in Threads : pc[t] \in Locked <=> lock = t

\* What a thread carries was issued by the server.
Carried == \A t \in Threads :
  /\ pc[t] \in Flying => frame[t].body \in Issued
  /\ pc[t] \in Storing => frame[t].answer \in Issued
  /\ pc[t] = "l_header" /\ call[t] = "import" => frame[t].answer \in Issued

\* A token set on its way to the client is nowhere else yet.
Arriving == \A t \in Threads : pc[t] \in Storing =>
  /\ frame[t].answer \notin consumed
  /\ frame[t].answer \notin foreign
  /\ frame[t].answer # token
  /\ \A u \in Threads :
       /\ pc[u] \in Storing /\ u # t => frame[u].answer # frame[t].answer
       /\ pc[u] \in Flying => frame[u].body # frame[t].answer

\* A token set of another process was never used here.
ForeignInv ==
  /\ foreign \cap consumed = {}
  /\ token \notin foreign
  /\ \A t \in Threads : pc[t] \in Flying => frame[t].body \notin foreign

\* A rotated token set still held is about to be replaced, or the rotation was lost.
HeldInv == token \in consumed =>
  token \in lost \/ \E t \in Threads : pc[t] = "r_store" /\ frame[t].body = token

SentInv == \A t \in Threads :
  pc[t] = "r_sent" /\ frame[t].body \in consumed => frame[t].body \in lost

IInv ==
  /\ TypeOK /\ LockInv /\ Carried /\ RefreshHasToken
  /\ Arriving /\ ForeignInv /\ HeldInv /\ SentInv /\ NoReuse

-----------------------------------------------------------------------------
(* IInv is inductive, one lemma per group of actions.                      *)

\* A new manager holds nothing, so nothing can be wrong yet.
LEMMA InitIInv == Init => IInv
BY ThreadsAssumption, BoundsAssumption
   DEF Init, IInv, TypeOK, LockInv, Carried, RefreshHasToken, Arriving, ForeignInv,
       HeldInv, SentInv, NoReuse, Locked, Storing, Flying, Labels, Resting, AllCalls,
       TokenId, Issued, Frames, NoFrame, At

\* After one authenticate() the manager holds the one token set issued.
LEMMA LoggedInInitIInv == LoggedInInit => IInv
BY ThreadsAssumption, BoundsAssumption
   DEF LoggedInInit, IInv, TypeOK, LockInv, Carried, RefreshHasToken, Arriving,
       ForeignInv, HeldInv, SentInv, NoReuse, Locked, Storing, Flying, Labels, Resting,
       AllCalls, TokenId, Issued, Frames, NoFrame, At

\* A call that ends, inside or outside the `with' block, drops what it carried.
LEMMA LeaveIInv ==
  ASSUME IInv, NEW t \in Threads,
         NEW label \in Resting \union {"e_return", "r_return", "l_return"},
         pc[t] # "r_store", Leave(t, label),
         header' \in Issued \union {0},
         lock' = (IF lock = t THEN NoThread ELSE lock),
         UNCHANGED <<token, expired, dead>>,
         UNCHANGED <<issued, session, consumed, foreign, lost, reused>>
  PROVE  IInv'
<1> USE DEF IInv, Leave
<1>1. TypeOK'
  BY BoundsAssumption
     DEF TypeOK, Labels, Resting, Frames, NoFrame, TokenId, Issued
<1>2. LockInv'
  BY ThreadsAssumption DEF LockInv, Locked, Resting, TypeOK
<1>3. Carried' /\ RefreshHasToken'
  BY DEF Carried, RefreshHasToken, Flying, Storing, Resting, Issued, At, TypeOK
<1>4. Arriving' /\ ForeignInv' /\ SentInv' /\ NoReuse'
  BY DEF Arriving, ForeignInv, SentInv, NoReuse, Storing, Flying, Resting, TypeOK
<1>5. HeldInv'
  BY DEF HeldInv, TypeOK
<1>6. QED
  BY <1>1, <1>2, <1>3, <1>4, <1>5

\* Starting a call and the branches of ensure_authenticated touch nothing shared.
LEMMA CallIInv ==
  ASSUME IInv, NEW t \in Threads, Call(t) \/ CallImport(t) \/ Ensure(t)
  PROVE  IInv'
<1> USE BoundsAssumption
    DEF IInv, TypeOK, LockInv, Carried, RefreshHasToken, Arriving, ForeignInv,
        HeldInv, SentInv, NoReuse, Locked, Storing, Flying, Labels, Resting,
        TokenId, Issued, Frames, NoFrame, At, Goto, Leave, LeaveWithAccess,
        client, clock, server
<1>1. CASE Call(t)
  BY <1>1, CallsAssumption DEF Call, Entry
<1>2. CASE CallImport(t)
  BY <1>2 DEF CallImport, AllCalls
<1>3. CASE EnsureCheck(t)
  BY <1>3 DEF EnsureCheck
<1>4. CASE EnsureValue(t)
  BY <1>4 DEF EnsureValue
<1>5. CASE EnsureBranch(t)
  BY <1>5 DEF EnsureBranch
<1>6. CASE EnsureReturn(t)
  BY <1>6 DEF EnsureReturn
<1>7. QED
  BY <1>1, <1>2, <1>3, <1>4, <1>5, <1>6 DEF Ensure

\* The presented token is the stored one: not arriving elsewhere, and rotated
\* before only if that answer was lost, since nobody else is about to store.
LEMMA SendIInv ==
  ASSUME IInv, NEW t \in Threads, RefreshSend(t)
  PROVE  IInv'
<1> USE DEF IInv
<1>1. /\ pc[t] = "r_read" /\ token # 0
      /\ pc' = [pc EXCEPT ![t] = "r_sent"]
      /\ frame' = [frame EXCEPT ![t].body = token]
      /\ UNCHANGED <<token, header, lock, call, expired, dead>>
      /\ UNCHANGED <<issued, session, consumed, foreign, lost, reused>>
  BY DEF RefreshSend, RefreshHasToken, At, clock, server
<1>2. TypeOK' /\ Carried'
  BY <1>1, BoundsAssumption
     DEF TypeOK, Carried, Labels, Frames, TokenId, Issued, Flying, Storing
<1>3. LockInv' /\ RefreshHasToken'
  BY <1>1 DEF LockInv, RefreshHasToken, Locked, At, TypeOK
<1>4. Arriving' /\ ForeignInv' /\ NoReuse'
  BY <1>1 DEF Arriving, ForeignInv, NoReuse, Storing, Flying, TypeOK, Frames
<1>5. \A u \in Threads : pc[u] # "r_store"
  BY <1>1 DEF LockInv, Locked
<1>6. SentInv' /\ HeldInv'
  BY <1>1, <1>5 DEF SentInv, HeldInv, TypeOK, Frames
<1>7. QED
  BY <1>2, <1>3, <1>4, <1>6

\* What _refresh stores arrives for the first time, so it was never rotated.
LEMMA StoreIInv ==
  ASSUME IInv, NEW t \in Threads, RefreshStore(t) \/ LoginStore(t)
  PROVE  IInv'
<1> USE DEF IInv
<1>1. PICK label \in {"r_header", "l_header"} :
        /\ pc[t] = (IF label = "r_header" THEN "r_store" ELSE "l_store")
        /\ pc' = [pc EXCEPT ![t] = label]
        /\ token' = frame[t].answer
        /\ expired' \in {expired, expired \union {frame[t].answer}}
        /\ dead' \in {dead, dead \union {frame[t].answer}}
        /\ UNCHANGED <<header, lock, call, frame>>
        /\ UNCHANGED <<issued, session, consumed, foreign, lost, reused>>
  BY DEF RefreshStore, LoginStore, StoreAnswer, Goto, At, server
<1>2. frame[t].answer \in Issued
  BY <1>1 DEF Carried, Storing
<1>3. TypeOK' /\ Carried'
  BY <1>1, <1>2 DEF TypeOK, Carried, Labels, Flying, Storing, Issued
<1>4. LockInv' /\ RefreshHasToken'
  BY <1>1, <1>2, BoundsAssumption
     DEF LockInv, RefreshHasToken, Locked, At, TypeOK, Issued, TokenId
<1>5. Arriving' /\ ForeignInv' /\ NoReuse'
  BY <1>1 DEF Arriving, ForeignInv, NoReuse, Storing, Flying, TypeOK
<1>6. SentInv' /\ HeldInv'
  BY <1>1 DEF SentInv, HeldInv, Arriving, Storing, TypeOK
<1>7. QED
  BY <1>3, <1>4, <1>5, <1>6

\* Every line of _refresh preserves IInv; the ones that matter are the post
\* (SendIInv) and the store (StoreIInv).
LEMMA RefreshIInv ==
  ASSUME IInv, NEW t \in Threads, Refresh(t)
  PROVE  IInv'
<1> USE BoundsAssumption, ThreadsAssumption
    DEF IInv, TypeOK, LockInv, Carried, RefreshHasToken, Arriving, ForeignInv,
        HeldInv, SentInv, NoReuse, Locked, Storing, Flying, Labels, Resting,
        TokenId, Issued, Frames, NoFrame, At, Goto, Leave, LeaveWithToken,
        client, clock, server
<1>1. CASE RefreshCheck(t)
  <2>1. CASE Refreshable(token)
    BY <1>1, <2>1 DEF RefreshCheck
  <2>2. CASE ~Refreshable(token)
    <3>1. Leave(t, "idle") /\ lock # t
      BY <1>1, <2>2 DEF RefreshCheck
    <3>2. QED
      BY <1>1, <3>1, LeaveIInv DEF RefreshCheck
  <2>3. QED
    BY <2>1, <2>2
<1>2. CASE RefreshObserve(t)
  BY <1>2 DEF RefreshObserve
<1>3. CASE RefreshAcquire(t)
  BY <1>3 DEF RefreshAcquire
<1>4. CASE RefreshCoalesce(t)
  BY <1>4 DEF RefreshCoalesce
<1>5. CASE RefreshReuse(t)
  <2>1. lock = t
    BY <1>5 DEF RefreshReuse
  <2>2. \E label \in {"none", "idle", "e_return"} : Leave(t, label)
    BY <1>5 DEF RefreshReuse
  <2>3. QED
    BY <1>5, <2>1, <2>2, LeaveIInv DEF RefreshReuse
<1>6. CASE RefreshRecheck(t)
  <2>1. CASE Refreshable(token)
    BY <1>6, <2>1 DEF RefreshRecheck, Refreshable
  <2>2. CASE ~Refreshable(token)
    <3>1. lock = t
      BY <1>6 DEF RefreshRecheck
    <3>2. QED
      BY <1>6, <2>2, <3>1, LeaveIInv DEF RefreshRecheck
  <2>3. QED
    BY <2>1, <2>2
<1>7. CASE RefreshSend(t)
  BY <1>7, SendIInv
<1>8. CASE RefreshStore(t)
  BY <1>8, StoreIInv
<1>9. CASE RefreshHeader(t)
  <2>1. lock = t
    BY <1>9 DEF RefreshHeader
  <2>2. \E label \in {"crashed", "r_return", "e_return"} : Leave(t, label)
    BY <1>9 DEF RefreshHeader
  <2>3. header' \in Issued \union {0}
    BY <1>9 DEF RefreshHeader
  <2>4. QED
    BY <1>9, <2>1, <2>2, <2>3, LeaveIInv DEF RefreshHeader
<1>10. CASE RefreshClear(t)
  BY <1>10 DEF RefreshClear
<1>11. CASE RefreshClearHeader(t)
  BY <1>11 DEF RefreshClearHeader
<1>12. CASE RefreshFail(t)
  BY <1>12 DEF RefreshFail
<1>13. CASE RefreshReturn(t)
  BY <1>13 DEF RefreshReturn
<1>14. QED
  BY <1>1, <1>2, <1>3, <1>4, <1>5, <1>6, <1>7, <1>8, <1>9, <1>10, <1>11, <1>12,
     <1>13 DEF Refresh

\* Every line of authenticate, _poll_smart_otp and set_token preserves IInv.
LEMMA LoginIInv ==
  ASSUME IInv, NEW t \in Threads, Login(t)
  PROVE  IInv'
<1> USE BoundsAssumption
    DEF IInv, TypeOK, LockInv, Carried, RefreshHasToken, Arriving, ForeignInv,
        HeldInv, SentInv, NoReuse, Locked, Storing, Flying, Labels, Resting,
        TokenId, Issued, Frames, NoFrame, At, Goto, Leave, LeaveWithToken,
        client, clock, server
<1>1. CASE LoginSend(t)
  BY <1>1 DEF LoginSend
<1>2. CASE LoginStore(t)
  BY <1>2, StoreIInv
<1>3. CASE LoginHeader(t)
  <2>1. CASE call[t] # "import" /\ token # 0
    BY <1>3, <2>1 DEF LoginHeader
  <2>2. CASE call[t] = "import" \/ token = 0
    <3>1. \E label \in {"crashed", "idle"} : Leave(t, label)
      BY <1>3, <2>2 DEF LoginHeader
    <3>2. header' \in Issued \union {0} /\ lock # t
      BY <1>3, <2>2 DEF LoginHeader
    <3>3. QED
      BY <1>3, <3>1, <3>2, LeaveIInv DEF LoginHeader
  <2>3. QED
    BY <2>1, <2>2
<1>4. CASE LoginReturn(t)
  BY <1>4 DEF LoginReturn
<1>5. QED
  BY <1>1, <1>2, <1>3, <1>4 DEF Login

\* A rotation consumes the one token set on the wire and issues one nobody has.
LEMMA RotateIInv ==
  ASSUME IInv, NEW t \in Threads, ServerRotate(t)
  PROVE  IInv'
<1> USE DEF IInv
<1>1. /\ pc[t] = "r_sent" /\ frame[t].body = session /\ issued < MaxTokens
      /\ issued' = issued + 1 /\ session' = issued + 1
      /\ consumed' = consumed \union {session}
      /\ \/ /\ pc' = [pc EXCEPT ![t] = "r_store"]
            /\ frame' = [frame EXCEPT ![t].answer = issued + 1]
            /\ lost' = lost
         \/ /\ pc' = [pc EXCEPT ![t] = "r_failed"]
            /\ frame' = frame
            /\ lost' = lost \union {session}
      /\ UNCHANGED <<token, header, lock, call, expired, dead, foreign, reused>>
  BY DEF ServerRotate, At, client, clock
<1>2. session \in Issued /\ issued \in Nat /\ MaxTokens \in Nat
  BY <1>1, BoundsAssumption DEF Carried, Flying, TypeOK, TokenId
<1>3. TypeOK'
  BY <1>1, <1>2 DEF TypeOK, TokenId, Issued, Frames, Labels
<1>4. Carried'
  BY <1>1, <1>2 DEF Carried, TypeOK, Flying, Storing, Issued, Frames
<1>5. LockInv' /\ RefreshHasToken'
  BY <1>1 DEF LockInv, RefreshHasToken, Locked, At, TypeOK
<1>6. \A u \in Threads : u # t => pc[u] \notin Flying
  BY <1>1 DEF LockInv, Locked, Flying
<1>7. Arriving'
  BY <1>1, <1>2, <1>6 DEF Arriving, Carried, TypeOK, Storing, Flying, Frames, Issued
<1>8. ForeignInv' /\ NoReuse'
  BY <1>1, <1>2 DEF ForeignInv, NoReuse, TypeOK, Flying, Frames
<1>9. HeldInv' /\ SentInv'
  BY <1>1, <1>6 DEF HeldInv, SentInv, TypeOK, Flying, Frames
<1>10. QED
  BY <1>3, <1>4, <1>5, <1>7, <1>8, <1>9

\* A refusal marks a reuse only of a token set whose rotation was lost.
LEMMA RejectIInv ==
  ASSUME IInv, NEW t \in Threads, ServerReject(t)
  PROVE  IInv'
<1> USE DEF IInv
<1>1. PICK label \in {"r_rejected", "r_failed"} :
        /\ pc[t] = "r_sent"
        /\ pc' = [pc EXCEPT ![t] = label]
        /\ UNCHANGED <<token, header, lock, call, frame, expired, dead>>
        /\ UNCHANGED <<issued, consumed, foreign, lost>>
  BY DEF ServerReject, Goto, At, client, clock
<1>2. /\ session' \in {session, 0}
      /\ \/ reused' = reused
         \/ /\ frame[t].body \in consumed
            /\ reused' = reused \union {frame[t].body}
  BY DEF ServerReject
<1>3. TypeOK'
  BY <1>1, <1>2 DEF TypeOK, Labels, Issued
<1>4. LockInv' /\ Carried' /\ RefreshHasToken'
  BY <1>1 DEF LockInv, Carried, RefreshHasToken, Locked, Flying, Storing, Issued, At,
              TypeOK
<1>5. Arriving' /\ ForeignInv' /\ SentInv' /\ HeldInv'
  BY <1>1 DEF Arriving, ForeignInv, SentInv, HeldInv, Storing, Flying, TypeOK
<1>6. NoReuse'
  BY <1>1, <1>2 DEF NoReuse, SentInv
<1>7. QED
  BY <1>3, <1>4, <1>5, <1>6

\* A login supersedes the session with a token set nobody has.
LEMMA ServerLoginIInv ==
  ASSUME IInv, NEW t \in Threads, ServerLogin(t)
  PROVE  IInv'
<1> USE DEF IInv
<1>1. /\ pc[t] = "l_sent" /\ issued < MaxTokens
      /\ issued' = issued + 1 /\ session' = issued + 1
      /\ \/ /\ pc' = [pc EXCEPT ![t] = "l_store"]
            /\ frame' = [frame EXCEPT ![t].answer = issued + 1]
         \/ /\ pc' = [pc EXCEPT ![t] = "idle"]
            /\ frame' = [frame EXCEPT ![t] = NoFrame]
      /\ UNCHANGED <<token, header, lock, call, expired, dead>>
      /\ UNCHANGED <<consumed, foreign, lost, reused>>
  BY DEF ServerLogin, At, Leave, client, clock
<1>2. issued \in Nat /\ MaxTokens \in Nat
  BY BoundsAssumption DEF TypeOK, TokenId
<1>3. TypeOK'
  BY <1>1, <1>2, BoundsAssumption
     DEF TypeOK, TokenId, Issued, Frames, NoFrame, Labels, Resting
<1>4. Carried'
  BY <1>1, <1>2 DEF Carried, TypeOK, Flying, Storing, Issued, Frames, TokenId
<1>5. LockInv' /\ RefreshHasToken'
  BY <1>1 DEF LockInv, RefreshHasToken, Locked, At, TypeOK
<1>6. Arriving'
  BY <1>1, <1>2 DEF Arriving, Carried, TypeOK, Storing, Flying, Frames, Issued
<1>7. ForeignInv' /\ NoReuse'
  BY <1>1 DEF ForeignInv, NoReuse, TypeOK, Flying
<1>8. HeldInv' /\ SentInv'
  BY <1>1 DEF HeldInv, SentInv, TypeOK
<1>9. QED
  BY <1>3, <1>4, <1>5, <1>6, <1>7, <1>8

\* Whatever the server answers, or fails to answer, preserves IInv.
LEMMA AnswerIInv ==
  ASSUME IInv, NEW t \in Threads, Answer(t)
  PROVE  IInv'
<1> USE BoundsAssumption
    DEF IInv, TypeOK, LockInv, Carried, RefreshHasToken, Arriving, ForeignInv,
        HeldInv, SentInv, NoReuse, Locked, Storing, Flying, Labels, Resting,
        TokenId, Issued, Frames, NoFrame, At, Goto, Leave, client, clock, server
<1>1. CASE ServerRotate(t)
  BY <1>1, RotateIInv
<1>2. CASE ServerReject(t)
  BY <1>2, RejectIInv
<1>3. CASE ServerUnavailable(t)
  BY <1>3 DEF ServerUnavailable
<1>4. CASE ServerLogin(t)
  BY <1>4, ServerLoginIInv
<1>5. CASE ServerRefuseLogin(t)
  BY <1>5 DEF ServerRefuseLogin
<1>6. CASE ServerPending(t)
  <2>1. CASE frame[t].polls + 1 < PollAttempts
    BY <1>6, <2>1 DEF ServerPending
  <2>2. CASE frame[t].polls + 1 >= PollAttempts
    <3>1. Leave(t, "idle") /\ lock # t
      BY <1>6, <2>2 DEF ServerPending
    <3>2. QED
      BY <1>6, <3>1, LeaveIInv DEF ServerPending
  <2>3. QED
    BY <2>1, <2>2
<1>7. QED
  BY <1>1, <1>2, <1>3, <1>4, <1>5, <1>6 DEF Answer

\* Other processes and the clock preserve IInv.
LEMMA EnvironmentIInv ==
  ASSUME IInv, Environment
  PROVE  IInv'
<1> USE BoundsAssumption
    DEF IInv, TypeOK, LockInv, Carried, RefreshHasToken, Arriving, ForeignInv,
        HeldInv, SentInv, NoReuse, Storing, Flying, TokenId, Issued, At,
        client, local, clock, server
<1>1. CASE OtherLogin
  BY <1>1 DEF OtherLogin
<1>2. CASE RevokeSession
  BY <1>2 DEF RevokeSession
<1>3. CASE Expire
  BY <1>3 DEF Expire, Valid
<1>4. CASE ExpireRefresh
  BY <1>4 DEF ExpireRefresh, Refreshable
<1>5. QED
  BY <1>1, <1>2, <1>3, <1>4 DEF Environment

\* IInv speaks of the variables only.
LEMMA StutterIInv == IInv /\ UNCHANGED vars => IInv'
BY DEF IInv, TypeOK, LockInv, Carried, RefreshHasToken, Arriving, ForeignInv, HeldInv,
       SentInv, NoReuse, Storing, Flying, Issued, At, vars, client, local, clock, server

\* The inductive step: every step of the manager and its server preserves IInv.
LEMMA NextIInv == IInv /\ [Next]_vars => IInv'
BY CallIInv, RefreshIInv, LoginIInv, AnswerIInv, EnvironmentIInv, StutterIInv DEF Next

\* IInv is an invariant of the manager, started empty or after a login.
THEOREM Inductive == (Spec => []IInv) /\ (LoggedInSpec => []IInv)
<1>1. Spec => []IInv
  BY InitIInv, NextIInv, PTL DEF Spec
<1>2. LoggedInSpec => []IInv
  BY LoggedInInitIInv, NextIInv, PTL DEF LoggedInSpec
<1>3. QED
  BY <1>1, <1>2

\* Every variable keeps its type.
THEOREM TypeCorrect == Spec => []TypeOK
<1>1. IInv => TypeOK
  BY DEF IInv
<1>2. QED
  BY <1>1, Inductive, PTL

\* The single-flight promise of _refresh, for any number of threads: at most one
\* refresh request of the process is with the server.
THEOREM SingleFlightHolds == Spec => []SingleFlight
<1>1. IInv => SingleFlight
  BY DEF IInv, LockInv, SingleFlight, Locked, Flying
<1>2. QED
  BY <1>1, Inductive, PTL

\* _refresh presents a rotated refresh token only after losing the answer that
\* replaced it, and never reads a token that was cleared under it.
THEOREM NoReuseHolds == Spec => [](NoReuse /\ RefreshHasToken)
<1>1. IInv => NoReuse /\ RefreshHasToken
  BY DEF IInv
<1>2. QED
  BY <1>1, Inductive, PTL

-----------------------------------------------------------------------------
(* While the threads only refresh: after one login nobody calls            *)
(* authenticate or set_token, so the lock of _refresh covers every write   *)
(* of the token and of the header.                                         *)

RefreshCallsOnly == {"refresh", "ensure"}

\* No thread runs authenticate or set_token.
NoLogin == \A t \in Threads :
  /\ call[t] \in RefreshCallsOnly
  /\ pc[t] \notin {"l_send", "l_sent", "l_store", "l_header", "l_return"}

\* The header lags the token only between the two assignments of one thread.
HeaderInv ==
  /\ (\A t \in Threads : pc[t] \notin {"r_header", "r_cleared"}) => header = token
  /\ \A t \in Threads : /\ pc[t] = "r_header" => token # 0
                        /\ pc[t] = "r_cleared" => token = 0

\* The token presented is still the one stored, and a refused one is not live.
PresentedInv == \A t \in Threads :
  /\ pc[t] \in Flying => token = frame[t].body
  /\ pc[t] = "r_rejected" => frame[t].body # session

\* Past the coalescing test the token is the one observed before queueing, or expired.
ObservedInv == \A t \in Threads :
  pc[t] \in {"r_recheck", "r_read"} => token = frame[t].observed \/ ~Valid(token)

RInv == NoLogin /\ HeaderInv /\ PresentedInv /\ ObservedInv

-----------------------------------------------------------------------------
\* The state after the login satisfies RInv.
LEMMA InitRInv == LoggedInInit => RInv
BY ThreadsAssumption
   DEF LoggedInInit, RInv, NoLogin, HeaderInv, PresentedInv, ObservedInv,
       RefreshCallsOnly, Flying

\* RInv is inductive when the threads make no other calls.
LEMMA NextRInv ==
  ASSUME Calls \subseteq RefreshCallsOnly, IInv, RInv, [Next]_vars
  PROVE  RInv'
<1> USE DEF RInv, NoLogin, HeaderInv, PresentedInv, ObservedInv, RefreshCallsOnly,
            Flying, At, Goto, Leave
<1>1. /\ pc \in [Threads -> Labels] /\ call \in [Threads -> AllCalls]
      /\ frame \in [Threads -> Frames]
  BY DEF IInv, TypeOK
<1>2. \A t, u \in Threads : pc[t] \in Locked /\ pc[u] \in Locked => t = u
  BY DEF IInv, LockInv
<1>3. ASSUME NEW t \in Threads, Call(t) \/ CallImport(t) \/ Ensure(t)
      PROVE  RInv'
  BY <1>1, <1>3 DEF Call, CallImport, Entry, Ensure, EnsureCheck, EnsureValue,
     EnsureBranch, EnsureReturn, LeaveWithAccess, Resting, Valid, client, clock, server
<1>4. ASSUME NEW t \in Threads, Refresh(t)
      PROVE  RInv'
  <2> USE <1>1, <1>2 DEF Locked, Frames, Valid, client, clock, server
  <2>1. CASE RefreshCheck(t)
    BY <2>1 DEF RefreshCheck
  <2>2. CASE RefreshObserve(t)
    BY <2>2 DEF RefreshObserve
  <2>3. CASE RefreshAcquire(t)
    BY <2>3 DEF RefreshAcquire
  <2>4. CASE RefreshCoalesce(t)
    BY <2>4 DEF RefreshCoalesce, Coalesced
  <2>5. CASE RefreshReuse(t)
    BY <2>5 DEF RefreshReuse, LeaveWithToken
  <2>6. CASE RefreshRecheck(t)
    BY <2>6 DEF RefreshRecheck
  <2>7. CASE RefreshSend(t)
    BY <2>7 DEF RefreshSend
  <2>8. CASE RefreshStore(t)
    <3>1. frame[t].answer # 0
      BY <2>8 DEF RefreshStore, IInv, Carried, Storing, Issued
    <3>2. QED
      BY <2>8, <3>1 DEF RefreshStore, StoreAnswer
  <2>9. CASE RefreshHeader(t)
    BY <2>9 DEF RefreshHeader
  <2>10. CASE RefreshClear(t)
    BY <2>10 DEF RefreshClear
  <2>11. CASE RefreshClearHeader(t)
    BY <2>11 DEF RefreshClearHeader
  <2>12. CASE RefreshFail(t)
    BY <2>12 DEF RefreshFail
  <2>13. CASE RefreshReturn(t)
    BY <2>13 DEF RefreshReturn, LeaveWithToken
  <2>14. QED
    BY <1>4, <2>1, <2>2, <2>3, <2>4, <2>5, <2>6, <2>7, <2>8, <2>9, <2>10, <2>11,
       <2>12, <2>13 DEF Refresh
<1>5. ASSUME NEW t \in Threads, Login(t)
      PROVE  RInv'
  BY <1>5 DEF Login, LoginSend, LoginStore, LoginHeader, LoginReturn
<1>6. ASSUME NEW t \in Threads, Answer(t)
      PROVE  RInv'
  <2> USE <1>1, <1>2 DEF Locked, Frames, Valid, client, clock, server
  <2>1. CASE ServerRotate(t)
    BY <2>1 DEF ServerRotate
  <2>2. CASE ServerReject(t)
    <3>1. frame[t].body # 0
      BY <2>2 DEF ServerReject, IInv, Carried, Issued
    <3>2. QED
      BY <2>2, <3>1 DEF ServerReject
  <2>3. CASE ServerUnavailable(t)
    BY <2>3 DEF ServerUnavailable
  <2>4. CASE ServerLogin(t) \/ ServerRefuseLogin(t) \/ ServerPending(t)
    BY <2>4 DEF ServerLogin, ServerRefuseLogin, ServerPending
  <2>5. QED
    BY <1>6, <2>1, <2>2, <2>3, <2>4 DEF Answer
<1>7. CASE Environment
  <2>1. \A t \in Threads : pc[t] \in Flying => frame[t].body \in 1..issued
    BY DEF IInv, Carried, Issued
  <2>2. issued \in Nat
    BY DEF IInv, TypeOK, TokenId
  <2>3. CASE OtherLogin
    BY <2>1, <2>2, <2>3 DEF OtherLogin, Valid, client, local, clock
  <2>4. CASE RevokeSession
    BY <2>1, <2>4 DEF RevokeSession, Valid, client, local, clock
  <2>5. CASE Expire \/ ExpireRefresh
    BY <2>5 DEF Expire, ExpireRefresh, Valid, client, local, server
  <2>6. QED
    BY <1>7, <2>3, <2>4, <2>5 DEF Environment
<1>8. CASE UNCHANGED vars
  BY <1>8 DEF vars, client, local, clock, server, Valid
<1>9. QED
  BY <1>3, <1>4, <1>5, <1>6, <1>7, <1>8 DEF Next

\* The one step that clears the token is _clear_token after a refusal.
LEMMA ClearStep ==
  ASSUME IInv, RInv, [Next]_vars
  PROVE  [token # 0 /\ token' = 0 => token # session]_vars
<1>1. SUFFICES ASSUME Next, token # 0, token' = 0
               PROVE  token # session
  OBVIOUS
<1>2. PICK t \in Threads : RefreshClear(t) \/ RefreshStore(t) \/ LoginStore(t)
  BY <1>1 DEF Next, Call, CallImport, Ensure, EnsureCheck, EnsureValue, EnsureBranch,
     EnsureReturn, Refresh, RefreshCheck, RefreshObserve, RefreshAcquire,
     RefreshCoalesce, RefreshReuse, RefreshRecheck, RefreshSend, RefreshHeader,
     RefreshClearHeader, RefreshFail, RefreshReturn, Login, LoginSend, LoginHeader,
     LoginReturn, Answer, ServerRotate, ServerReject, ServerUnavailable, ServerLogin,
     ServerRefuseLogin, ServerPending, Environment, OtherLogin, RevokeSession, Expire,
     ExpireRefresh, client
<1>3. CASE RefreshClear(t)
  BY <1>3 DEF RInv, PresentedInv, RefreshClear, At, Flying
<1>4. CASE RefreshStore(t) \/ LoginStore(t)
  BY <1>1, <1>4 DEF IInv, Carried, Storing, Issued, RefreshStore, LoginStore, StoreAnswer, At
<1>5. QED
  BY <1>2, <1>3, <1>4

\* As long as nobody logs in meanwhile, both invariants hold.
LEMMA RefreshInductive ==
  ASSUME Calls \subseteq RefreshCallsOnly
  PROVE  LoggedInSpec => [](IInv /\ RInv)
<1>1. IInv /\ RInv /\ [Next]_vars => RInv'
  BY NextRInv
<1>2. QED
  BY <1>1, InitRInv, Inductive, PTL DEF LoggedInSpec

\* Whenever no thread is inside _refresh, the Authorization header carries the
\* token that is stored.
THEOREM RefreshersAgree ==
  ASSUME Calls \subseteq RefreshCallsOnly
  PROVE  LoggedInSpec => []HeaderFollowsToken
<1>1. IInv /\ RInv => HeaderFollowsToken
  BY ThreadsAssumption DEF IInv, LockInv, Locked, RInv, HeaderInv, HeaderFollowsToken
<1>2. QED
  BY <1>1, RefreshInductive, PTL

\* A thread that waited for the lock does not repeat the refresh of its holder: the
\* token it sends is the one it saw before, or has expired.
THEOREM RefreshesAreNotRepeated ==
  ASSUME Calls \subseteq RefreshCallsOnly
  PROVE  LoggedInSpec => []NoRedundantRefresh
<1>1. RInv => NoRedundantRefresh
  BY DEF RInv, ObservedInv, NoRedundantRefresh, At
<1>2. QED
  BY <1>1, RefreshInductive, PTL

\* _clear_token forgets only a token set whose session is over.
THEOREM OnlyDeadSessionsAreCleared ==
  ASSUME Calls \subseteq RefreshCallsOnly
  PROVE  LoggedInSpec => ClearsOnlyDeadSession
<1>1. IInv /\ RInv /\ [Next]_vars => [token # 0 /\ token' = 0 => token # session]_vars
  BY ClearStep
<1>2. QED
  BY <1>1, RefreshInductive, PTL DEF LoggedInSpec, ClearsOnlyDeadSession

-----------------------------------------------------------------------------
(* The refinement: the threads of TokenManager together implement          *)
(* RefreshSession.  IInv, and that the live session was never rotated,     *)
(* give the step simulation.                                               *)

\* The live session was never rotated, and an answer that is on its way
\* replaces a token set that was rotated for it, and not lost.
RotatedInv ==
  /\ session \notin consumed
  /\ \A t \in Threads : pc[t] = "r_store" => frame[t].body \in consumed \ lost

\* A step changes the set of rotated tokens only by the server's rotation.
LEMMA RotatedStep ==
  ASSUME IInv, RotatedInv, [Next]_vars
  PROVE  RotatedInv'
<1> USE DEF RotatedInv
<1>1. issued \in Nat /\ consumed \subseteq 1..issued /\ lost \subseteq consumed
      /\ pc \in [Threads -> Labels] /\ frame \in [Threads -> Frames]
  BY DEF IInv, TypeOK, TokenId, Issued
<1>2. ASSUME NEW t \in Threads, Call(t) \/ CallImport(t) \/ Ensure(t)
      PROVE  RotatedInv'
  BY <1>1, <1>2 DEF Call, CallImport, Entry, Ensure, EnsureCheck, EnsureValue, EnsureBranch,
     EnsureReturn, At, Goto, Leave, LeaveWithAccess, server
<1>3. ASSUME NEW t \in Threads, Refresh(t) \/ Login(t)
      PROVE  RotatedInv'
  <2>1. UNCHANGED server
    BY <1>3 DEF Refresh, Login, RefreshCheck, RefreshObserve, RefreshAcquire,
       RefreshCoalesce, RefreshReuse, RefreshRecheck, RefreshSend, RefreshStore,
       RefreshHeader, RefreshClear, RefreshClearHeader, RefreshFail, RefreshReturn,
       LoginSend, LoginStore, LoginHeader, LoginReturn
  <2>2. \A u \in Threads : pc'[u] = "r_store" =>
          pc[u] = "r_store" /\ frame'[u].body = frame[u].body
    BY <1>1, <1>3 DEF Refresh, Login, RefreshCheck, RefreshObserve, RefreshAcquire,
       RefreshCoalesce, RefreshReuse, RefreshRecheck, RefreshSend, RefreshStore,
       RefreshHeader, RefreshClear, RefreshClearHeader, RefreshFail, RefreshReturn,
       LoginSend, LoginStore, LoginHeader, LoginReturn, At, Goto, Leave, LeaveWithToken,
       Frames
  <2>3. QED
    BY <2>1, <2>2 DEF server
<1>4. ASSUME NEW t \in Threads, ServerRotate(t)
      PROVE  RotatedInv'
  <2>1. session \in Issued /\ \A u \in Threads : u # t => pc[u] # "r_store"
    BY <1>4 DEF IInv, Carried, LockInv, Locked, Flying, ServerRotate, At
  <2>2. QED
    BY <1>1, <1>4, <2>1 DEF ServerRotate, At, Frames, Issued
<1>5. ASSUME NEW t \in Threads, Answer(t), ~ServerRotate(t)
      PROVE  RotatedInv'
  BY <1>1, <1>5 DEF Answer, ServerReject, ServerUnavailable, ServerLogin,
     ServerRefuseLogin, ServerPending, At, Goto, Leave, server, Frames
<1>6. CASE Environment
  BY <1>1, <1>6 DEF Environment, OtherLogin, RevokeSession, Expire, ExpireRefresh, local, server
<1>7. CASE UNCHANGED vars
  BY <1>7 DEF vars, local, server
<1>8. QED
  BY <1>2, <1>3, <1>4, <1>5, <1>6, <1>7 DEF Next

-----------------------------------------------------------------------------
(* The refinement mapping.                                                 *)

\* A new manager is a new session: nothing held, outstanding or spent.
LEMMA ImplementsInit == Init \/ LoggedInInit => Session!Init
BY DEF Init, LoggedInInit, Session!Init, Outstanding, Spent, Bodies, Flying

\* With a request with the server, the mapping reads it off the one thread that
\* posted it; without one, nothing is outstanding.
LEMMA OutstandingOf ==
  ASSUME IInv
  PROVE  /\ \A t \in Threads : pc[t] \in Flying =>
              Outstanding = frame[t].body /\ Outstanding # 0
         /\ (\A t \in Threads : pc[t] \notin Flying) => Outstanding = 0
<1>1. ASSUME NEW t \in Threads, pc[t] \in Flying
      PROVE  Outstanding = frame[t].body /\ Outstanding # 0
  <2>1. \A u \in Threads : pc[u] \in Flying => u = t
    BY <1>1 DEF IInv, LockInv, Locked, Flying
  <2>2. Bodies(Flying) = {frame[t].body}
    BY <1>1, <2>1 DEF Bodies
  <2>3. frame[t].body # 0
    BY <1>1 DEF IInv, Carried, Issued
  <2>4. QED
    BY <2>2, <2>3 DEF Outstanding
<1>2. ASSUME \A t \in Threads : pc[t] \notin Flying
      PROVE  Outstanding = 0
  BY <1>2 DEF Outstanding, Bodies
<1>3. QED
  BY <1>1, <1>2

\* A step that moves no thread into, out of or within Flying, and changes neither
\* the stored token nor the rotated ones, is a stutter of the session.
LEMMA SameSession ==
  ASSUME UNCHANGED <<token, consumed, lost>>,
         \A u \in Threads : pc'[u] \in Flying <=> pc[u] \in Flying,
         \A u \in Threads : pc'[u] = "r_store" <=> pc[u] = "r_store",
         \A u \in Threads : pc[u] \in Flying => frame'[u].body = frame[u].body
  PROVE  UNCHANGED Session!vars
<1>1. Bodies(Flying)' = Bodies(Flying)
  BY DEF Bodies
<1>2. Bodies({"r_store"})' = Bodies({"r_store"})
  BY DEF Bodies, Flying
<1>3. QED
  BY <1>1, <1>2 DEF Outstanding, Spent, Session!vars

\* Posting is Present: the lock keeps the wire free, HeldInv keeps the token unspent.
LEMMA SendImplements ==
  ASSUME IInv, NEW t \in Threads, RefreshSend(t)
  PROVE  Session!Present
<1>1. /\ pc[t] = "r_read" /\ token # 0
      /\ pc' = [pc EXCEPT ![t] = "r_sent"]
      /\ frame' = [frame EXCEPT ![t].body = token]
      /\ UNCHANGED <<token, consumed, lost>>
  BY DEF IInv, RefreshSend, RefreshHasToken, At, server
<1>2. pc \in [Threads -> Labels] /\ frame \in [Threads -> Frames] /\ token \in Nat
  BY DEF IInv, TypeOK, Issued
<1>3. \A u \in Threads : pc[u] \notin Flying
  BY <1>1 DEF IInv, LockInv, Locked, Flying
<1>4. Outstanding = 0
  BY <1>3, OutstandingOf
<1>5. Outstanding' = token
  <2>1. Bodies(Flying)' = {token}
    BY <1>1, <1>2, <1>3 DEF Bodies, Flying, Frames
  <2>2. QED
    BY <2>1 DEF Outstanding
<1>6. Bodies({"r_store"}) = {} /\ Bodies({"r_store"})' = {}
  BY <1>1, <1>2, <1>3 DEF Bodies, Flying
<1>7. token \notin Spent
  BY <1>3 DEF IInv, HeldInv, Spent, Flying
<1>8. Spent' = Spent
  BY <1>1, <1>6 DEF Spent
<1>9. QED
  BY <1>1, <1>2, <1>4, <1>5, <1>7, <1>8 DEF Session!Present, Session!Tokens

\* Storing the answer of a refresh is Renew: what was presented becomes spent.
LEMMA StoreImplements ==
  ASSUME IInv, RotatedInv, NEW t \in Threads, RefreshStore(t)
  PROVE  Session!Renew
<1>1. /\ pc[t] = "r_store"
      /\ pc' = [pc EXCEPT ![t] = "r_header"]
      /\ token' = frame[t].answer
      /\ UNCHANGED <<frame, consumed, lost>>
  BY DEF RefreshStore, StoreAnswer, Goto, At, server
<1>2. pc \in [Threads -> Labels]
  BY DEF IInv, TypeOK
<1>3. \A u \in Threads : pc[u] \in Flying => u = t
  BY <1>1 DEF IInv, LockInv, Locked, Flying
<1>4. Outstanding = frame[t].body /\ Outstanding # 0
  BY <1>1, OutstandingOf DEF Flying
<1>5. Bodies(Flying)' = {} /\ Bodies({"r_store"})' = {}
  BY <1>1, <1>2, <1>3 DEF Bodies, Flying
<1>6. Outstanding' = 0
  BY <1>5 DEF Outstanding
<1>7. Bodies({"r_store"}) = {frame[t].body}
  BY <1>1, <1>3 DEF Bodies, Flying
<1>8. frame[t].body \in consumed \ lost
  BY <1>1 DEF RotatedInv
<1>9. Spent' = Spent \union {Outstanding}
  BY <1>1, <1>4, <1>5, <1>7, <1>8 DEF Spent
<1>10. frame[t].answer \in Nat \ {0} /\ frame[t].answer \notin consumed
  BY <1>1 DEF IInv, Carried, Arriving, Storing, Issued
<1>11. token' \in Session!Tokens \ (Spent \union {Outstanding})
  BY <1>1, <1>4, <1>8, <1>10 DEF Session!Tokens, Spent
<1>12. QED
  BY <1>4, <1>6, <1>9, <1>11 DEF Session!Renew

\* Dealing with a refusal is Reject, with any other failure Fail.
LEMMA FailureImplements ==
  ASSUME IInv, NEW t \in Threads, RefreshClear(t) \/ RefreshFail(t)
  PROVE  Session!Reject \/ Session!Fail
<1>1. PICK label \in {"r_cleared", "idle"} :
        /\ pc[t] \in {"r_rejected", "r_failed"}
        /\ pc' = [pc EXCEPT ![t] = label]
        /\ token' = token \/ token' = 0
        /\ UNCHANGED <<consumed, lost>>
  BY DEF RefreshClear, RefreshFail, Goto, Leave, At, server
<1>2. pc \in [Threads -> Labels]
  BY DEF IInv, TypeOK
<1>3. \A u \in Threads : pc[u] \in Flying => u = t
  BY <1>1 DEF IInv, LockInv, Locked, Flying
<1>4. Outstanding # 0
  BY <1>1, OutstandingOf DEF Flying
<1>5. Bodies(Flying)' = {}
  BY <1>1, <1>2, <1>3 DEF Bodies, Flying
<1>6. Bodies({"r_store"}) = {} /\ Bodies({"r_store"})' = {}
  BY <1>1, <1>2, <1>3 DEF Bodies, Flying
<1>7. Outstanding' = 0 /\ Spent' = Spent
  BY <1>1, <1>5, <1>6 DEF Outstanding, Spent
<1>8. QED
  BY <1>1, <1>4, <1>7 DEF Session!Reject, Session!Fail

\* The rotation itself is not visible yet: the client has not stored the answer.
LEMMA RotateImplements ==
  ASSUME IInv, RotatedInv, NEW t \in Threads, ServerRotate(t)
  PROVE  UNCHANGED Session!vars
<1>1. /\ pc[t] = "r_sent" /\ frame[t].body = session
      /\ consumed' = consumed \union {session}
      /\ \/ /\ pc' = [pc EXCEPT ![t] = "r_store"]
            /\ frame' = [frame EXCEPT ![t].answer = issued + 1]
            /\ lost' = lost
         \/ /\ pc' = [pc EXCEPT ![t] = "r_failed"]
            /\ frame' = frame
            /\ lost' = lost \union {session}
      /\ token' = token
  BY DEF ServerRotate, At, client
<1>2. pc \in [Threads -> Labels] /\ frame \in [Threads -> Frames]
  BY DEF IInv, TypeOK
<1>3. \A u \in Threads : pc[u] \in Flying => u = t
  BY <1>1 DEF IInv, LockInv, Locked, Flying
<1>4. Bodies(Flying)' = {session} /\ Bodies(Flying) = {session}
  BY <1>1, <1>2, <1>3 DEF Bodies, Flying, Frames
<1>5. Bodies({"r_store"}) = {}
  BY <1>1, <1>3 DEF Bodies, Flying
<1>6. session \notin consumed
  BY DEF RotatedInv
<1>7. ASSUME pc' = [pc EXCEPT ![t] = "r_store"],
             frame' = [frame EXCEPT ![t].answer = issued + 1], lost' = lost
      PROVE  Spent' = Spent
  <2>1. Bodies({"r_store"})' = {session}
    BY <1>1, <1>2, <1>3, <1>7 DEF Bodies, Flying, Frames
  <2>2. QED
    BY <1>1, <1>5, <1>6, <1>7, <2>1 DEF Spent
<1>8. ASSUME pc' = [pc EXCEPT ![t] = "r_failed"], frame' = frame,
             lost' = lost \union {session}
      PROVE  Spent' = Spent
  <2>1. Bodies({"r_store"})' = {}
    BY <1>2, <1>3, <1>8 DEF Bodies, Flying
  <2>2. QED
    BY <1>1, <1>5, <1>6, <1>8, <2>1 DEF Spent
<1>9. QED
  BY <1>1, <1>4, <1>7, <1>8 DEF Outstanding, Session!vars

\* Storing the answer of a login, or a token set handed over, is Acquire.
LEMMA LoginImplements ==
  ASSUME IInv, NEW t \in Threads, LoginStore(t)
  PROVE  Session!Acquire
<1>1. /\ pc[t] = "l_store"
      /\ pc' = [pc EXCEPT ![t] = "l_header"]
      /\ token' = frame[t].answer
      /\ UNCHANGED <<frame, consumed, lost>>
  BY DEF LoginStore, StoreAnswer, Goto, At, server
<1>2. pc \in [Threads -> Labels]
  BY DEF IInv, TypeOK
<1>3. Bodies(Flying)' = Bodies(Flying) /\ Bodies({"r_store"})' = Bodies({"r_store"})
  BY <1>1, <1>2 DEF Bodies, Flying
<1>4. frame[t].answer \in Nat \ {0} /\ frame[t].answer \notin consumed
  BY <1>1 DEF IInv, Carried, Arriving, Storing, Issued
<1>5. QED
  BY <1>1, <1>3, <1>4 DEF Outstanding, Spent, Session!Acquire, Session!Tokens

\* No other step of a thread, of the server or of the clock is visible.
LEMMA OthersImplement ==
  ASSUME IInv, NEW t \in Threads,
         \/ Call(t) \/ CallImport(t) \/ Ensure(t)
         \/ Login(t) /\ ~LoginStore(t)
         \/ Refresh(t) /\ ~RefreshSend(t) /\ ~RefreshStore(t)
                       /\ ~RefreshClear(t) /\ ~RefreshFail(t)
         \/ Answer(t) /\ ~ServerRotate(t)
  PROVE  UNCHANGED Session!vars
<1>1. pc \in [Threads -> Labels] /\ frame \in [Threads -> Frames]
  BY DEF IInv, TypeOK
<1>2. UNCHANGED <<token, consumed, lost>>
  BY DEF Call, CallImport, Ensure, EnsureCheck, EnsureValue, EnsureBranch, EnsureReturn,
     Login, LoginSend, LoginHeader, LoginReturn, Refresh, RefreshCheck, RefreshObserve,
     RefreshAcquire, RefreshCoalesce, RefreshReuse, RefreshRecheck, RefreshHeader,
     RefreshClearHeader, RefreshReturn, Answer, ServerReject, ServerUnavailable,
     ServerLogin, ServerRefuseLogin, ServerPending, client, server
<1>3. /\ \A u \in Threads : pc'[u] \in Flying <=> pc[u] \in Flying
      /\ \A u \in Threads : pc'[u] = "r_store" <=> pc[u] = "r_store"
      /\ \A u \in Threads : pc[u] \in Flying => frame'[u].body = frame[u].body
  <2> USE <1>1 DEF Flying, At, Goto, Leave
  <2>1. CASE Call(t) \/ CallImport(t)
    BY <2>1 DEF Call, CallImport, Entry, Resting
  <2>2. CASE Ensure(t)
    BY <2>2 DEF Ensure, EnsureCheck, EnsureValue, EnsureBranch, EnsureReturn,
       LeaveWithAccess
  <2>3. CASE Login(t) /\ ~LoginStore(t)
    BY <2>3 DEF Login, LoginSend, LoginHeader, LoginReturn, LeaveWithToken
  <2>4. CASE RefreshCheck(t) \/ RefreshObserve(t) \/ RefreshAcquire(t)
             \/ RefreshCoalesce(t)
    BY <2>4 DEF RefreshCheck, RefreshObserve, RefreshAcquire, RefreshCoalesce, Frames
  <2>5. CASE RefreshReuse(t) \/ RefreshRecheck(t) \/ RefreshHeader(t)
             \/ RefreshClearHeader(t) \/ RefreshReturn(t)
    BY <2>5 DEF RefreshReuse, RefreshRecheck, RefreshHeader, RefreshClearHeader,
       RefreshReturn, LeaveWithToken
  <2>6. CASE Answer(t) /\ ~ServerRotate(t)
    BY <2>6 DEF Answer, ServerReject, ServerUnavailable, ServerLogin,
       ServerRefuseLogin, ServerPending, Frames
  <2>7. QED
    BY <2>1, <2>2, <2>3, <2>4, <2>5, <2>6 DEF Refresh
<1>4. QED
  BY <1>2, <1>3, SameSession

\* Every step of the manager is a step of the session or a stutter.
LEMMA ImplementsStep ==
  ASSUME IInv, RotatedInv, [Next]_vars
  PROVE  [Session!Next]_(Session!vars)
<1>1. ASSUME NEW t \in Threads,
             Call(t) \/ CallImport(t) \/ Ensure(t) \/ Refresh(t) \/ Login(t) \/ Answer(t)
      PROVE  [Session!Next]_(Session!vars)
  BY <1>1, SendImplements, StoreImplements, FailureImplements, LoginImplements,
     RotateImplements, OthersImplement DEF Session!Next
<1>2. CASE Environment \/ UNCHANGED vars
  BY <1>2, SameSession
     DEF Environment, OtherLogin, RevokeSession, Expire, ExpireRefresh, vars, client,
         local, clock, server
<1>3. QED
  BY <1>1, <1>2 DEF Next

\* For any number of threads and whatever the server and the network do, the
\* manager is a RefreshSession: one request at a time, no spent token presented, with
\* or without a token set to begin with.
THEOREM Refinement == (Spec => ImplementsSession) /\ (LoggedInSpec => ImplementsSession)
<1>1. Init \/ LoggedInInit => Session!Init /\ RotatedInv
  BY ImplementsInit DEF Init, LoggedInInit, RotatedInv
<1>2. IInv /\ RotatedInv /\ [Next]_vars => RotatedInv' /\ [Session!Next]_(Session!vars)
  BY RotatedStep, ImplementsStep
<1>3. QED
  BY <1>1, <1>2, Inductive, PTL DEF Spec, LoggedInSpec, ImplementsSession, Session!Spec
=============================================================================
