--------------------------- MODULE RefreshSession ---------------------------
(***************************************************************************)
(* What the token manager owes the server, without threads, locks or       *)
(* headers: the client holds at most one token set, has at most one        *)
(* refresh request outstanding, and never presents a refresh token whose   *)
(* renewal it has already received ("spent"), because the server answers   *)
(* the reuse of a refresh token by revoking the apiKey's whole session.    *)
(***************************************************************************)
EXTENDS Naturals

VARIABLES
  held,         \* the token set the client would use, 0 when it has none
  outstanding,  \* the refresh token presented and not answered yet, or 0
  spent         \* refresh tokens whose renewal the client has stored

vars == <<held, outstanding, spent>>

Tokens == Nat \ {0}

\* The client starts with nothing, or with a token set it was handed.
Init ==
  /\ held \in Nat
  /\ outstanding = 0
  /\ spent = {}

\* A login, or a token set handed to the client.
Acquire ==
  /\ held' \in Tokens \ spent
  /\ UNCHANGED <<outstanding, spent>>

\* The held refresh token goes to the server: one at a time, never a spent one.
Present ==
  /\ outstanding = 0
  /\ held \in Tokens \ spent
  /\ outstanding' = held
  /\ UNCHANGED <<held, spent>>

\* The renewal arrives and is stored: the presented token is now spent.
Renew ==
  /\ outstanding # 0
  /\ held' \in Tokens \ (spent \union {outstanding})
  /\ spent' = spent \union {outstanding}
  /\ outstanding' = 0

\* The server refuses the presented token: the client forgets what it holds.
Reject ==
  /\ outstanding # 0
  /\ held' = 0
  /\ outstanding' = 0
  /\ UNCHANGED spent

\* No usable answer: the client cannot tell whether the token was used.
Fail ==
  /\ outstanding # 0
  /\ outstanding' = 0
  /\ UNCHANGED <<held, spent>>

Next == Acquire \/ Present \/ Renew \/ Reject \/ Fail

Spec == Init /\ [][Next]_vars

\* A refresh token whose renewal was stored is neither held nor on the wire.
SingleUse == held \notin spent /\ outstanding \notin spent
=============================================================================
