------------------------- MODULE MCWebSocketClient -------------------------
(* Small instances of WebSocketClient.                                     *)
EXTENDS WebSocketClient, TLC

CONSTANTS g1, g2, a1, a2, a3, i1, i2, x, y

TwoSupervisors == {g1, g2}
OneSupervisor  == {g1}
TwoApps   == {a1, a2}
ThreeApps == {a1, a2, a3}
OneTimer  == {i1}
TwoTimers == {i1, i2}
NoTopic   == {}
OneTopic  == {x}
TwoTopics == {x, y}
\* Any free thread, app or timer may be taken, so each kind may be renamed.
Renamings == Permutations(ThreeApps) \union Permutations(TwoTimers)
               \union Permutations(TwoSupervisors)
=============================================================================
