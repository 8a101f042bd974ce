-------------------------- MODULE MCAsyncTradingWS --------------------------
\* AsyncTradingWS for TLC.
EXTENDS AsyncTradingWS, TLC

CONSTANTS c1, c2, s1, s2

TwoCallers == {c1, c2}
TwoSockets == {s1, s2}
\* A client that signs for a server which takes hex only, and one without a key.
HexMode    == {[mode |-> "auto", key |-> k, accepts |-> "hex"] : k \in BOOLEAN}
Signed     == {TRUE}
Renamings  == Permutations(TwoCallers) \union Permutations(TwoSockets)
=============================================================================
