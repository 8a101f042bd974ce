--------------------------- MODULE MCTokenManager ---------------------------
(* TokenManager with small constants: threads are model values, and TLC may *)
(* permute them in the runs that check no liveness.                         *)
EXTENDS TokenManager, TLC

CONSTANTS t1, t2

TwoThreads   == {t1, t2}
Symmetry2    == Permutations(TwoThreads)

RefreshCalls == {"refresh", "ensure"}
RefreshLoginCalls == {"refresh", "login"}
LoginCalls        == {"login", "import", "ensureTx"}

=============================================================================
