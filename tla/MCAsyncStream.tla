---------------------------- MODULE MCAsyncStream ----------------------------
(***************************************************************************)
(* AsyncStream for TLC.                                                    *)
(***************************************************************************)
EXTENDS AsyncStream, TLC

EitherOrder == Permutations(Owners)
=============================================================================
