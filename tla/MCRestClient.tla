---------------------------- MODULE MCRestClient ----------------------------
(* Constants of RestClient for TLC. *)
EXTENDS RestClient

CONSTANTS t1, t2

TwoThreads == {t1, t2}
NoneOrTwo  == {0, 2}
NoOrOne    == {0, 1}
NoOrLong   == {0, 3, 4}
=============================================================================
