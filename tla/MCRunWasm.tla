------------------------------- MODULE MCRunWasm -------------------------------
(***************************************************************************)
(* Values for the constants of RunWasm.  Blocks cost less than a slice, or *)
(* more; timeouts reach from none to the largest u64.                      *)
(***************************************************************************)
EXTENDS RunWasm

CheapAndDear == {1, 3}
ShortAndLong == {0, 1, MaxTime}
=============================================================================
