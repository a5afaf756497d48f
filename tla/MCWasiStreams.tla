----------------------------- MODULE MCWasiStreams -----------------------------
(***************************************************************************)
(* Values for the constants of WasiStreams and LineStreams: a newline and  *)
(* the two bytes of a character, which are written apart, together and     *)
(* with the newline; a BufReader of two bytes, and buffers that are empty, *)
(* smaller and larger.                                                     *)
(***************************************************************************)
EXTENDS LineStreams

ThreeBytes == {Newline, Lead, Continuation}
Pieces == {<<Newline>>, <<Lead>>, <<Continuation>>, <<Lead, Continuation>>,
           <<Continuation, Newline>>}
=============================================================================
