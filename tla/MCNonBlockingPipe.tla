-------------------------- MODULE MCNonBlockingPipe --------------------------
(***************************************************************************)
(* Values for the constants of NonBlockingPipe: two bytes, writes of one   *)
(* and of two bytes, reads that take one byte, two, or more than there are.*)
(***************************************************************************)
EXTENDS NonBlockingPipe

CONSTANTS a, b

MCByte == {a, b}
MCChunks == {<<a>>, <<b>>, <<a, b>>}
=============================================================================
