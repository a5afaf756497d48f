-------------------------- MODULE MCJsonRpcTransport --------------------------
(***************************************************************************)
(* Values for the constants of JsonRpcTransport: two callers, and a peer   *)
(* that makes one request of its own, or none.                             *)
(***************************************************************************)
EXTENDS JsonRpcTransport

CONSTANTS c1, c2, p1

TwoCallers == {c1, c2}
OneRequest == {p1}
=============================================================================
