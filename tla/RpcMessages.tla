------------------------------ MODULE RpcMessages ------------------------------
(***************************************************************************)
(* The messages of crates/wasmi-plugin-pdk/src/rpc_message.rs and the      *)
(* errors they carry.  A line of JSON is a record of the fields that       *)
(* decide how it is read; jsonrpc is the same in all.                      *)
(***************************************************************************)
EXTENDS Integers

CONSTANTS Texts   \* what the text of an error may be

Named == {"ParseError", "InvalidRequest", "MethodNotFound", "InvalidParams",
          "InternalError"}

\* enum RpcError.  The text is what Display makes of the error; that of a
\* named error is fixed, and its name stands for it.
Err(name) == [name |-> name, text |-> name]

Custom(text) == [name |-> "Custom", text |-> text]

RpcError == {Err(n) : n \in Named} \cup {Custom(t) : t \in Texts}

\* RpcError::code.
Code == [ParseError |-> -32700, InvalidRequest |-> -32600,
         MethodNotFound |-> -32601, InvalidParams |-> -32602,
         InternalError |-> -32603, Custom |-> -32000]

Serialize(e) == [code |-> Code[e.name], message |-> e.text]

\* Faulty: two arms have each other's code.
DeserializeSwapped(d) ==
    CASE d.code = -32700 -> Err("ParseError")
      [] d.code = -32600 -> Err("InvalidRequest")
      [] d.code = -32602 -> Err("MethodNotFound")
      [] d.code = -32601 -> Err("InvalidParams")
      [] d.code = -32603 -> Err("InternalError")
      [] OTHER           -> Custom(d.message)

\* A code that is none of these is that of an error of the peer's own.
Deserialize(d) ==
    CASE d.code = -32700 -> Err("ParseError")
      [] d.code = -32600 -> Err("InvalidRequest")
      [] d.code = -32601 -> Err("MethodNotFound")
      [] d.code = -32602 -> Err("InvalidParams")
      [] d.code = -32603 -> Err("InternalError")
      [] OTHER           -> Custom(d.message)

-----------------------------------------------------------------------------
Request(id, method, params) == [id |-> id, method |-> method, params |-> params]

Response(id, result) == [id |-> id, result |-> result]

ErrorResponse(id, e) == [id |-> id, error |-> Serialize(e)]

\* enum RpcMessage is untagged: the first variant whose fields are all there.
Kind(line) == IF {"id", "method", "params"} \subseteq DOMAIN line THEN "request"
              ELSE IF {"id", "result"} \subseteq DOMAIN line THEN "response"
              ELSE IF {"id", "error"} \subseteq DOMAIN line THEN "error"
              ELSE "garbage"
=============================================================================
