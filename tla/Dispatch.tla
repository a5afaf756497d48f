------------------------------- MODULE Dispatch -------------------------------
(***************************************************************************)
(* Calls between a host and its plugins, nested to any depth: the          *)
(* application calls a plugin, whose method calls a host method, which     *)
(* calls the same or another plugin, and so on.  PluginServer and Router   *)
(* (wasmi-plugin-pdk/src/server.rs), HostServer (wasmi-plugin-hdk/src/     *)
(* server.rs), PluginCallback and PluginError (plugin.rs) and the messages *)
(* between them.                                                           *)
(*                                                                         *)
(* Every activation waits for the one it calls, so they form a stack and   *)
(* one line is under way at a time.  How a line travels, and several calls *)
(* of one guest at once, are the matter of PluginCall, LineStreams and     *)
(* JsonRpcTransport.                                                       *)
(***************************************************************************)
EXTENDS RpcMessages, Sequences

CONSTANTS Plugins, Methods,
          HostMethods,    \* what HostServer::with_method registered
          PluginMethods,  \* for each plugin, its PluginServer::with_method
          MaxCalls,       \* bound: calls altogether
          None            \* no line, no plugin, no outcome

Calls == 1 .. MaxCalls

\* How a call ends: with the value that call n computed, with an error of the
\* handler or the router, with the death of the instance, or before there is one.
Value(n) == [value |-> n]
Died == Err("Died")
SpawnFailed == Err("SpawnFailed")
HandlerOutcome(n) == {Value(n)} \cup RpcError
Result == {Value(n) : n \in Calls} \cup RpcError
Outcome == Result \cup {Died, SpawnFailed}

Params == {"fit", "unfit"}   \* whether they deserialize to the handler's type

Line == [id : Nat, method : Methods, params : Params]
            \cup [id : Nat, result : Calls]
            \cup [id : Nat, error : {Serialize(e) : e \in RpcError}]

\* An activation: a handler on either side and the JsonRpcTransport on which
\* it was called.
Frame == [side : {"host", "guest"},
          plugin : Plugins \cup {None},   \* itself, or the caller it was told
          call : 0 .. MaxCalls,           \* 0 is the application
          id : Nat,                       \* of the request it answers
          next : Nat,                     \* the id counter for its own calls
          state : {"asked", "run", "await", "done", "dead"}]

ASSUME DispatchAssumption ==
    /\ MaxCalls \in Nat
    /\ HostMethods \subseteq Methods
    /\ PluginMethods \in [Plugins -> SUBSET Methods]
    /\ "spawn_error" \in Texts
    /\ None \notin Plugins \cup Outcome \cup Line

VARIABLES frames,  \* the stack of activations
          line,    \* the line under way from or to the top, or None
          made,    \* calls made so far
          raised,  \* history: how each call ended where it was served, or None
          given    \* history: what its caller got, or None

vars == <<frames, line, made, raised, given>>

TypeOK == /\ frames \in Seq(Frame)
          /\ line \in Line \cup {None}
          /\ made \in 0 .. MaxCalls
          /\ raised \in [Calls -> Outcome \cup {None}]
          /\ given \in [Calls -> Result \cup {None}]

App == [side |-> "host", plugin |-> None, call |-> 0, id |-> 0, next |-> 0,
        state |-> "run"]

Init == /\ frames = <<App>>
        /\ line = None
        /\ made = 0
        /\ raised = [n \in Calls |-> None]
        /\ given = [n \in Calls |-> None]

Depth == Len(frames)
Top == frames[Depth]
Caller == frames[Depth - 1]

TopBecomes(f) == [frames EXCEPT ![Depth] = f]

-----------------------------------------------------------------------------
(***************************************************************************)
(* Calling.                                                                *)
(***************************************************************************)
\* PluginError by its variants; Display gives the text of each.
PluginError(variant, e) == [variant |-> variant, error |-> e]

Display(pe) == CASE pe.variant = "SpawnError" -> "spawn_error"
                 [] pe.variant = "RpcError"   -> "transport_error"
                 [] pe.variant = "PluginDied" -> "plugin_died"

\* Faulty: the error of a plugin is wrapped like the others.
IntoRpcErrorWraps(pe) == Custom(Display(pe))

\* as_rpc_code and From<PluginError> for RpcError: what a host method that
\* calls a plugin passes on.
IntoRpcError(pe) == IF pe.variant = "RpcError" THEN pe.error
                    ELSE Custom(Display(pe))

\* The top makes call number made + 1: a new activation is asked for by a
\* request under the top's next id.
Asks(side, p, counter) ==
    /\ Top.state = "run"
    /\ made < MaxCalls
    /\ made' = made + 1
    /\ frames' = Append(TopBecomes([Top EXCEPT !.state = "await",
                                               !.next = counter + 1]),
                        [side |-> side, plugin |-> p, call |-> made + 1,
                         id |-> counter, next |-> 0, state |-> "asked"])
    /\ \E m \in Methods, params \in Params :
         line' = Request(counter, m, params)
    /\ UNCHANGED <<raised, given>>

\* Plugin::call: a new instance, and a new transport whose ids start at 0.
CallPlugin(p) == Top.side = "host" /\ Asks("guest", p, 0)

\* spawn_plugin fails: there is no module function to start, or wasmi fails.
SpawnFails ==
    /\ Top.side = "host" /\ Top.state = "run"
    /\ made < MaxCalls
    /\ made' = made + 1
    /\ raised' = [raised EXCEPT ![made + 1] = SpawnFailed]
    /\ given' = [given EXCEPT ![made + 1] =
                    IntoRpcError(PluginError("SpawnError", None))]
    /\ UNCHANGED <<frames, line>>

\* A guest's handler calls the host on the transport it was given.
CallHost == Top.side = "guest" /\ Asks("host", None, Top.next)

-----------------------------------------------------------------------------
(***************************************************************************)
(* Serving.                                                                *)
(***************************************************************************)
\* process_message: the result goes back under the id of the request.
Reply(id, o) == IF o \in RpcError THEN ErrorResponse(id, o)
                ELSE Response(id, o.value)

Ends(f, o) ==
    /\ frames' = TopBecomes([f EXCEPT !.state = "done"])
    /\ raised' = [raised EXCEPT ![f.call] = o]
    /\ line' = Reply(f.id, o)

\* Faulty: the handler is told the plugin of the outermost call.
ToldTheFirst == frames[2].plugin

\* PluginCallback::handle passes on the id of the plugin whose transport it
\* serves.
Told == Caller.plugin

\* HostServer::handle puts it beside the state that a host's handler is given; a
\* guest's handler is given no more than the transport.
Handling == [Top EXCEPT !.id = line.id,
                        !.plugin = IF Top.side = "host" THEN Told ELSE @]

Served == IF Top.side = "host" THEN HostMethods ELSE PluginMethods[Top.plugin]

\* Router::handle_with_state and the closure of Router::with_method: the
\* handler is looked up, then the parameters are deserialized for it.
Serve ==
    /\ Top.state = "asked"
    /\ Kind(line) = "request"
    /\ \/ /\ line.method \notin Served
          /\ Ends(Handling, Err("MethodNotFound"))
       \/ /\ line.method \in Served
          /\ line.params = "unfit"
          /\ Ends(Handling, Err("InvalidParams"))
       \/ /\ line.method \in Served
          /\ line.params = "fit"
          /\ frames' = TopBecomes([Handling EXCEPT !.state = "run"])
          /\ line' = None
          /\ UNCHANGED raised
    /\ UNCHANGED <<made, given>>

\* The handler returns.  A guest is through then: PluginServer::run handles a
\* single line.
HandlerEnds ==
    /\ Top.state = "run" /\ Top.call # 0
    /\ \E o \in HandlerOutcome(Top.call) : Ends(Top, o)
    /\ UNCHANGED <<made, given>>

\* A guest traps before it has answered, also while it waits for the host.
\* What it has written is read nevertheless.
GuestDies(k) ==
    /\ frames[k].side = "guest"
    /\ frames[k].state \in {"asked", "run", "await"}
    /\ frames' = [frames EXCEPT ![k] = [@ EXCEPT !.state = "dead"]]
    /\ raised' = [raised EXCEPT ![frames[k].call] = Died]
    /\ line' = IF frames[k].state = "asked" THEN None ELSE line
    /\ UNCHANGED <<made, given>>

-----------------------------------------------------------------------------
(***************************************************************************)
(* Returning.                                                              *)
(***************************************************************************)
\* Faulty: the counter itself, not the id that was taken from it.
PendingIsNext(f) == f.next

\* The id under which the caller waits.
Pending(f) == f.next - 1

\* What the caller makes of an error: a host sees it as a PluginError.
Seen(f, e) == IF f.side = "host" THEN IntoRpcError(PluginError("RpcError", e))
              ELSE e

Below == SubSeq(frames, 1, Depth - 1)

Pops == [Below EXCEPT ![Depth - 1] = [@ EXCEPT !.state = "run"]]

\* The caller reads the reply: an error whatever its id, a response under the
\* id it waits for; another response is dropped and it waits on.
Deliver ==
    /\ Top.state = "done" /\ Caller.state = "await"
    /\ line # None
    /\ line' = None
    /\ \/ /\ Kind(line) = "error"
          /\ given' = [given EXCEPT ![Top.call] =
                          Seen(Caller, Deserialize(line.error))]
          /\ frames' = Pops
       \/ /\ Kind(line) = "response"
          /\ IF line.id = Pending(Caller)
             THEN /\ given' = [given EXCEPT ![Top.call] = Value(line.result)]
                  /\ frames' = Pops
             ELSE UNCHANGED <<frames, given>>
    /\ UNCHANGED <<made, raised>>

\* The plugin's stdout ends without an answer.
DeliverEof ==
    /\ Top.state = "dead"
    /\ given' = [given EXCEPT ![Top.call] = Seen(Caller, Err("InternalError"))]
    /\ frames' = Pops
    /\ UNCHANGED <<line, made, raised>>

\* The reply to a guest that is dead is written and read by nobody.
DeliverToNobody ==
    /\ Top.state = "done" /\ Caller.state = "dead"
    /\ frames' = Below
    /\ line' = None
    /\ UNCHANGED <<made, raised, given>>

\* While no line is under way nobody has to move: whoever reads yields, a
\* handler takes its time, the application need not call again.
Wait == line = None /\ UNCHANGED vars

Next == \/ \E p \in Plugins : CallPlugin(p)
        \/ SpawnFails
        \/ CallHost
        \/ Serve
        \/ HandlerEnds
        \/ \E k \in 1 .. Depth : GuestDies(k)
        \/ Deliver
        \/ DeliverEof
        \/ DeliverToNobody
        \/ Wait

Spec == Init /\ [][Next]_vars

\* A line that was written is read (AllBytesArrive, CallReturns), and handlers
\* return in the end.
FairSpec == /\ Spec
            /\ WF_vars(Serve) /\ WF_vars(HandlerEnds)
            /\ WF_vars(Deliver \/ DeliverEof \/ DeliverToNobody)

-----------------------------------------------------------------------------
(***************************************************************************)
(* Properties.                                                             *)
(***************************************************************************)
\* What an outcome means to a caller: an error is what it was, a dead plugin
\* is an internal error, one that could not be started says so.
Meaning(o) == CASE o = Died        -> Err("InternalError")
                [] o = SpawnFailed -> Custom("spawn_error")
                [] OTHER           -> o

\* Through router, message, transport and conversions on either side, a caller
\* is given exactly what was raised where its call was served: no error
\* changes its kind or text, no value comes from another call.
AsRaised == \A n \in Calls : given[n] # None =>
              raised[n] # None /\ given[n] = Meaning(raised[n])

\* The activations whose handler was looked up.
Begun(fs) == IF fs[Len(fs)].state = "asked" THEN Len(fs) - 1 ELSE Len(fs)

Activation(f) == [call |-> f.call, side |-> f.side, plugin |-> f.plugin]

Activations(fs) == [k \in 1 .. Begun(fs) |-> Activation(fs[k])]

Meant == [n \in Calls |-> IF raised[n] = None THEN None ELSE Meaning(raised[n])]

Nested == INSTANCE NestedCalls WITH
              Plugin <- Plugins,
              Outcome <- Result,
              Death <- Err("InternalError"), active <- Activations(frames),
              raised <- Meant

\* However calls nest, fail and die, they are a stack of activations on which
\* each host method knows the plugin that called it, and each caller that is
\* still alive is given the outcome of its own call, once.
CallsNest == Nested!Spec

\* The application always gets back control: no reply is missed on the way,
\* also when plugins die at any depth.
AppGetsBack == []<>(Depth = 1)
=============================================================================
