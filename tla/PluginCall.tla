------------------------------ MODULE PluginCall ------------------------------
(***************************************************************************)
(* One call of a plugin: Plugin::call of                                   *)
(* crates/wasmi-plugin-hdk/src/plugin.rs with the instance that            *)
(* plugin_instance.rs spawns for it.  Three futures run in one task,       *)
(* joined by join!, which polls them in a fixed order whenever the task is *)
(* polled:                                                                 *)
(*                                                                         *)
(*   rpc       JsonRpcTransport::call: sends the request, then reads the   *)
(*             plugin's stdout line by line and serves its requests;       *)
(*   instance  run_wasm: resumes the guest for a slice of fuel at a time;  *)
(*   stderr    hands the lines of the plugin's stderr to the logger.       *)
(*                                                                         *)
(* They share three pipes (PipeOps, here of whole lines).  The executor    *)
(* polls the task only after a waker of the task was woken; a future that  *)
(* returns Pending without leaving a waker anywhere may never run again.   *)
(*                                                                         *)
(* The guest is a program built on PluginServer (wasmi-plugin-pdk): it     *)
(* reads one request, lets a handler work on it, which may log, sleep,     *)
(* yield and call the host, writes the answer and returns from main.       *)
(***************************************************************************)
EXTENDS Naturals, Sequences, FiniteSets, PipeOps

CONSTANTS MaxLogs,      \* bound: lines the guest writes to stderr
          MaxCalls,     \* bound: requests the guest makes to the host
          MaxSleeps,    \* bound: times the guest sleeps
          MaxUtterances,\* bound: other lines the guest writes to stdout
          Utterances    \* which: "stray" responses, "garbage"

ASSUME CallAssumption ==
    /\ MaxLogs \in Nat /\ MaxCalls \in Nat
    /\ MaxSleeps \in Nat /\ MaxUtterances \in Nat
    /\ Utterances \subseteq {"stray", "garbage"}

\* Lines the host writes to the guest's stdin: the request of the call, and
\* its replies to the guest's own requests.
HostLine == {"request", "reply"}

\* Lines the guest writes to stdout: the answer to the call or an error
\* response, a request of its own, a response with an id nobody waits for, a
\* line that is no JSON-RPC message.
GuestLine == {"answer", "error", "request", "stray", "garbage"}

\* Lines on stderr: "text", or "binary" for one that is not UTF-8.
LogLine == {"text", "binary"}

VARIABLES
    stdin, stdout, stderr,  \* the three pipes
    turn,     \* which future the task's poll is at; "idle" between polls
    woken,    \* a waker of the task was woken since the last poll began
    rpc,      \* the transport: "send", "recv", "handling", "done"
    result,   \* what the transport's call returned, or "pending"
    handler,  \* the host handler's future: "none", "running", "ready"
    inst,     \* run_wasm: "boot", "slice", "asleep", "awaitStdin",
              \* "courtesy" (its three awaits) or "done"
    timer,    \* the timer of sleep(dur): "off", "armed", "fired"
    guest,    \* the guest: "boot" (reading the request), "work", "await"
              \* (reading the reply to its own request), "answered"
    left,     \* what the bounds leave the guest: calls, sleeps, utterances
    logger,   \* the stderr future: "reading", "done"
    logs,     \* history: every line the guest wrote to stderr
    logged,   \* history: every line the logger was called with
    verdict   \* history: the first line on stdout that settles the call

hostVars  == <<turn, woken, rpc, result, handler, inst, timer, logger>>
guestVars == <<guest, left, logs, verdict>>
vars == <<stdin, stdout, stderr, hostVars, guestVars, logged>>

PipesOK == /\ stdin \in Inner(HostLine)
           /\ stdout \in Inner(GuestLine)
           /\ stderr \in Inner(LogLine)

HostOK == /\ turn \in {"idle", "rpc", "instance", "stderr", "end", "returned"}
          /\ woken \in BOOLEAN
          /\ rpc \in {"send", "recv", "handling", "done"}
          /\ result \in {"pending", "ok", "error", "parseError", "eof"}
          /\ handler \in {"none", "running", "ready"}
          /\ inst \in {"boot", "slice", "asleep", "awaitStdin", "courtesy",
                      "done"}
          /\ timer \in {"off", "armed", "fired"}
          /\ logger \in {"reading", "done"}

GuestOK == /\ guest \in {"boot", "work", "await", "answered"}
           /\ left \in [calls : 0 .. MaxCalls, sleeps : 0 .. MaxSleeps,
                        utterances : 0 .. MaxUtterances]
           /\ logs \in Seq(LogLine)
           /\ logged \in Seq(LogLine)
           /\ verdict \in {"none", "ok", "error", "parseError"}

TypeOK == PipesOK /\ HostOK /\ GuestOK

\* The futures exist and the caller's await polls them for the first time.
Init == /\ stdin = NewPipe /\ stdout = NewPipe /\ stderr = NewPipe
        /\ turn = "idle"
        /\ woken = TRUE
        /\ rpc = "send" /\ result = "pending" /\ handler = "none"
        /\ inst = "boot" /\ timer = "off"
        /\ guest = "boot"
        /\ left = [calls |-> MaxCalls, sleeps |-> MaxSleeps,
                   utterances |-> MaxUtterances]
        /\ logger = "reading" /\ logs = <<>> /\ logged = <<>>
        /\ verdict = "none"

-----------------------------------------------------------------------------
(***************************************************************************)
(* The task.  join!(rpc_task, instance_task, stderr_task) polls each       *)
(* future that is not done, in this order, and is ready when all are done. *)
(***************************************************************************)
\* Faulty: join!(rpc_task, stderr_task, instance_task).
NextTurnStderrFirst(t) == CASE t = "rpc"      -> "stderr"
                            [] t = "stderr"   -> "instance"
                            [] t = "instance" -> "end"

NextTurn(t) == CASE t = "rpc"      -> "instance"
                 [] t = "instance" -> "stderr"
                 [] t = "stderr"   -> "end"

Poll == /\ turn = "idle"
        /\ woken
        /\ turn' = "rpc"
        /\ woken' = FALSE
        /\ UNCHANGED <<stdin, stdout, stderr, rpc, result, handler, inst,
                       timer, logger, guestVars, logged>>

\* Faulty: the result and the logs are waited for, the instance is not.
AllDoneButInstance == rpc = "done" /\ logger = "done"

AllDone == rpc = "done" /\ inst = "done" /\ logger = "done"

EndPoll == /\ turn = "end"
           /\ turn' = IF AllDone THEN "returned" ELSE "idle"
           /\ UNCHANGED <<stdin, stdout, stderr, woken, rpc, result, handler,
                          inst, timer, logger, guestVars, logged>>

\* A finished future, and one whose own wake-up is still to come, is passed by.
Pass == /\ \/ turn = "rpc" /\ rpc = "done"
           \/ turn = "rpc" /\ rpc = "handling" /\ handler = "running"
           \/ turn = "instance" /\ inst = "done"
           \/ turn = "instance" /\ inst = "asleep" /\ timer = "armed"
           \/ turn = "stderr" /\ logger = "done"
        /\ turn' = NextTurn(turn)
        /\ UNCHANGED <<stdin, stdout, stderr, woken, rpc, result, handler,
                       inst, timer, logger, guestVars, logged>>

-----------------------------------------------------------------------------
(***************************************************************************)
(* The rpc future.                                                         *)
(***************************************************************************)
Send == /\ turn = "rpc"
        /\ rpc = "send"
        /\ stdin' = WritePipe(stdin, <<"request">>).pipe
        /\ rpc' = "recv"
        /\ UNCHANGED <<stdout, stderr, turn, woken, result, handler, inst,
                       timer, logger, guestVars, logged>>

\* Faulty: the id of a response is not compared with that of the call.
SettlesAnyId(line) == CASE line = "answer"  -> "ok"
                        [] line = "stray"   -> "ok"
                        [] line = "error"   -> "error"
                        [] line = "garbage" -> "parseError"
                        [] OTHER            -> "none"

\* What a line makes of the call: process_message and the error returns.
Settles(line) == CASE line = "answer"  -> "ok"
                   [] line = "error"   -> "error"
                   [] line = "garbage" -> "parseError"
                   [] OTHER            -> "none"

Receive ==
    /\ turn = "rpc"
    /\ rpc = "recv"
    /\ Outcome(stdout, 1) = "data"
    /\ stdout' = ReadPipe(stdout, 1)
    /\ LET line == Head(stdout.buf) IN
         \/ /\ Settles(line) # "none"
            /\ rpc' = "done"
            /\ result' = Settles(line)
            /\ UNCHANGED handler
         \/ /\ line = "request"
            /\ rpc' = "handling"
            /\ handler' = "running"
            /\ UNCHANGED result
         \/ /\ Settles(line) = "none"
            /\ line # "request"
            /\ UNCHANGED <<rpc, result, handler>>
    /\ UNCHANGED <<stdin, stderr, turn, woken, inst, timer, logger, guestVars,
                   logged>>

ReceiveEof == /\ turn = "rpc"
              /\ rpc = "recv"
              /\ Outcome(stdout, 1) = "eof"
              /\ rpc' = "done"
              /\ result' = "eof"
              /\ UNCHANGED <<stdin, stdout, stderr, turn, woken, handler, inst,
                             timer, logger, guestVars, logged>>

\* next_line meets WouldBlock: yield_now().await.
ReceiveYields ==
    /\ turn = "rpc"
    /\ rpc = "recv"
    /\ Outcome(stdout, 1) = "wouldBlock"
    /\ turn' = NextTurn(turn)
    /\ woken' = TRUE
    /\ UNCHANGED <<stdin, stdout, stderr, rpc, result, handler, inst, timer,
                   logger, guestVars, logged>>

\* The host handler finishes.  It wakes the task unless it is found ready by
\* the poll that is under way.
HandlerCompletes ==
    /\ handler = "running"
    /\ handler' = "ready"
    /\ IF turn = "rpc" THEN woken' \in {woken, TRUE} ELSE woken' = TRUE
    /\ UNCHANGED <<stdin, stdout, stderr, turn, rpc, result, inst, timer,
                   logger, guestVars, logged>>

\* Faulty: the response is never written.
NoReply == stdin

\* Faulty: the response is written once per attempt.
ReplyTwice == WritePipe(stdin, <<"reply", "reply">>).pipe

\* Ok or Err, the handler's result is written back as a response.
Reply == WritePipe(stdin, <<"reply">>).pipe

HandlerReplies ==
    /\ turn = "rpc"
    /\ rpc = "handling"
    /\ handler = "ready"
    /\ stdin' = Reply
    /\ rpc' = "recv"
    /\ handler' = "none"
    /\ UNCHANGED <<stdout, stderr, turn, woken, result, inst, timer, logger,
                   guestVars, logged>>

-----------------------------------------------------------------------------
(***************************************************************************)
(* The instance future: run_wasm between two slices of the guest.          *)
(***************************************************************************)
\* stdin_available.
StdinAvailable == stdin.buf # <<>>

\* What run_wasm does with a guest that ran out of fuel, once it is not or no
\* longer asleep: it yields once for stdin if the guest waits for stdin and
\* there is none, and otherwise makes its courtesy yield.
YieldFor(awaitingStdin) ==
    /\ inst' = IF awaitingStdin /\ ~StdinAvailable THEN "awaitStdin"
                                                   ELSE "courtesy"
    /\ timer' = "off"
    /\ woken' = TRUE
    /\ turn' = NextTurn(turn)

\* call_resumable with no fuel comes back at once.
Boot == /\ turn = "instance"
        /\ inst = "boot"
        /\ YieldFor(FALSE)
        /\ UNCHANGED <<stdin, stdout, stderr, rpc, result, handler, logger,
                       guestVars, logged>>

TimerFires == /\ timer = "armed"
              /\ timer' = "fired"
              /\ woken' = TRUE
              /\ UNCHANGED <<stdin, stdout, stderr, turn, rpc, result, handler,
                             inst, logger, guestVars, logged>>

WakesUp == /\ turn = "instance"
           /\ inst = "asleep"
           /\ timer = "fired"
           /\ YieldFor(FALSE)
           /\ UNCHANGED <<stdin, stdout, stderr, rpc, result, handler, logger,
                          guestVars, logged>>

\* After the stdin yield comes the courtesy yield, whether stdin came or not.
StdinYieldEnds ==
    /\ turn = "instance"
    /\ inst = "awaitStdin"
    /\ YieldFor(FALSE)
    /\ UNCHANGED <<stdin, stdout, stderr, rpc, result, handler, logger,
                   guestVars, logged>>

Resume == /\ turn = "instance"
          /\ inst = "courtesy"
          /\ inst' = "slice"
          /\ UNCHANGED <<stdin, stdout, stderr, turn, woken, rpc, result,
                         handler, timer, logger, guestVars, logged>>

-----------------------------------------------------------------------------
(***************************************************************************)
(* The guest, while its slice lasts.                                       *)
(***************************************************************************)
Running == turn = "instance" /\ inst = "slice"

\* Faulty: fd_write sends descriptor 2 where descriptor 1 goes.
FdWriteOneStream(fd, line) ==
    /\ stdout' = WritePipe(stdout, <<line>>).pipe
    /\ woken' = (woken \/ WritePipe(stdout, <<line>>).wake)
    /\ UNCHANGED stderr

\* fd_write: 1 is stdout, 2 is stderr.
FdWrite(fd, line) ==
    IF fd = 1
    THEN /\ stdout' = WritePipe(stdout, <<line>>).pipe
         /\ woken' = (woken \/ WritePipe(stdout, <<line>>).wake)
         /\ UNCHANGED stderr
    ELSE /\ stderr' = WritePipe(stderr, <<line>>).pipe
         /\ woken' = (woken \/ WritePipe(stderr, <<line>>).wake)
         /\ UNCHANGED stdout

\* PluginServer::run and JsonRpcTransport::call read one line.
GuestReads == /\ Running
              /\ guest \in {"boot", "await"}
              /\ Outcome(stdin, 1) = "data"
              /\ stdin' = ReadPipe(stdin, 1)
              /\ guest' = "work"
              /\ UNCHANGED <<stdout, stderr, hostVars, left, logs, verdict,
                             logged>>

\* fd_read meets WouldBlock: awaiting_stdin, and no fuel is left.
GuestFindsNoInput ==
    /\ Running
    /\ guest \in {"boot", "await"}
    /\ Outcome(stdin, 1) = "wouldBlock"
    /\ YieldFor(TRUE)
    /\ UNCHANGED <<stdin, stdout, stderr, rpc, result, handler, logger,
                   guestVars, logged>>

GuestLogs == /\ Running
             /\ Len(logs) < MaxLogs
             /\ \E line \in LogLine : /\ FdWrite(2, line)
                                      /\ logs' = Append(logs, line)
             /\ UNCHANGED <<stdin, turn, rpc, result, handler, inst, timer,
                            logger, guest, left, verdict, logged>>

GuestCalls == /\ Running
              /\ guest = "work"
              /\ left.calls > 0
              /\ FdWrite(1, "request")
              /\ guest' = "await"
              /\ left' = [left EXCEPT !.calls = @ - 1]
              /\ UNCHANGED <<stdin, turn, rpc, result, handler, inst, timer,
                             logger, logs, verdict, logged>>

\* poll_oneoff with a deadline in the future: no fuel is left, and run_wasm
\* sleeps before anything else.
GuestSleeps == /\ Running
               /\ guest = "work"
               /\ left.sleeps > 0
               /\ left' = [left EXCEPT !.sleeps = @ - 1]
               /\ inst' = "asleep"
               /\ timer' = "armed"
               /\ turn' = NextTurn(turn)
               /\ UNCHANGED <<stdin, stdout, stderr, woken, rpc, result,
                              handler, logger, guest, logs, verdict, logged>>

\* The slice's fuel is used up, or the guest called sched_yield.
GuestPreempted == /\ Running
                  /\ YieldFor(FALSE)
                  /\ UNCHANGED <<stdin, stdout, stderr, rpc, result, handler,
                                 logger, guestVars, logged>>

\* History: what the guest's line says to the caller, if it is the first that
\* says anything.
FirstVerdict(line) ==
    IF verdict # "none" THEN verdict
    ELSE CASE line = "answer"  -> "ok"
           [] line = "error"   -> "error"
           [] line = "garbage" -> "parseError"
           [] OTHER            -> "none"

GuestAnswers == /\ Running
                /\ guest = "work"
                /\ \E line \in {"answer", "error"} :
                     /\ FdWrite(1, line)
                     /\ verdict' = FirstVerdict(line)
                /\ guest' = "answered"
                /\ UNCHANGED <<stdin, turn, rpc, result, handler, inst, timer,
                               logger, left, logs, logged>>

\* The guest writes something else to stdout, for instance with println: in
\* main before or after the server, in its handler, or while that waits.
GuestUtters == /\ Running
               /\ left.utterances > 0
               /\ \E line \in Utterances : /\ FdWrite(1, line)
                                           /\ verdict' = FirstVerdict(line)
               /\ left' = [left EXCEPT !.utterances = @ - 1]
               /\ UNCHANGED <<stdin, turn, rpc, result, handler, inst, timer,
                              logger, guest, logs, logged>>

\* The instance is over: run_wasm returns, and the store and with it the
\* guest's ends of the pipes are dropped.
InstanceEnds ==
    /\ inst' = "done"
    /\ stdout' = DropPipe(stdout).pipe
    /\ stderr' = DropPipe(stderr).pipe
    /\ woken' = (woken \/ DropPipe(stdout).wake \/ DropPipe(stderr).wake)
    /\ turn' = NextTurn(turn)
    /\ UNCHANGED <<stdin, rpc, result, handler, timer, logger, guestVars,
                   logged>>

\* main returns after PluginServer::run.
GuestReturns == Running /\ guest = "answered" /\ InstanceEnds

\* A trap, a panic or proc_exit, at any point.
GuestTraps == Running /\ InstanceEnds

-----------------------------------------------------------------------------
(***************************************************************************)
(* The stderr future.                                                      *)
(***************************************************************************)
\* Faulty: what was read together with the first line is thrown away.
LoggerReadsFirstOfChunk ==
    /\ turn = "stderr"
    /\ logger = "reading"
    /\ Outcome(stderr, Len(stderr.buf) + 1) = "data"
    /\ stderr' = PollPipe(stderr, Len(stderr.buf))
    /\ IF Head(stderr.buf) = "text"
       THEN /\ logged' = Append(logged, Head(stderr.buf))
            /\ UNCHANGED logger
       ELSE /\ logger' = "done"
            /\ UNCHANGED logged
    /\ UNCHANGED <<stdin, stdout, turn, woken, rpc, result, handler, inst,
                   timer, guestVars>>

\* read_line has a line; one that is not UTF-8 is an error and ends the loop.
LoggerReads ==
    /\ turn = "stderr"
    /\ logger = "reading"
    /\ Outcome(stderr, 1) = "data"
    /\ stderr' = PollPipe(stderr, 1)
    /\ IF Head(stderr.buf) = "text"
       THEN /\ logged' = Append(logged, Head(stderr.buf))
            /\ UNCHANGED logger
       ELSE /\ logger' = "done"
            /\ UNCHANGED logged
    /\ UNCHANGED <<stdin, stdout, turn, woken, rpc, result, handler, inst,
                   timer, guestVars>>

LoggerEof == /\ turn = "stderr"
             /\ logger = "reading"
             /\ Outcome(stderr, 1) = "eof"
             /\ stderr' = PollPipe(stderr, 1)
             /\ logger' = "done"
             /\ UNCHANGED <<stdin, stdout, turn, woken, rpc, result, handler,
                            inst, timer, guestVars, logged>>

LoggerPends == /\ turn = "stderr"
               /\ logger = "reading"
               /\ Outcome(stderr, 1) = "wouldBlock"
               /\ stderr' = PollPipe(stderr, 1)
               /\ turn' = NextTurn(turn)
               /\ UNCHANGED <<stdin, stdout, woken, rpc, result, handler, inst,
                              timer, logger, guestVars, logged>>

Terminated == turn = "returned" /\ UNCHANGED vars

-----------------------------------------------------------------------------
Host == \/ Poll \/ EndPoll \/ Pass
        \/ Send \/ Receive \/ ReceiveEof \/ ReceiveYields \/ HandlerReplies
        \/ Boot \/ WakesUp \/ StdinYieldEnds \/ Resume
        \/ LoggerReads \/ LoggerEof \/ LoggerPends

\* What moves the guest on, as opposed to the ends of its slices.
GuestProgress == \/ GuestReads \/ GuestLogs \/ GuestCalls \/ GuestSleeps
                 \/ GuestAnswers \/ GuestUtters

GuestSlice == \/ GuestProgress \/ GuestFindsNoInput
              \/ GuestPreempted \/ GuestReturns \/ GuestTraps

Environment == HandlerCompletes \/ TimerFires

Next == Host \/ GuestSlice \/ Environment \/ Terminated

Spec == Init /\ [][Next]_vars

(***************************************************************************)
(* The executor polls a woken task and each poll runs to its end, so       *)
(* whatever is enabled while a poll is under way happens (WF); host        *)
(* handlers finish and timers fire (WF).  A guest that has something to do *)
(* does it in the end (SF, because a slice ends and begins again over and  *)
(* over).  Once it has answered it may go on for ever, a slice at a time.  *)
(***************************************************************************)
FairSpec == /\ Spec
            /\ WF_vars(Host \/ GuestSlice)
            /\ WF_vars(HandlerCompletes)
            /\ WF_vars(TimerFires)
            /\ SF_vars(GuestProgress)

\* The same with guests that end when they have answered.
EndingSpec == FairSpec /\ SF_vars(GuestReturns)

-----------------------------------------------------------------------------
(***************************************************************************)
(* Safety.                                                                 *)
(***************************************************************************)

\* No wake-up is lost: a call that has not returned and whose task is not
\* scheduled waits for a timer or for a host handler, and for nothing else.
\* In particular the end of the guest, which wakes nobody, never leaves the
\* logger or the transport behind.
Wakeable == turn = "idle" /\ ~woken => timer = "armed" \/ handler = "running"

\* The call returns what the guest said first, and "end of file" only to a
\* guest that ended without saying anything: an answer written just before the
\* guest ends, behind logs, requests and stray lines, is not lost.
VerdictDelivered ==
    rpc = "done" => result = IF verdict = "none" THEN "eof" ELSE verdict

\* When the call returns, the logger was called with every line of stderr in
\* order, up to the first that is not UTF-8.
LogsDelivered ==
    turn = "returned" =>
      /\ Len(logged) =< Len(logs)
      /\ \A i \in 1 .. Len(logged) : logged[i] = logs[i]
      /\ Len(logged) < Len(logs) => logs[Len(logged) + 1] = "binary"

CountOf(line, s) == Cardinality({i \in 1 .. Len(s) : s[i] = line})

\* A guest that waits for its host has exactly one request under way (on
\* stdout, in the handler, or as a reply on stdin), any other guest has none.
OneRequestUnderWay ==
    CountOf("request", stdout.buf) + CountOf("reply", stdin.buf)
      + (IF rpc = "handling" THEN 1 ELSE 0)
    = (IF guest = "await" THEN 1 ELSE 0)

-----------------------------------------------------------------------------
(***************************************************************************)
(* Liveness.                                                               *)
(***************************************************************************)

\* The transport has its result and the guest does not end: it waits for a reply
\* that nobody is there to write, or has answered and goes on.
Orphaned == rpc = "done" /\ inst # "done" /\ guest \in {"await", "answered"}

\* Every call returns, unless its guest outlives the transport: then join! waits
\* for the instance, and nothing ends the guest.  No call hangs in another way, in
\* particular none while the transport still serves the guest.
CallReturns == <>(turn = "returned") \/ <>[]Orphaned

\* "Run the transport, plugin, and stderr logger until one of them completes":
\* once the transport has its result the call returns.  It does not when the
\* plugin wrote a line that is no message before it answered: the transport is
\* then done, and a guest that waits for a reply waits for ever.
ReturnsWhenOneCompletes == (rpc = "done") ~> (turn = "returned")

-----------------------------------------------------------------------------
(***************************************************************************)
(* The call keeps its contract.                                            *)
(***************************************************************************)
Contract == INSTANCE CallContract WITH
                Verdict <- {"ok", "error", "parseError"},
                Log <- LogLine, Unreadable <- {"binary"},
                stopped <- (inst = "done"),
                outcome <- result, shown <- logged,
                returned <- (turn = "returned")

ContractSpec == Contract!Spec
=============================================================================
