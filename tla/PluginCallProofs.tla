--------------------------- MODULE PluginCallProofs ---------------------------
(***************************************************************************)
(* Proofs about PluginCall for every number of logs, calls, sleeps and     *)
(* utterances: the state keeps its type; no wake-up is lost, although the  *)
(* end of the guest wakes nobody (Drop of NonBlockingPipeWriter); the      *)
(* first verdict of the guest and its logs reach the caller; each request  *)
(* of the guest is served once; and PluginCall implements CallContract.    *)
(***************************************************************************)
EXTENDS PluginCall, PipeOpsProofs

(***************************************************************************)
(* Between two polls each of the three futures is done, or the task is     *)
(* woken, or something outside will wake it.  For that, each future must   *)
(* leave its part of the promise behind when its turn is over:             *)
(***************************************************************************)
\* The handler's future exists while the transport awaits it, the timer while
\* run_wasm awaits it, and the guest runs only in the turn of the instance.
Companions == /\ handler # "none" <=> rpc = "handling"
              /\ timer # "off" <=> inst = "asleep"
              /\ inst = "slice" => turn = "instance"
              /\ stderr.closed <=> inst = "done"

\* The transport yields or awaits a handler that will wake the task.
RpcPromise == turn # "rpc" =>
                /\ rpc \in {"send", "recv"} => woken
                /\ handler = "ready" => woken

\* The instance yields or awaits a timer that will wake the task.
InstPromise == turn \in {"stderr", "end", "idle", "returned"} =>
                 /\ inst \in {"boot", "awaitStdin", "courtesy"} => woken
                 /\ timer = "fired" => woken

\* The logger, which is polled last, has seen the end of a guest that is done;
\* it waits for nothing else, and no wake-up is due for it.
LoggerPromise == turn \in {"end", "idle", "returned"} /\ inst = "done"
                   => logger = "done"

\* When all three are done, the poll is the last.
OnePollAtLeast == turn = "idle" => ~AllDone

Promises == /\ Companions
            /\ RpcPromise
            /\ InstPromise
            /\ LoggerPromise
            /\ OnePollAtLeast

CallInv == PipesOK /\ HostOK /\ GuestOK /\ Promises

LEMMA CallInvWakeable == CallInv => Wakeable
BY
   DEF CallInv, HostOK, Promises, Companions, RpcPromise, InstPromise,
       LoggerPromise, OnePollAtLeast, AllDone, Wakeable

LEMMA InitCallInv == Init => CallInv
<1> SUFFICES ASSUME Init
             PROVE  CallInv
  OBVIOUS
<1>1. \A S : <<>> \in Seq(S)
  BY EmptySeq
<1>2. \A S : NewPipe \in Inner(S)
  BY <1>1, Zenon DEF NewPipe, Inner
<1>3. left \in [calls : 0 .. MaxCalls, sleeps : 0 .. MaxSleeps,
                utterances : 0 .. MaxUtterances]
  BY CallAssumption DEF Init
<1>4. /\ stdin \in Inner(HostLine)
      /\ stdout \in Inner(GuestLine)
      /\ stderr \in Inner(LogLine)
  BY <1>2, Zenon DEF Init
<1>5. logs \in Seq(LogLine) /\ logged \in Seq(LogLine)
  BY <1>1, Zenon DEF Init
<1>6. PipesOK /\ HostOK /\ GuestOK
  BY <1>3, <1>4, <1>5 DEF Init, PipesOK, HostOK, GuestOK
<1>7. Promises
  BY
     DEF Init, Promises, Companions, RpcPromise, InstPromise, LoggerPromise,
         OnePollAtLeast, AllDone, NewPipe
<1> QED
  BY <1>6, <1>7 DEF CallInv

(***************************************************************************)
(* What fd_write does to the task and to the pipes.                        *)
(***************************************************************************)
LEMMA FdWriteKeeps ==
    ASSUME PipesOK, HostOK, NEW fd \in {1, 2}, NEW text,
           fd = 1 => text \in GuestLine,
           fd = 2 => text \in LogLine,
           FdWrite(fd, text)
    PROVE  /\ stdout' \in Inner(GuestLine)
           /\ stderr' \in Inner(LogLine)
           /\ stderr'.closed = stderr.closed
           /\ woken' \in BOOLEAN
           /\ woken => woken'
<1>1. CASE fd = 1
  <2>1. <<text>> \in Seq(GuestLine)
    BY <1>1
  <2>2. WritePipe(stdout, <<text>>).pipe \in Inner(GuestLine)
    BY <2>1, WriteKeepsPipe DEF PipesOK
  <2>3. WritePipe(stdout, <<text>>).wake \in BOOLEAN
    BY DEF WritePipe, PipesOK, Inner
  <2> QED
    BY <1>1, <2>2, <2>3 DEF FdWrite, PipesOK, HostOK
<1>2. CASE fd = 2
  <2>1. <<text>> \in Seq(LogLine)
    BY <1>2
  <2>2. WritePipe(stderr, <<text>>).pipe \in Inner(LogLine)
    BY <2>1, WriteKeepsPipe DEF PipesOK
  <2>3. /\ WritePipe(stderr, <<text>>).wake \in BOOLEAN
        /\ WritePipe(stderr, <<text>>).pipe.closed = stderr.closed
    BY DEF WritePipe, PipesOK, Inner
  <2> QED
    BY <1>2, <2>2, <2>3 DEF FdWrite, PipesOK, HostOK
<1> QED
  BY <1>1, <1>2

(***************************************************************************)
(* Each action keeps the types and the promises.                           *)
(***************************************************************************)
LEMMA StepCallInv == CallInv /\ [Next]_vars => CallInv'
<1> SUFFICES ASSUME CallInv, [Next]_vars
             PROVE  CallInv'
  OBVIOUS
<1> USE DEF CallInv
<1>1. ASSUME Poll \/ EndPoll \/ Pass
      PROVE  CallInv'
  <2>1. PipesOK'
    BY <1>1 DEF Poll, EndPoll, Pass, NextTurn, PipesOK
  <2>2. HostOK'
    BY <1>1 DEF Poll, EndPoll, Pass, NextTurn, HostOK
  <2>3. GuestOK'
    BY <1>1 DEF Poll, EndPoll, Pass, NextTurn, GuestOK, guestVars
  <2>4. Promises'
    BY <1>1
       DEF Poll, EndPoll, Pass, NextTurn, HostOK, Promises, Companions,
           RpcPromise, InstPromise, LoggerPromise, OnePollAtLeast, AllDone
  <2> QED
    BY <2>1, <2>2, <2>3, <2>4
<1>2. ASSUME Send \/ HandlerReplies
      PROVE  CallInv'
  <2>1. PipesOK'
    <3>1. /\ <<"request">> \in Seq(HostLine)
          /\ <<"reply">> \in Seq(HostLine)
      BY DEF HostLine
    <3> QED
      BY <1>2, <3>1, WriteKeepsPipe DEF Send, HandlerReplies, Reply, PipesOK
  <2>2. HostOK'
    BY <1>2 DEF Send, HandlerReplies, HostOK
  <2>3. GuestOK'
    BY <1>2 DEF Send, HandlerReplies, GuestOK, guestVars
  <2>4. Promises'
    BY <1>2
       DEF Send, HandlerReplies, HostOK, Promises, Companions, RpcPromise,
           InstPromise, LoggerPromise, OnePollAtLeast, AllDone
  <2> QED
    BY <2>1, <2>2, <2>3, <2>4
<1>3. ASSUME Receive
      PROVE  CallInv'
  <2>1. PipesOK'
    <3>1. ReadPipe(stdout, 1) \in Inner(GuestLine)
      BY ReadKeepsPipe DEF PipesOK
    <3> QED
      BY <1>3, <3>1 DEF Receive, PipesOK
  <2>2. HostOK'
    <3>1. Settles(Head(stdout.buf)) \in {"none", "ok", "error", "parseError"}
      BY DEF Settles
    <3> QED
      BY <1>3, <3>1 DEF Receive, HostOK
  <2>3. GuestOK'
    BY <1>3 DEF Receive, GuestOK, guestVars
  <2>4. Promises'
    BY <1>3
       DEF Receive, HostOK, Promises, Companions, RpcPromise, InstPromise,
           LoggerPromise, OnePollAtLeast, AllDone
  <2> QED
    BY <2>1, <2>2, <2>3, <2>4
<1>4. ASSUME ReceiveEof \/ ReceiveYields
      PROVE  CallInv'
  <2>1. PipesOK'
    BY <1>4 DEF ReceiveEof, ReceiveYields, NextTurn, PipesOK
  <2>2. HostOK'
    BY <1>4 DEF ReceiveEof, ReceiveYields, NextTurn, HostOK
  <2>3. GuestOK'
    BY <1>4 DEF ReceiveEof, ReceiveYields, NextTurn, GuestOK, guestVars
  <2>4. Promises'
    BY <1>4
       DEF ReceiveEof, ReceiveYields, NextTurn, HostOK, Promises, Companions,
           RpcPromise, InstPromise, LoggerPromise, OnePollAtLeast, AllDone
  <2> QED
    BY <2>1, <2>2, <2>3, <2>4
<1>5. ASSUME HandlerCompletes \/ TimerFires
      PROVE  CallInv'
  <2>1. PipesOK'
    BY <1>5 DEF HandlerCompletes, TimerFires, PipesOK
  <2>2. HostOK'
    BY <1>5 DEF HandlerCompletes, TimerFires, HostOK
  <2>3. GuestOK'
    BY <1>5 DEF HandlerCompletes, TimerFires, GuestOK, guestVars
  <2>4. Promises'
    BY <1>5
       DEF HandlerCompletes, TimerFires, HostOK, Promises, Companions,
           RpcPromise, InstPromise, LoggerPromise, OnePollAtLeast, AllDone
  <2> QED
    BY <2>1, <2>2, <2>3, <2>4
<1>6. ASSUME Boot \/ WakesUp \/ StdinYieldEnds \/ Resume
      PROVE  CallInv'
  <2>1. PipesOK'
    BY <1>6
       DEF Boot, WakesUp, StdinYieldEnds, Resume, YieldFor, NextTurn, PipesOK
  <2>2. HostOK'
    BY <1>6
       DEF Boot, WakesUp, StdinYieldEnds, Resume, YieldFor, NextTurn, HostOK
  <2>3. GuestOK'
    BY <1>6
       DEF Boot, WakesUp, StdinYieldEnds, Resume, YieldFor, NextTurn, GuestOK,
           guestVars
  <2>4. Promises'
    BY <1>6
       DEF Boot, WakesUp, StdinYieldEnds, Resume, YieldFor, NextTurn, HostOK,
           Promises, Companions, RpcPromise, InstPromise, LoggerPromise,
           OnePollAtLeast, AllDone
  <2> QED
    BY <2>1, <2>2, <2>3, <2>4
<1>7. ASSUME GuestReads
      PROVE  CallInv'
  <2>1. PipesOK'
    <3>1. ReadPipe(stdin, 1) \in Inner(HostLine)
      BY ReadKeepsPipe DEF PipesOK
    <3> QED
      BY <1>7, <3>1 DEF GuestReads, PipesOK
  <2>2. HostOK'
    BY <1>7 DEF GuestReads, Running, hostVars, HostOK
  <2>3. GuestOK'
    BY <1>7 DEF GuestReads, Running, hostVars, GuestOK, guestVars
  <2>4. Promises'
    BY <1>7
       DEF GuestReads, Running, hostVars, HostOK, Promises, Companions,
           RpcPromise, InstPromise, LoggerPromise, OnePollAtLeast, AllDone
  <2> QED
    BY <2>1, <2>2, <2>3, <2>4
<1>8. ASSUME GuestFindsNoInput \/ GuestPreempted
      PROVE  CallInv'
  <2>1. PipesOK'
    BY <1>8
       DEF GuestFindsNoInput, GuestPreempted, Running, YieldFor, NextTurn,
           PipesOK
  <2>2. HostOK'
    BY <1>8
       DEF GuestFindsNoInput, GuestPreempted, Running, YieldFor, NextTurn,
           HostOK
  <2>3. GuestOK'
    BY <1>8
       DEF GuestFindsNoInput, GuestPreempted, Running, YieldFor, NextTurn,
           GuestOK, guestVars
  <2>4. Promises'
    BY <1>8
       DEF GuestFindsNoInput, GuestPreempted, Running, YieldFor, NextTurn,
           HostOK, Promises, Companions, RpcPromise, InstPromise,
           LoggerPromise, OnePollAtLeast, AllDone
  <2> QED
    BY <2>1, <2>2, <2>3, <2>4
<1>9. ASSUME GuestLogs
      PROVE  CallInv'
  <2>1. PICK text \in LogLine : FdWrite(2, text) /\ logs' = Append(logs, text)
    BY <1>9 DEF GuestLogs
  <2>2. /\ stdout' \in Inner(GuestLine)
        /\ stderr' \in Inner(LogLine)
        /\ stderr'.closed = stderr.closed
        /\ woken' \in BOOLEAN
        /\ woken => woken'
    BY <2>1, FdWriteKeeps
  <2>3. PipesOK'
    BY <1>9, <2>2 DEF GuestLogs, PipesOK
  <2>4. HostOK'
    BY <1>9, <2>2 DEF GuestLogs, Running, HostOK
  <2>5. GuestOK'
    <3>1. logs' \in Seq(LogLine)
      BY <2>1, AppendProperties DEF GuestOK
    <3> QED
      BY <1>9, <3>1 DEF GuestLogs, GuestOK
  <2>6. Promises'
    BY <1>9, <2>2
       DEF GuestLogs, Running, HostOK, Promises, Companions, RpcPromise,
           InstPromise, LoggerPromise, OnePollAtLeast, AllDone
  <2> QED
    BY <2>3, <2>4, <2>5, <2>6
<1>10. ASSUME GuestCalls
       PROVE  CallInv'
  <2>1. /\ stdout' \in Inner(GuestLine)
        /\ stderr' \in Inner(LogLine)
        /\ stderr'.closed = stderr.closed
        /\ woken' \in BOOLEAN
        /\ woken => woken'
    BY <1>10, FdWriteKeeps DEF GuestCalls, GuestLine
  <2>2. PipesOK'
    BY <1>10, <2>1 DEF GuestCalls, PipesOK
  <2>3. HostOK'
    BY <1>10, <2>1 DEF GuestCalls, Running, HostOK
  <2>4. GuestOK'
    BY <1>10, CallAssumption, SMTT(30) DEF GuestCalls, GuestOK
  <2>5. Promises'
    BY <1>10, <2>1
       DEF GuestCalls, Running, HostOK, Promises, Companions, RpcPromise,
           InstPromise, LoggerPromise, OnePollAtLeast, AllDone
  <2> QED
    BY <2>2, <2>3, <2>4, <2>5
<1>11. ASSUME GuestSleeps
       PROVE  CallInv'
  <2>1. PipesOK'
    BY <1>11 DEF GuestSleeps, Running, NextTurn, PipesOK
  <2>2. HostOK'
    BY <1>11 DEF GuestSleeps, Running, NextTurn, HostOK
  <2>3. GuestOK'
    BY <1>11, CallAssumption DEF GuestSleeps, GuestOK
  <2>4. Promises'
    BY <1>11
       DEF GuestSleeps, Running, NextTurn, HostOK, Promises, Companions,
           RpcPromise, InstPromise, LoggerPromise, OnePollAtLeast, AllDone
  <2> QED
    BY <2>1, <2>2, <2>3, <2>4
<1>12. ASSUME GuestAnswers \/ GuestUtters
       PROVE  CallInv'
  <2>1. PICK text \in GuestLine : /\ FdWrite(1, text)
                                  /\ verdict' = FirstVerdict(text)
    BY <1>12, CallAssumption DEF GuestAnswers, GuestUtters, GuestLine
  <2>2. /\ stdout' \in Inner(GuestLine)
        /\ stderr' \in Inner(LogLine)
        /\ stderr'.closed = stderr.closed
        /\ woken' \in BOOLEAN
        /\ woken => woken'
    BY <2>1, FdWriteKeeps
  <2>3. PipesOK'
    BY <1>12, <2>2 DEF GuestAnswers, GuestUtters, PipesOK
  <2>4. HostOK'
    BY <1>12, <2>2 DEF GuestAnswers, GuestUtters, Running, HostOK
  <2>5. GuestOK'
    <3>1. verdict' \in {"none", "ok", "error", "parseError"}
      BY <2>1 DEF FirstVerdict, GuestOK
    <3>2. CASE GuestAnswers
      BY <3>1, <3>2 DEF GuestAnswers, GuestOK
    <3>3. CASE GuestUtters
      BY <3>1, <3>3, CallAssumption DEF GuestUtters, GuestOK
    <3> QED
      BY <1>12, <3>2, <3>3
  <2>6. Promises'
    BY <1>12, <2>2
       DEF GuestAnswers, GuestUtters, Running, HostOK, Promises, Companions,
           RpcPromise, InstPromise, LoggerPromise, OnePollAtLeast, AllDone
  <2> QED
    BY <2>3, <2>4, <2>5, <2>6
<1>13. ASSUME GuestReturns \/ GuestTraps
       PROVE  CallInv'
  <2>1. /\ stdout' \in Inner(GuestLine)
        /\ stderr' \in Inner(LogLine)
        /\ stderr'.closed
    BY <1>13, DropClosesPipe
       DEF GuestReturns, GuestTraps, InstanceEnds, PipesOK
  <2>2. woken' = woken
    BY <1>13, DropClosesPipe
       DEF GuestReturns, GuestTraps, InstanceEnds, PipesOK, HostOK
  <2>3. PipesOK'
    BY <1>13, <2>1 DEF GuestReturns, GuestTraps, InstanceEnds, PipesOK
  <2>4. HostOK'
    BY <1>13, <2>2
       DEF GuestReturns, GuestTraps, InstanceEnds, Running, NextTurn, HostOK
  <2>5. GuestOK'
    BY <1>13
       DEF GuestReturns, GuestTraps, InstanceEnds, Running, NextTurn, GuestOK,
           guestVars
  <2>6. Promises'
    BY <1>13, <2>1, <2>2
       DEF GuestReturns, GuestTraps, InstanceEnds, Running, NextTurn, HostOK,
           Promises, Companions, RpcPromise, InstPromise, LoggerPromise,
           OnePollAtLeast, AllDone
  <2> QED
    BY <2>3, <2>4, <2>5, <2>6
<1>14. ASSUME LoggerReads \/ LoggerEof \/ LoggerPends
       PROVE  CallInv'
  <2>1. stderr' \in Inner(LogLine) /\ stderr'.closed = stderr.closed
    <3>1. /\ PollPipe(stderr, 1) \in Inner(LogLine)
          /\ PollPipe(stderr, 1).closed = stderr.closed
      BY ReadKeepsPipe DEF PipesOK
    <3> QED
      BY <1>14, <3>1 DEF LoggerReads, LoggerEof, LoggerPends
  <2>2. LoggerPends => ~stderr.closed
    BY DEF LoggerPends, Outcome
  <2>3. PipesOK'
    BY <1>14, <2>1 DEF LoggerReads, LoggerEof, LoggerPends, PipesOK
  <2>4. HostOK'
    BY <1>14 DEF LoggerReads, LoggerEof, LoggerPends, NextTurn, HostOK
  <2>5. GuestOK'
    <3>1. Append(logged, "text") \in Seq(LogLine)
      BY AppendProperties DEF GuestOK, LogLine
    <3> QED
      BY <1>14, <3>1
         DEF LoggerReads, LoggerEof, LoggerPends, GuestOK, guestVars
  <2>6. Promises'
    BY <1>14, <2>1, <2>2
       DEF LoggerReads, LoggerEof, LoggerPends, NextTurn, HostOK, Promises,
           Companions, RpcPromise, InstPromise, LoggerPromise, OnePollAtLeast,
           AllDone
  <2> QED
    BY <2>3, <2>4, <2>5, <2>6
<1>15. ASSUME Terminated \/ UNCHANGED vars
       PROVE  CallInv'
  <2>1. /\ UNCHANGED <<stdin, stdout, stderr, logged>>
        /\ UNCHANGED <<turn, woken, rpc, result, handler, inst, timer, logger>>
        /\ UNCHANGED <<guest, left, logs, verdict>>
    BY <1>15 DEF Terminated, vars, hostVars, guestVars
  <2> QED
    BY <2>1
       DEF PipesOK, HostOK, GuestOK, Promises, Companions, RpcPromise,
           InstPromise, LoggerPromise, OnePollAtLeast, AllDone
<1> QED
  BY <1>1, <1>2, <1>3, <1>4, <1>5, <1>6, <1>7, <1>8, <1>9, <1>10, <1>11,
     <1>12, <1>13, <1>14, <1>15
     DEF Next, Host, GuestSlice, GuestProgress, Environment

(***************************************************************************)
(* The theorems.                                                           *)
(***************************************************************************)

\* The state of a call keeps its type.
THEOREM CallTyped == Spec => []TypeOK
<1>1. CallInv => TypeOK
  BY DEF CallInv, TypeOK
<1> QED
  BY <1>1, InitCallInv, StepCallInv, PTL DEF Spec

\* A call whose task is not scheduled waits for a timer or for a host handler:
\* neither the end of the guest nor a log line can leave it hanging.
THEOREM CallWakeable == Spec => []Wakeable
BY CallInvWakeable, InitCallInv, StepCallInv, PTL DEF Spec

-----------------------------------------------------------------------------
(***************************************************************************)
(* A reader that takes one line.                                           *)
(***************************************************************************)
LEMMA TakeOne ==
    ASSUME NEW Item, NEW p \in Inner(Item)
    PROVE  /\ Outcome(p, 1) = "data" <=> p.buf # <<>>
           /\ Outcome(p, 1) = "eof" => p.buf = <<>> /\ p.closed
           /\ p.buf # <<>> => /\ ReadPipe(p, 1).buf = Tail(p.buf)
                              /\ PollPipe(p, 1).buf = Tail(p.buf)
           /\ p.buf = <<>> => PollPipe(p, 1).buf = <<>>
<1>1. p.buf \in Seq(Item) /\ Len(p.buf) \in Nat
  BY LenProperties DEF Inner
<1>2. Taken(p, 1) = <<>> <=> p.buf = <<>>
  <2>1. Taken(p, 1) = <<>> => p.buf = <<>>
    BY TakenSplitsBuffer
  <2>2. p.buf = <<>> => Taken(p, 1) = <<>>
    BY <1>1, EmptySeq DEF Taken
  <2> QED
    BY <2>1, <2>2
<1>3. p.buf # <<>> => AfterTaking(p, 1) = Tail(p.buf)
  <2> SUFFICES ASSUME p.buf # <<>>
               PROVE  AfterTaking(p, 1) = Tail(p.buf)
    OBVIOUS
  <2>1. Tail(p.buf) = SubSeq(p.buf, 2, Len(p.buf))
    BY <1>1, TailIsSubSeq
  <2>2. Len(p.buf) = 1 \/ 1 < Len(p.buf)
    <3>1. Len(p.buf) \in Nat \ {0}
      BY <1>1, EmptySeq, Zenon
    <3>2. \A n \in Nat \ {0} : n = 1 \/ 1 < n
      OBVIOUS
    <3> QED
      BY <3>1, <3>2, Zenon
  <2>3. CASE Len(p.buf) = 1
    <3>1. SubSeq(p.buf, 2, Len(p.buf)) = <<>>
      BY <2>3, SubSeqEmpty
    <3>2. ~(1 < Len(p.buf))
      BY <1>1, <2>3
    <3>3. AfterTaking(p, 1) = <<>>
      BY <3>2, Zenon DEF AfterTaking
    <3> QED
      BY <2>1, <3>1, <3>3
  <2>4. CASE 1 < Len(p.buf)
    <3>1. AfterTaking(p, 1) = SubSeq(p.buf, 1 + 1, Len(p.buf))
      BY <2>4, Zenon DEF AfterTaking
    <3>2. 1 + 1 = 2
      OBVIOUS
    <3> QED
      BY <2>1, <3>1, <3>2
  <2> QED
    BY <2>2, <2>3, <2>4
<1>4. p.buf = <<>> => AfterTaking(p, 1) = <<>>
  BY <1>1, EmptySeq DEF AfterTaking
<1> QED
  BY <1>1, <1>2, <1>3, <1>4 DEF Outcome, ReadPipe, PollPipe, Inner

-----------------------------------------------------------------------------
(***************************************************************************)
(* The verdict.  While the transport is not done, the guest's first verdict *)
(* is the first line in stdout that settles the call.                      *)
(***************************************************************************)
FirstInPipe(buf, v) ==
    IF v = "none"
    THEN \A i \in 1 .. Len(buf) : Settles(buf[i]) = "none"
    ELSE \E i \in 1 .. Len(buf) :
           /\ Settles(buf[i]) = v
           /\ \A j \in 1 .. Len(buf) : j < i => Settles(buf[j]) = "none"

LEMMA FirstAfterWrite ==
    ASSUME NEW buf \in Seq(GuestLine), NEW text \in GuestLine, NEW v,
           FirstInPipe(buf, v)
    PROVE  FirstInPipe(buf \o <<text>>, IF v = "none" THEN Settles(text) ELSE v)
<1> DEFINE longer == buf \o <<text>>
<1>1. /\ Len(buf) \in Nat
      /\ Len(longer) = Len(buf) + 1
      /\ \A i \in 1 .. Len(buf) : longer[i] = buf[i]
      /\ longer[Len(buf) + 1] = text
  BY AppendProperties, AppendIsConcat, LenProperties
<1> HIDE DEF longer
<1>2. CASE v = "none" /\ Settles(text) = "none"
  BY <1>1, <1>2 DEF FirstInPipe
<1>3. CASE v = "none" /\ Settles(text) # "none"
  <2>1. /\ Len(buf) + 1 \in 1 .. Len(longer)
        /\ Settles(longer[Len(buf) + 1]) = Settles(text)
        /\ \A j \in 1 .. Len(longer) :
             j < Len(buf) + 1 => Settles(longer[j]) = "none"
    BY <1>1, <1>3 DEF FirstInPipe
  <2> QED
    BY <1>3, <2>1 DEF FirstInPipe
<1>4. CASE v # "none"
  <2>1. PICK i \in 1 .. Len(buf) :
               /\ Settles(buf[i]) = v
               /\ \A j \in 1 .. Len(buf) : j < i => Settles(buf[j]) = "none"
    BY <1>4 DEF FirstInPipe
  <2>2. /\ i \in 1 .. Len(longer)
        /\ Settles(longer[i]) = v
        /\ \A j \in 1 .. Len(longer) : j < i => Settles(longer[j]) = "none"
    BY <1>1, <2>1
  <2> QED
    BY <1>4, <2>2 DEF FirstInPipe
<1> QED
  BY <1>2, <1>3, <1>4 DEF longer

LEMMA FirstAfterRead ==
    ASSUME NEW buf \in Seq(GuestLine), buf # <<>>, NEW v, FirstInPipe(buf, v)
    PROVE  /\ Settles(Head(buf)) # "none" => v = Settles(Head(buf))
           /\ Settles(Head(buf)) = "none" => FirstInPipe(Tail(buf), v)
<1>1. /\ Len(buf) \in Nat \ {0}
      /\ Len(Tail(buf)) = Len(buf) - 1
      /\ \A i \in 1 .. Len(Tail(buf)) : Tail(buf)[i] = buf[i + 1]
      /\ Head(buf) = buf[1]
  BY EmptySeq, HeadTailProperties
<1>2. CASE v = "none"
  BY <1>1, <1>2 DEF FirstInPipe
<1>3. CASE v # "none"
  <2>1. PICK i \in 1 .. Len(buf) :
               /\ Settles(buf[i]) = v
               /\ \A j \in 1 .. Len(buf) : j < i => Settles(buf[j]) = "none"
    BY <1>3 DEF FirstInPipe
  <2>2. CASE i = 1
    BY <1>1, <1>3, <2>1, <2>2
  <2>3. CASE i > 1
    <3>1. /\ i - 1 \in 1 .. Len(Tail(buf))
          /\ Settles(Tail(buf)[i - 1]) = v
          /\ \A j \in 1 .. Len(Tail(buf)) :
               j < i - 1 => Settles(Tail(buf)[j]) = "none"
      BY <1>1, <2>1, <2>3
    <3>2. Settles(Head(buf)) = "none"
      BY <1>1, <2>1, <2>3
    <3> QED
      BY <1>3, <3>1, <3>2 DEF FirstInPipe
  <2> QED
    BY <2>1, <2>2, <2>3
<1> QED
  BY <1>2, <1>3

VerdictInv ==
    /\ result = "pending" <=> rpc # "done"
    /\ rpc # "done" => FirstInPipe(stdout.buf, verdict)
    /\ VerdictDelivered
    /\ rpc = "done" /\ verdict = "none" => inst = "done"
    /\ stdout.closed => inst = "done"

LEMMA InitVerdictInv == Init => VerdictInv
<1> SUFFICES ASSUME Init
             PROVE  VerdictInv
  OBVIOUS
<1>1. FirstInPipe(<<>>, "none")
  BY EmptySeq DEF FirstInPipe
<1> QED
  BY <1>1 DEF Init, NewPipe, VerdictInv, VerdictDelivered

\* What FdWrite(1, _) and FdWrite(2, _) do to the two pipes.
LEMMA FdWriteAppends ==
    ASSUME PipesOK, NEW text
    PROVE  /\ FdWrite(1, text) => /\ stdout'.buf = stdout.buf \o <<text>>
                                  /\ stdout'.closed = stdout.closed
                                  /\ stderr' = stderr
           /\ FdWrite(2, text) => /\ stderr'.buf = stderr.buf \o <<text>>
                                  /\ stdout' = stdout
<1>1. ASSUME NEW Item, NEW p \in Inner(Item)
      PROVE  /\ WritePipe(p, <<text>>).pipe.buf = p.buf \o <<text>>
             /\ WritePipe(p, <<text>>).pipe.closed = p.closed
  BY DEF WritePipe, Inner
<1>2. /\ WritePipe(stdout, <<text>>).pipe.buf = stdout.buf \o <<text>>
      /\ WritePipe(stdout, <<text>>).pipe.closed = stdout.closed
      /\ WritePipe(stderr, <<text>>).pipe.buf = stderr.buf \o <<text>>
  BY <1>1 DEF PipesOK
<1>3. FdWrite(1, text) => /\ stdout' = WritePipe(stdout, <<text>>).pipe
                          /\ stderr' = stderr
  BY Zenon DEF FdWrite
<1>4. FdWrite(2, text) => /\ stderr' = WritePipe(stderr, <<text>>).pipe
                          /\ stdout' = stdout
  <2>1. 2 # 1
    OBVIOUS
  <2> QED
    BY <2>1, Zenon DEF FdWrite
<1> QED
  BY <1>2, <1>3, <1>4

\* Every step but those that write or read stdout or settle the call.
LEMMA QuietVerdict ==
    ASSUME VerdictInv,
           rpc' = "done" <=> rpc = "done", result' = result,
           verdict' = verdict, stdout'.buf = stdout.buf,
           stdout'.closed => stdout.closed \/ inst' = "done",
           inst = "done" => inst' = "done"
    PROVE  VerdictInv'
<1>1. FirstInPipe(stdout.buf, verdict)' <=> FirstInPipe(stdout.buf, verdict)
  BY DEF FirstInPipe
<1> QED
  BY <1>1 DEF VerdictInv, VerdictDelivered

LEMMA WritingVerdict ==
    ASSUME CallInv, VerdictInv, NEW text \in GuestLine,
           Running, FdWrite(1, text), verdict' = FirstVerdict(text),
           UNCHANGED <<rpc, result, inst>>
    PROVE  VerdictInv'
<1>1. /\ stdout'.buf = stdout.buf \o <<text>>
      /\ stdout'.closed = stdout.closed
  BY FdWriteAppends DEF CallInv
<1>2. verdict' = IF verdict = "none" THEN Settles(text) ELSE verdict
  BY DEF FirstVerdict, Settles
<1>3. CASE rpc = "done"
  <2>1. verdict # "none"
    BY <1>3 DEF VerdictInv, Running
  <2> QED
    BY <1>1, <1>2, <1>3, <2>1 DEF VerdictInv, VerdictDelivered
<1>4. CASE rpc # "done"
  <2>1. stdout.buf \in Seq(GuestLine)
    BY DEF CallInv, PipesOK, Inner
  <2>2. FirstInPipe(stdout'.buf, verdict')
    BY <1>1, <1>2, <1>4, <2>1, FirstAfterWrite DEF VerdictInv
  <2>3. FirstInPipe(stdout.buf, verdict)'
    BY <2>2 DEF FirstInPipe
  <2> QED
    BY <1>1, <1>4, <2>3 DEF VerdictInv, VerdictDelivered
<1> QED
  BY <1>3, <1>4

LEMMA ReceivingVerdict ==
    ASSUME CallInv, VerdictInv, Receive
    PROVE  VerdictInv'
<1>1. stdout.buf \in Seq(GuestLine) /\ stdout.buf # <<>>
  BY TakeOne DEF Receive, CallInv, PipesOK, Inner
<1>2. stdout'.buf = Tail(stdout.buf) /\ stdout'.closed = stdout.closed
  <2>1. ReadPipe(stdout, 1).buf = Tail(stdout.buf)
    BY <1>1, TakeOne DEF CallInv, PipesOK
  <2>2. ReadPipe(stdout, 1).closed = stdout.closed
    BY ReadKeepsPipe DEF CallInv, PipesOK
  <2> QED
    BY <2>1, <2>2 DEF Receive
<1>3. rpc = "recv" /\ UNCHANGED <<verdict, inst>>
  BY DEF Receive, guestVars
<1>4. FirstInPipe(stdout.buf, verdict)
  BY <1>3 DEF VerdictInv
<1>5. CASE Settles(Head(stdout.buf)) # "none"
  <2>1. verdict = Settles(Head(stdout.buf))
    BY <1>1, <1>4, <1>5, FirstAfterRead
  <2>2. rpc' = "done" /\ result' = Settles(Head(stdout.buf))
    <3>1. Settles("request") = "none"
      BY DEF Settles
    <3> QED
      BY <1>5, <3>1 DEF Receive
  <2>3. verdict # "pending"
    BY DEF CallInv, GuestOK
  <2> QED
    BY <1>2, <1>3, <1>5, <2>1, <2>2, <2>3 DEF VerdictInv, VerdictDelivered
<1>6. CASE Settles(Head(stdout.buf)) = "none"
  <2>1. FirstInPipe(Tail(stdout.buf), verdict)
    BY <1>1, <1>4, <1>6, FirstAfterRead
  <2>2. FirstInPipe(stdout.buf, verdict)'
    BY <1>2, <1>3, <2>1 DEF FirstInPipe
  <2>3. rpc' # "done" /\ result' = result
    BY <1>3, <1>6 DEF Receive
  <2> QED
    BY <1>2, <1>3, <2>2, <2>3 DEF VerdictInv, VerdictDelivered
<1> QED
  BY <1>5, <1>6

LEMMA EndingVerdict ==
    ASSUME CallInv, VerdictInv, ReceiveEof
    PROVE  VerdictInv' /\ verdict = "none"
<1>1. stdout.buf = <<>> /\ stdout.closed
  BY TakeOne DEF ReceiveEof, CallInv, PipesOK
<1>2. verdict = "none"
  <2>1. FirstInPipe(<<>>, verdict)
    BY <1>1 DEF ReceiveEof, VerdictInv
  <2> QED
    BY <2>1, EmptySeq DEF FirstInPipe
<1> QED
  BY <1>1, <1>2 DEF ReceiveEof, guestVars, VerdictInv, VerdictDelivered

LEMMA StepVerdictInv ==
    ASSUME CallInv, VerdictInv, [Next]_vars
    PROVE  VerdictInv'
<1>1. CASE Poll \/ EndPoll \/ Pass \/ ReceiveYields
  BY <1>1, QuietVerdict
     DEF Poll, EndPoll, Pass, ReceiveYields, guestVars, VerdictInv
<1>2. CASE Send \/ HandlerReplies
  BY <1>2, QuietVerdict DEF Send, HandlerReplies, guestVars, VerdictInv
<1>3. CASE HandlerCompletes \/ TimerFires
  BY <1>3, QuietVerdict DEF HandlerCompletes, TimerFires, guestVars
<1>4. CASE Boot \/ WakesUp \/ StdinYieldEnds \/ Resume
  BY <1>4, QuietVerdict
     DEF Boot, WakesUp, StdinYieldEnds, Resume, YieldFor, guestVars
<1>5. CASE LoggerReads \/ LoggerEof \/ LoggerPends
  BY <1>5, QuietVerdict DEF LoggerReads, LoggerEof, LoggerPends, guestVars
<1>6. CASE Receive
  BY <1>6, ReceivingVerdict
<1>7. CASE ReceiveEof
  BY <1>7, EndingVerdict
<1>8. CASE GuestReads
  BY <1>8, QuietVerdict DEF GuestReads, hostVars
<1>9. CASE GuestFindsNoInput \/ GuestPreempted \/ GuestSleeps
  BY <1>9, QuietVerdict
     DEF GuestFindsNoInput, GuestPreempted, GuestSleeps, Running, YieldFor,
         guestVars
<1>10. CASE GuestLogs
  <2>1. stdout' = stdout
    BY <1>10, FdWriteAppends DEF GuestLogs, CallInv
  <2> QED
    BY <1>10, <2>1, QuietVerdict DEF GuestLogs
<1>11. CASE GuestCalls
  <2>1. "request" \in GuestLine /\ verdict = FirstVerdict("request")
    BY DEF GuestLine, FirstVerdict
  <2> QED
    BY <1>11, <2>1, WritingVerdict DEF GuestCalls
<1>12. CASE GuestAnswers \/ GuestUtters
  <2>1. PICK text \in GuestLine : /\ FdWrite(1, text)
                                  /\ verdict' = FirstVerdict(text)
    BY <1>12, CallAssumption DEF GuestAnswers, GuestUtters, GuestLine
  <2> QED
    BY <1>12, <2>1, WritingVerdict DEF GuestAnswers, GuestUtters
<1>13. CASE GuestReturns \/ GuestTraps
  <2>1. stdout'.buf = stdout.buf
    BY <1>13
       DEF GuestReturns, GuestTraps, InstanceEnds, DropPipe, CallInv, PipesOK,
           Inner
  <2> QED
    BY <1>13, <2>1, QuietVerdict
       DEF GuestReturns, GuestTraps, InstanceEnds, guestVars
<1>14. CASE Terminated \/ UNCHANGED vars
  BY <1>14, QuietVerdict DEF Terminated, vars, hostVars, guestVars
<1> QED
  BY <1>1, <1>2, <1>3, <1>4, <1>5, <1>6, <1>7, <1>8, <1>9, <1>10, <1>11,
     <1>12, <1>13, <1>14
     DEF Next, Host, GuestSlice, GuestProgress, Environment

\* The caller gets the guest's first verdict, and "end of file" only from a
\* guest that said nothing (JsonRpcTransport::call within Plugin::call).
THEOREM CallVerdict == Spec => []VerdictDelivered
<1>1. CallInv /\ VerdictInv => VerdictDelivered
  BY DEF VerdictInv
<1> QED
  BY <1>1, InitCallInv, StepCallInv, InitVerdictInv, StepVerdictInv, PTL DEF Spec

-----------------------------------------------------------------------------
(***************************************************************************)
(* The logs.  What the guest has logged is what the logger was called with *)
(* and what is still in stderr; a logger that is done has stopped before a *)
(* line that is not text, or has seen everything of a guest that is over.  *)
(***************************************************************************)
LEMMA NextItem ==
    ASSUME NEW Item, NEW s \in Seq(Item), NEW t \in Seq(Item), t # <<>>
    PROVE  /\ Head(t) \in Item
           /\ Len(s) < Len(s \o t)
           /\ \A i \in 1 .. Len(s) : (s \o t)[i] = s[i]
           /\ (s \o t)[Len(s) + 1] = Head(t)
           /\ Append(s, Head(t)) \o Tail(t) = s \o t
<1>1. /\ Head(t) \in Item /\ Head(t) = t[1]
      /\ Tail(t) \in Seq(Item)
      /\ Len(s) \in Nat /\ Len(t) \in Nat \ {0}
  BY HeadTailProperties, EmptySeq, LenProperties
<1>2. /\ Len(s \o t) = Len(s) + Len(t)
      /\ \A i \in 1 .. Len(s) + Len(t) :
           (s \o t)[i] = IF i <= Len(s) THEN s[i] ELSE t[i - Len(s)]
  BY ConcatProperties
<1>3. (s \o t)[Len(s) + 1] = Head(t)
  BY <1>1, <1>2
<1>4. t = <<Head(t)>> \o Tail(t)
  <2>1. 1 \in 1 .. Len(t) /\ Len(t) \in 1 .. Len(t)
    BY <1>1
  <2>2. SubSeq(t, 1, Len(t)) = <<t[1]>> \o SubSeq(t, 1 + 1, Len(t))
    BY <2>1, SubSeqRecursiveFirst
  <2>3. Tail(t) = SubSeq(t, 2, Len(t)) /\ SubSeq(t, 1, Len(t)) = t
    BY TailIsSubSeq, SubSeqFull
  <2>4. 1 + 1 = 2
    OBVIOUS
  <2> QED
    BY <1>1, <2>2, <2>3, <2>4
<1>5. Append(s, Head(t)) \o Tail(t) = s \o t
  <2>1. <<Head(t)>> \in Seq(Item)
    BY <1>1
  <2>2. (s \o <<Head(t)>>) \o Tail(t) = s \o (<<Head(t)>> \o Tail(t))
    BY <1>1, <2>1, ConcatAssociative
  <2>3. Append(s, Head(t)) = s \o <<Head(t)>>
    BY <1>1, AppendIsConcat
  <2> QED
    BY <1>4, <2>2, <2>3
<1> QED
  BY <1>1, <1>2, <1>3, <1>5

Shown == /\ Len(logged) =< Len(logs)
         /\ \A i \in 1 .. Len(logged) : logged[i] = logs[i]
         /\ Len(logged) < Len(logs) => logs[Len(logged) + 1] = "binary"
         /\ Len(logged) = Len(logs) => inst = "done"

LogsInv == /\ logger = "reading" => logs = logged \o stderr.buf
           /\ logger = "done" => Shown
           /\ turn = "returned" => AllDone

LEMMA InitLogsInv == Init => LogsInv
<1>1. <<>> \o <<>> = <<>>
  BY EmptySeq, ConcatEmptySeq
<1> QED
  BY <1>1 DEF Init, NewPipe, LogsInv

\* Every step but those that write or read stderr or end the logger.
LEMMA QuietLogs ==
    ASSUME LogsInv,
           UNCHANGED <<logger, logs, logged>>, stderr'.buf = stderr.buf,
           turn' = "returned" => AllDone',
           inst = "done" => inst' = "done"
    PROVE  LogsInv'
BY DEF LogsInv, Shown

LEMMA WritingLogs ==
    ASSUME CallInv, LogsInv, GuestLogs
    PROVE  LogsInv'
<1>1. PICK text \in LogLine : FdWrite(2, text) /\ logs' = Append(logs, text)
  BY DEF GuestLogs
<1>2. /\ stderr'.buf = stderr.buf \o <<text>>
      /\ UNCHANGED <<logger, logged, inst, turn>>
      /\ inst = "slice" /\ turn = "instance"
  BY <1>1, FdWriteAppends DEF GuestLogs, Running, CallInv
<1>3. /\ logs \in Seq(LogLine) /\ logged \in Seq(LogLine)
      /\ stderr.buf \in Seq(LogLine) /\ <<text>> \in Seq(LogLine)
  BY DEF CallInv, GuestOK, PipesOK, Inner
<1>4. ASSUME logger = "reading"
      PROVE  logs' = logged' \o stderr'.buf
  <2>1. logs' = (logged \o stderr.buf) \o <<text>>
    BY <1>1, <1>3, <1>4, AppendIsConcat DEF LogsInv
  <2>2. (logged \o stderr.buf) \o <<text>> = logged \o (stderr.buf \o <<text>>)
    <3>1. \A s, t, u \in Seq(LogLine) : (s \o t) \o u = s \o (t \o u)
      BY ConcatAssociative
    <3> QED
      BY <1>3, <3>1, Zenon
  <2> QED
    BY <1>2, <2>1, <2>2
<1>5. ASSUME logger = "done"
      PROVE  Shown'
  <2>1. /\ Len(logs') = Len(logs) + 1
        /\ \A i \in 1 .. Len(logs) : logs'[i] = logs[i]
        /\ Len(logs) \in Nat /\ Len(logged) \in Nat
    BY <1>1, <1>3, AppendProperties, LenProperties
  <2>2. Len(logged) < Len(logs) /\ Shown
    BY <1>2, <1>5, <2>1 DEF LogsInv, Shown
  <2>3. /\ Len(logged) < Len(logs')
        /\ \A i \in 1 .. Len(logged) : logged[i] = logs'[i]
        /\ logs'[Len(logged) + 1] = logs[Len(logged) + 1]
    BY <2>1, <2>2 DEF Shown
  <2> QED
    BY <1>2, <2>1, <2>2, <2>3 DEF Shown
<1> QED
  BY <1>2, <1>4, <1>5 DEF LogsInv

LEMMA ReadingLogs ==
    ASSUME CallInv, LogsInv, LoggerReads
    PROVE  /\ LogsInv'
           /\ logged' = logged \/ /\ Len(logged) < Len(logs)
                                  /\ logs[Len(logged) + 1] = "text"
                                  /\ logged' = Append(logged, "text")
<1>1. /\ stderr.buf # <<>> /\ stderr.buf \in Seq(LogLine)
      /\ stderr'.buf = Tail(stderr.buf)
      /\ logged \in Seq(LogLine)
      /\ logger = "reading" /\ turn = "stderr"
      /\ UNCHANGED <<logs, inst, turn>>
  BY TakeOne DEF LoggerReads, guestVars, CallInv, PipesOK, GuestOK, Inner
<1>2. logs = logged \o stderr.buf
  BY <1>1 DEF LogsInv
<1>3. /\ Head(stderr.buf) \in LogLine
      /\ Len(logged) < Len(logs)
      /\ \A i \in 1 .. Len(logged) : logs[i] = logged[i]
      /\ logs[Len(logged) + 1] = Head(stderr.buf)
      /\ Append(logged, Head(stderr.buf)) \o Tail(stderr.buf) = logs
  BY <1>1, <1>2, NextItem
<1>4. CASE Head(stderr.buf) = "text"
  <2>1. logged' = Append(logged, "text") /\ logger' = logger
    BY <1>4 DEF LoggerReads
  <2> QED
    BY <1>1, <1>3, <1>4, <2>1 DEF LogsInv
<1>5. CASE Head(stderr.buf) # "text"
  <2>1. Head(stderr.buf) = "binary" /\ logged' = logged /\ logger' = "done"
    BY <1>3, <1>5 DEF LoggerReads, LogLine
  <2>2. Len(logged) \in Nat /\ Len(logs) \in Nat
    BY <1>1, LenProperties DEF CallInv, GuestOK
  <2> QED
    BY <1>1, <1>3, <2>1, <2>2 DEF LogsInv, Shown
<1> QED
  BY <1>4, <1>5

LEMMA EndingLogs ==
    ASSUME CallInv, LogsInv, LoggerEof
    PROVE  LogsInv'
<1>1. /\ stderr.buf = <<>> /\ stderr.closed
      /\ logged \in Seq(LogLine)
      /\ logger = "reading" /\ turn = "stderr"
      /\ UNCHANGED <<logs, logged, inst, turn>> /\ logger' = "done"
  BY TakeOne DEF LoggerEof, guestVars, CallInv, PipesOK, GuestOK
<1>2. logs = logged
  BY <1>1, ConcatEmptySeq DEF LogsInv
<1>3. inst = "done"
  BY <1>1 DEF CallInv, Promises, Companions
<1>4. Len(logged) \in Nat
  BY <1>1, LenProperties
<1> QED
  BY <1>1, <1>2, <1>3, <1>4 DEF LogsInv, Shown

LEMMA StepLogsInv ==
    ASSUME CallInv, LogsInv, [Next]_vars
    PROVE  LogsInv'
<1>1. CASE Poll \/ EndPoll \/ Pass
  BY <1>1, QuietLogs
     DEF Poll, EndPoll, Pass, NextTurn, guestVars, AllDone, LogsInv
<1>2. CASE Send \/ Receive \/ ReceiveEof \/ ReceiveYields \/ HandlerReplies
  BY <1>2, QuietLogs
     DEF Send, Receive, ReceiveEof, ReceiveYields, HandlerReplies, NextTurn,
         guestVars
<1>3. CASE HandlerCompletes \/ TimerFires
  BY <1>3, QuietLogs
     DEF HandlerCompletes, TimerFires, guestVars, LogsInv, AllDone
<1>4. CASE Boot \/ WakesUp \/ StdinYieldEnds \/ Resume
  BY <1>4, QuietLogs
     DEF Boot, WakesUp, StdinYieldEnds, Resume, YieldFor, NextTurn, guestVars
<1>5. CASE LoggerReads
  BY <1>5, ReadingLogs
<1>6. CASE LoggerEof
  BY <1>6, EndingLogs
<1>7. CASE LoggerPends
  <2>1. stderr'.buf = stderr.buf
    <3>1. stderr.buf = <<>>
      BY <1>7, TakeOne DEF LoggerPends, CallInv, PipesOK
    <3> QED
      BY <1>7, <3>1, TakeOne DEF LoggerPends, CallInv, PipesOK
  <2> QED
    BY <1>7, <2>1, QuietLogs DEF LoggerPends, NextTurn, guestVars
<1>8. CASE GuestReads \/ GuestFindsNoInput \/ GuestPreempted \/ GuestSleeps
  BY <1>8, QuietLogs
     DEF GuestReads, GuestFindsNoInput, GuestPreempted, GuestSleeps, Running,
         YieldFor, NextTurn, guestVars, hostVars
<1>9. CASE GuestLogs
  BY <1>9, WritingLogs
<1>10. CASE GuestCalls \/ GuestAnswers \/ GuestUtters
  <2>1. stderr' = stderr
    BY <1>10, FdWriteAppends DEF GuestCalls, GuestAnswers, GuestUtters, CallInv
  <2> QED
    BY <1>10, <2>1, QuietLogs DEF GuestCalls, GuestAnswers, GuestUtters, Running
<1>11. CASE GuestReturns \/ GuestTraps
  <2>1. stderr'.buf = stderr.buf
    BY <1>11
       DEF GuestReturns, GuestTraps, InstanceEnds, DropPipe, CallInv, PipesOK,
           Inner
  <2> QED
    BY <1>11, <2>1, QuietLogs
       DEF GuestReturns, GuestTraps, InstanceEnds, Running, NextTurn, guestVars
<1>12. CASE Terminated \/ UNCHANGED vars
  BY <1>12, QuietLogs
     DEF Terminated, vars, hostVars, guestVars, LogsInv, AllDone
<1> QED
  BY <1>1, <1>2, <1>3, <1>4, <1>5, <1>6, <1>7, <1>8, <1>9, <1>10, <1>11, <1>12
     DEF Next, Host, GuestSlice, GuestProgress, Environment

\* When the call returns, the logger was called with every line of stderr, in
\* order, up to the first that is not UTF-8 (stderr_task of Plugin::call).
THEOREM CallLogs == Spec => []LogsDelivered
<1>1. CallInv /\ LogsInv => LogsDelivered
  BY DEF LogsInv, Shown, LogsDelivered, AllDone
<1> QED
  BY <1>1, InitCallInv, StepCallInv, InitLogsInv, StepLogsInv, PTL DEF Spec

-----------------------------------------------------------------------------
(***************************************************************************)
(* The contract.  Each step of the call is one of CallContract or changes  *)
(* nothing it speaks of.                                                   *)
(***************************************************************************)
LEMMA QuietContract ==
    ASSUME UNCHANGED <<verdict, logs, result, logged>>,
           inst' = "done" <=> inst = "done",
           turn' = "returned" <=> turn = "returned"
    PROVE  UNCHANGED Contract!vars
BY DEF Contract!vars

LEMMA StepContract ==
    ASSUME CallInv, VerdictInv, LogsInv, [Next]_vars
    PROVE  [Contract!Next]_(Contract!vars)
<1>1. CASE Poll \/ Pass \/ ReceiveYields \/ LoggerPends
  BY <1>1, QuietContract
     DEF Poll, Pass, ReceiveYields, LoggerPends, NextTurn, guestVars
<1>2. CASE EndPoll
  <2>1. CASE AllDone
    <3>1. /\ inst = "done" /\ logger = "done" /\ result # "pending"
          /\ turn' = "returned"
          /\ UNCHANGED <<verdict, logs, result, logged, inst>>
      BY <1>2, <2>1 DEF EndPoll, AllDone, VerdictInv, guestVars
    <3>2. /\ logs \in Seq(LogLine) /\ logged \in Seq(LogLine)
          /\ Len(logs) \in Nat /\ Len(logged) \in Nat
      BY LenProperties DEF CallInv, GuestOK
    <3>3. Contract!AllShown
      <4>1. CASE Len(logged) = Len(logs)
        <5>1. \A i \in 1 .. Len(logged) : logged[i] = logs[i]
          BY <3>1 DEF LogsInv, Shown
        <5>2. logged = logs
          BY <3>2, <4>1, <5>1, SeqEqual
        <5> QED
          BY <5>2 DEF Contract!AllShown
      <4>2. CASE Len(logged) # Len(logs)
        <5>1. Len(logged) < Len(logs) /\ logs[Len(logged) + 1] = "binary"
          BY <3>1, <3>2, <4>2 DEF LogsInv, Shown
        <5> QED
          BY <5>1 DEF Contract!AllShown
      <4> QED
        BY <4>1, <4>2
    <3>4. Contract!Return
      BY <3>1, <3>3 DEF Contract!Return
    <3> QED
      BY <3>4 DEF Contract!Next
  <2>2. CASE ~AllDone
    BY <1>2, <2>2, QuietContract DEF EndPoll, guestVars
  <2> QED
    BY <2>1, <2>2
<1>3. CASE Send \/ HandlerReplies \/ HandlerCompletes \/ TimerFires
  BY <1>3, QuietContract
     DEF Send, HandlerReplies, HandlerCompletes, TimerFires, guestVars
<1>4. CASE Boot \/ WakesUp \/ StdinYieldEnds \/ Resume
  BY <1>4, QuietContract
     DEF Boot, WakesUp, StdinYieldEnds, Resume, YieldFor, NextTurn, guestVars
<1>5. CASE Receive
  <2>1. VerdictInv' /\ rpc = "recv" /\ UNCHANGED <<verdict, logs, logged, inst, turn>>
    BY <1>5, ReceivingVerdict DEF Receive, guestVars
  <2>2. CASE rpc' = "done"
    <3>1. verdict # "none" /\ result = "pending" /\ result' = verdict
      <4>1. result' = Settles(Head(stdout.buf)) /\ result' # "none"
        BY <1>5, <2>1, <2>2 DEF Receive
      <4>2. result' # "eof"
        BY <4>1 DEF Settles
      <4> QED
        BY <2>1, <2>2, <4>2 DEF VerdictInv, VerdictDelivered
    <3>2. Contract!Decide
      BY <2>1, <3>1 DEF Contract!Decide
    <3> QED
      BY <3>2 DEF Contract!Next
  <2>3. CASE rpc' # "done"
    <3>1. result' = result
      BY <1>5, <2>3 DEF Receive
    <3> QED
      BY <2>1, <3>1, QuietContract
  <2> QED
    BY <2>2, <2>3
<1>6. CASE ReceiveEof
  <2>1. /\ result = "pending" /\ result' = "eof"
        /\ UNCHANGED <<verdict, logs, logged, inst, turn>>
    BY <1>6 DEF ReceiveEof, VerdictInv, guestVars
  <2>2. verdict = "none" /\ inst = "done"
    <3>1. VerdictInv' /\ verdict = "none" /\ rpc' = "done"
      BY <1>6, EndingVerdict DEF ReceiveEof
    <3> QED
      BY <2>1, <3>1 DEF VerdictInv
  <2>3. Contract!Decide
    BY <2>1, <2>2 DEF Contract!Decide
  <2> QED
    BY <2>3 DEF Contract!Next
<1>7. CASE LoggerReads
  <2>1. UNCHANGED <<verdict, logs, result, inst, turn>>
    BY <1>7 DEF LoggerReads, guestVars
  <2>2. CASE logged' = logged
    BY <2>1, <2>2, QuietContract
  <2>3. CASE logged' # logged
    <3>1. /\ Len(logged) < Len(logs)
          /\ logs[Len(logged) + 1] = "text"
          /\ logged' = Append(logged, logs[Len(logged) + 1])
      BY <1>7, <2>3, ReadingLogs
    <3>2. Contract!ShowLog
      BY <2>1, <3>1 DEF Contract!ShowLog
    <3> QED
      BY <3>2 DEF Contract!Next
  <2> QED
    BY <2>2, <2>3
<1>8. CASE LoggerEof
  BY <1>8, QuietContract DEF LoggerEof, guestVars
<1>9. CASE \/ GuestReads \/ GuestFindsNoInput \/ GuestPreempted \/ GuestSleeps
           \/ GuestCalls
  BY <1>9, QuietContract
     DEF GuestReads, GuestFindsNoInput, GuestPreempted, GuestSleeps, GuestCalls,
         Running, YieldFor, NextTurn, guestVars, hostVars
<1>10. CASE GuestLogs
  <2>1. PICK text \in LogLine : logs' = Append(logs, text)
    BY <1>10 DEF GuestLogs
  <2>2. inst = "slice" /\ UNCHANGED <<verdict, result, logged, inst, turn>>
    BY <1>10 DEF GuestLogs, Running
  <2>3. Contract!WriteLog
    BY <2>1, <2>2 DEF Contract!WriteLog
  <2> QED
    BY <2>3 DEF Contract!Next
<1>11. CASE GuestAnswers \/ GuestUtters
  <2>1. PICK text \in GuestLine : verdict' = FirstVerdict(text)
    BY <1>11, CallAssumption DEF GuestAnswers, GuestUtters, GuestLine
  <2>2. inst = "slice" /\ UNCHANGED <<logs, result, logged, inst, turn>>
    BY <1>11 DEF GuestAnswers, GuestUtters, Running
  <2>3. CASE verdict' = verdict
    BY <2>2, <2>3, QuietContract
  <2>4. CASE verdict' # verdict
    <3>1. verdict = "none" /\ verdict' \in {"ok", "error", "parseError"}
      BY <2>1, <2>4 DEF FirstVerdict
    <3>2. Contract!Say
      BY <2>2, <3>1 DEF Contract!Say
    <3> QED
      BY <3>2 DEF Contract!Next
  <2> QED
    BY <2>3, <2>4
<1>12. CASE GuestReturns \/ GuestTraps
  <2>1. /\ inst = "slice" /\ inst' = "done" /\ turn = "instance"
        /\ turn' = "stderr"
        /\ UNCHANGED <<verdict, logs, result, logged>>
    BY <1>12
       DEF GuestReturns, GuestTraps, InstanceEnds, Running, NextTurn, guestVars
  <2>2. Contract!Stop
    BY <2>1 DEF Contract!Stop
  <2> QED
    BY <2>2 DEF Contract!Next
<1>13. CASE Terminated \/ UNCHANGED vars
  BY <1>13, QuietContract DEF Terminated, vars, hostVars, guestVars
<1> QED
  BY <1>1, <1>2, <1>3, <1>4, <1>5, <1>6, <1>7, <1>8, <1>9, <1>10, <1>11,
     <1>12, <1>13
     DEF Next, Host, GuestSlice, GuestProgress, Environment

\* One call of a plugin keeps its contract: it decides by what the guest said
\* first, or by its end without a word, shows every readable log line in order,
\* and returns only after the guest has stopped (Plugin::call).
THEOREM CallImplementsContract == Spec => ContractSpec
<1>1. Init => Contract!Init
  BY DEF Init, Contract!Init
<1> QED
  BY <1>1, InitCallInv, StepCallInv, InitVerdictInv, StepVerdictInv,
     InitLogsInv, StepLogsInv, StepContract, PTL
     DEF Spec, ContractSpec, Contract!Spec

-----------------------------------------------------------------------------
(***************************************************************************)
(* The guest's own requests.  They are counted in the pipes; the request   *)
(* that the guest reads first is the call's own.                           *)
(***************************************************************************)
LEMMA CountIsPlaces ==
    ASSUME NEW S, NEW s \in Seq(S), NEW line
    PROVE  /\ CountOf(line, s) = Cardinality(Places(s, {line}))
           /\ CountOf(line, s) \in Nat
<1>1. Places(s, {line}) = {i \in 1 .. Len(s) : s[i] = line}
  BY DEF Places
<1> QED
  BY <1>1, PlacesFinite DEF CountOf

LEMMA CountAfterWrite ==
    ASSUME NEW S, NEW s \in Seq(S), NEW x \in S, NEW line
    PROVE  CountOf(line, s \o <<x>>)
             = CountOf(line, s) + (IF x = line THEN 1 ELSE 0)
<1>1. s \o <<x>> = Append(s, x) /\ Append(s, x) \in Seq(S)
  BY AppendIsConcat, AppendProperties
<1>2. /\ CountOf(line, s) = Cardinality(Places(s, {line}))
      /\ CountOf(line, Append(s, x)) = Cardinality(Places(Append(s, x), {line}))
  BY <1>1, CountIsPlaces
<1>3. Cardinality(Places(Append(s, x), {line}))
        = Cardinality(Places(s, {line})) + (IF x \in {line} THEN 1 ELSE 0)
  BY PlacesAfterAppend
<1> QED
  BY <1>1, <1>2, <1>3

LEMMA CountAfterRead ==
    ASSUME NEW S, NEW s \in Seq(S), s # <<>>, NEW line
    PROVE  CountOf(line, Tail(s))
             = CountOf(line, s) - (IF Head(s) = line THEN 1 ELSE 0)
<1>1. Tail(s) \in Seq(S)
  BY HeadTailProperties
<1>2. /\ CountOf(line, s) = Cardinality(Places(s, {line}))
      /\ CountOf(line, Tail(s)) = Cardinality(Places(Tail(s), {line}))
  BY <1>1, CountIsPlaces
<1>3. Cardinality(Places(Tail(s), {line}))
        = Cardinality(Places(s, {line}))
            - (IF Head(s) \in {line} THEN 1 ELSE 0)
  BY PlacesAfterTail
<1> QED
  BY <1>2, <1>3

LEMMA CountOfNothing == ASSUME NEW line PROVE CountOf(line, <<>>) = 0
<1>1. <<>> \in Seq({line})
  BY EmptySeq
<1> QED
  BY <1>1, CountIsPlaces, PlacesOfNothing

\* The call's own request is read first; what comes in later are replies.
InputInOrder ==
    /\ rpc = "send" => stdin.buf = <<>> /\ guest = "boot"
    /\ rpc # "send" /\ guest = "boot" => stdin.buf = <<"request">>
    /\ guest # "boot" => \A i \in 1 .. Len(stdin.buf) : stdin.buf[i] = "reply"

RequestsInv == InputInOrder /\ OneRequestUnderWay

\* The three places a request of the guest may be in.
Asked == CountOf("request", stdout.buf)
Replied == CountOf("reply", stdin.buf)

LEMMA InitRequestsInv == Init => RequestsInv
BY CountOfNothing
   DEF Init, NewPipe, RequestsInv, InputInOrder, OneRequestUnderWay

LEMMA QuietRequests ==
    ASSUME CallInv, RequestsInv,
           rpc' = "send" <=> rpc = "send",
           rpc' = "handling" <=> rpc = "handling",
           stdin'.buf = stdin.buf, Asked' = Asked,
           guest' = "boot" <=> guest = "boot",
           guest' = "await" <=> guest = "await"
    PROVE  RequestsInv'
<1>1. Replied' = Replied
  BY DEF Replied
<1> QED
  BY <1>1 DEF RequestsInv, InputInOrder, OneRequestUnderWay, Asked, Replied

LEMMA Counted ==
    ASSUME CallInv
    PROVE  Asked \in Nat /\ Replied \in Nat
<1>1. stdout.buf \in Seq(GuestLine) /\ stdin.buf \in Seq(HostLine)
  BY DEF CallInv, PipesOK, Inner
<1> QED
  BY <1>1, CountIsPlaces DEF Asked, Replied

LEMMA SendingRequests ==
    ASSUME CallInv, RequestsInv, Send
    PROVE  RequestsInv'
<1>1. /\ rpc = "send" /\ rpc' = "recv"
      /\ stdin.buf = <<>> /\ guest = "boot"
      /\ UNCHANGED <<guest, stdout>>
  BY DEF Send, guestVars, RequestsInv, InputInOrder
<1>2. stdin'.buf = <<>> \o <<"request">>
  BY <1>1 DEF Send, WritePipe, CallInv, PipesOK, Inner
<1>3. stdin'.buf = <<"request">>
  <2>1. <<"request">> \in Seq(HostLine)
    BY DEF HostLine
  <2> QED
    BY <1>2, <2>1, ConcatEmptySeq
<1>4. CountOf("reply", stdin'.buf) = CountOf("reply", stdin.buf)
  <2>1. <<>> \in Seq(HostLine) /\ "request" \in HostLine
    BY EmptySeq DEF HostLine
  <2>2. CountOf("reply", <<>> \o <<"request">>) = CountOf("reply", <<>>) + 0
    BY <2>1, CountAfterWrite
  <2> QED
    BY <1>1, <1>2, <2>2, CountOfNothing
<1>5. Replied' = Replied /\ Asked' = Asked
  BY <1>1, <1>4 DEF Asked, Replied, CountOf
<1> QED
  BY <1>1, <1>3, <1>5
     DEF RequestsInv, InputInOrder, OneRequestUnderWay, Asked, Replied

LEMMA ReceivingRequests ==
    ASSUME CallInv, RequestsInv, Receive
    PROVE  RequestsInv'
<1>1. /\ stdout.buf \in Seq(GuestLine) /\ stdout.buf # <<>>
      /\ ReadPipe(stdout, 1).buf = Tail(stdout.buf)
  BY TakeOne DEF Receive, CallInv, PipesOK, Inner
<1>2. /\ stdout'.buf = Tail(stdout.buf)
      /\ rpc = "recv" /\ UNCHANGED <<guest, stdin>>
  BY <1>1 DEF Receive, guestVars
<1>3. CountOf("request", Tail(stdout.buf))
        = CountOf("request", stdout.buf)
            - (IF Head(stdout.buf) = "request" THEN 1 ELSE 0)
  BY <1>1, CountAfterRead
<1>4. Asked' = Asked - (IF Head(stdout.buf) = "request" THEN 1 ELSE 0)
  BY <1>2, <1>3 DEF Asked, CountOf
<1>5. CASE Head(stdout.buf) = "request"
  <2>1. rpc' = "handling"
    <3>1. Settles("request") = "none"
      BY DEF Settles
    <3> QED
      BY <1>5, <3>1 DEF Receive
  <2>2. Asked' = Asked - 1 /\ Replied' = Replied
    BY <1>2, <1>4, <1>5 DEF Replied
  <2> QED
    BY <1>2, <2>1, <2>2, Counted
       DEF RequestsInv, InputInOrder, OneRequestUnderWay, Asked, Replied
<1>6. CASE Head(stdout.buf) # "request"
  <2>1. rpc' \in {"recv", "done"}
    BY <1>2, <1>6 DEF Receive
  <2>2. Asked' = Asked
    BY <1>4, <1>6, Counted
  <2> QED
    BY <1>2, <2>1, <2>2, QuietRequests
<1> QED
  BY <1>5, <1>6

LEMMA ReplyingRequests ==
    ASSUME CallInv, RequestsInv, HandlerReplies
    PROVE  RequestsInv'
<1>1. /\ rpc = "handling" /\ rpc' = "recv"
      /\ UNCHANGED <<guest, stdout>>
  BY DEF HandlerReplies, guestVars
<1>2. stdin'.buf = stdin.buf \o <<"reply">> /\ stdin.buf \in Seq(HostLine)
  BY DEF HandlerReplies, Reply, WritePipe, CallInv, PipesOK, Inner
<1>3. "reply" \in HostLine
  BY DEF HostLine
<1>4. guest # "boot"
  BY <1>1, Counted DEF RequestsInv, OneRequestUnderWay, Asked, Replied
<1>5. \A i \in 1 .. Len(stdin'.buf) : stdin'.buf[i] = "reply"
  <2>1. /\ Len(stdin.buf) \in Nat
        /\ Len(stdin'.buf) = Len(stdin.buf) + 1
        /\ \A i \in 1 .. Len(stdin.buf) : stdin'.buf[i] = stdin.buf[i]
        /\ stdin'.buf[Len(stdin.buf) + 1] = "reply"
    BY <1>2, <1>3, AppendProperties, AppendIsConcat, LenProperties
  <2> QED
    BY <1>4, <2>1, SMTT(30) DEF RequestsInv, InputInOrder
<1>6. Replied' = Replied + 1 /\ Asked' = Asked
  <2>1. CountOf("reply", stdin.buf \o <<"reply">>)
          = CountOf("reply", stdin.buf) + 1
    BY <1>2, <1>3, CountAfterWrite
  <2> QED
    BY <1>1, <1>2, <2>1 DEF Asked, Replied, CountOf
<1> QED
  BY <1>1, <1>4, <1>5, <1>6, Counted
     DEF RequestsInv, InputInOrder, OneRequestUnderWay, Asked, Replied

LEMMA ReadingRequests ==
    ASSUME CallInv, RequestsInv, GuestReads
    PROVE  RequestsInv'
<1>1. /\ stdin.buf \in Seq(HostLine) /\ stdin.buf # <<>>
      /\ ReadPipe(stdin, 1).buf = Tail(stdin.buf)
  BY TakeOne DEF GuestReads, CallInv, PipesOK, Inner
<1>2. /\ stdin'.buf = Tail(stdin.buf) /\ guest' = "work"
      /\ guest \in {"boot", "await"}
      /\ UNCHANGED <<stdout, rpc>>
  BY <1>1 DEF GuestReads, hostVars
<1>3. /\ Len(stdin.buf) \in Nat \ {0}
      /\ Len(Tail(stdin.buf)) = Len(stdin.buf) - 1
      /\ \A i \in 1 .. Len(Tail(stdin.buf)) :
           Tail(stdin.buf)[i] = stdin.buf[i + 1]
      /\ Head(stdin.buf) = stdin.buf[1]
  BY <1>1, EmptySeq, HeadTailProperties
<1>4. rpc # "send"
  BY <1>1 DEF RequestsInv, InputInOrder
<1>5. /\ Replied' = Replied - (IF Head(stdin.buf) = "reply" THEN 1 ELSE 0)
      /\ Asked' = Asked
  <2>1. CountOf("reply", Tail(stdin.buf))
          = CountOf("reply", stdin.buf)
              - (IF Head(stdin.buf) = "reply" THEN 1 ELSE 0)
    BY <1>1, CountAfterRead
  <2> QED
    BY <1>2, <2>1 DEF Asked, Replied, CountOf
<1>6. CASE guest = "boot"
  <2>1. stdin.buf = <<"request">>
    BY <1>4, <1>6 DEF RequestsInv, InputInOrder
  <2>2. Len(stdin'.buf) = 0 /\ Head(stdin.buf) = "request"
    BY <1>2, <1>3, <2>1
  <2>3. Replied' = Replied
    BY <1>5, <2>2, Counted
  <2> QED
    BY <1>2, <1>4, <1>5, <1>6, <2>2, <2>3
       DEF RequestsInv, InputInOrder, OneRequestUnderWay, Asked, Replied
<1>7. CASE guest = "await"
  <2>1. \A i \in 1 .. Len(stdin.buf) : stdin.buf[i] = "reply"
    BY <1>7 DEF RequestsInv, InputInOrder
  <2>2. /\ Head(stdin.buf) = "reply"
        /\ \A i \in 1 .. Len(stdin'.buf) : stdin'.buf[i] = "reply"
    BY <1>2, <1>3, <2>1
  <2>3. Replied' = Replied - 1 /\ Asked' = Asked
    BY <1>5, <2>2
  <2>4. InputInOrder'
    BY <1>2, <1>4, <2>2 DEF InputInOrder
  <2>5. OneRequestUnderWay'
    <3>1. Asked + Replied + (IF rpc = "handling" THEN 1 ELSE 0) = 1
      BY <1>7 DEF RequestsInv, OneRequestUnderWay, Asked, Replied
    <3>2. Asked' + Replied' + (IF rpc = "handling" THEN 1 ELSE 0) = 0
      BY <2>3, <3>1, Counted
    <3> QED
      BY <1>2, <3>2 DEF OneRequestUnderWay, Asked, Replied
  <2> QED
    BY <2>4, <2>5 DEF RequestsInv
<1> QED
  BY <1>2, <1>6, <1>7

\* What writing a line to stdout adds to the requests.
LEMMA WritingCounted ==
    ASSUME CallInv, NEW text \in GuestLine, FdWrite(1, text)
    PROVE  Asked' = Asked + (IF text = "request" THEN 1 ELSE 0)
<1>1. stdout.buf \in Seq(GuestLine) /\ stdout'.buf = stdout.buf \o <<text>>
  BY FdWriteAppends DEF CallInv, PipesOK, Inner
<1>2. CountOf("request", stdout.buf \o <<text>>)
        = CountOf("request", stdout.buf) + (IF text = "request" THEN 1 ELSE 0)
  BY <1>1, CountAfterWrite
<1> QED
  BY <1>1, <1>2 DEF Asked, CountOf

LEMMA CallingRequests ==
    ASSUME CallInv, RequestsInv, GuestCalls
    PROVE  RequestsInv'
<1>1. /\ guest = "work" /\ guest' = "await" /\ FdWrite(1, "request")
      /\ UNCHANGED <<stdin, rpc>>
  BY DEF GuestCalls
<1>2. Asked' = Asked + 1
  <2>1. "request" \in GuestLine
    BY DEF GuestLine
  <2> QED
    BY <1>1, <2>1, WritingCounted
<1>3. Replied' = Replied
  BY <1>1 DEF Replied
<1> QED
  BY <1>1, <1>2, <1>3, Counted
     DEF RequestsInv, InputInOrder, OneRequestUnderWay, Asked, Replied

LEMMA StepRequestsInv ==
    ASSUME CallInv, RequestsInv, [Next]_vars
    PROVE  RequestsInv'
<1>1. CASE Poll \/ EndPoll \/ Pass \/ ReceiveEof \/ ReceiveYields
  BY <1>1, QuietRequests
     DEF Poll, EndPoll, Pass, ReceiveEof, ReceiveYields, guestVars, Asked
<1>2. CASE Send
  BY <1>2, SendingRequests
<1>3. CASE Receive
  BY <1>3, ReceivingRequests
<1>4. CASE HandlerReplies
  BY <1>4, ReplyingRequests
<1>5. CASE HandlerCompletes \/ TimerFires
  BY <1>5, QuietRequests DEF HandlerCompletes, TimerFires, guestVars, Asked
<1>6. CASE Boot \/ WakesUp \/ StdinYieldEnds \/ Resume
  BY <1>6, QuietRequests
     DEF Boot, WakesUp, StdinYieldEnds, Resume, YieldFor, guestVars, Asked
<1>7. CASE LoggerReads \/ LoggerEof \/ LoggerPends
  BY <1>7, QuietRequests
     DEF LoggerReads, LoggerEof, LoggerPends, guestVars, Asked
<1>8. CASE GuestReads
  BY <1>8, ReadingRequests
<1>9. CASE GuestFindsNoInput \/ GuestPreempted \/ GuestSleeps
  BY <1>9, QuietRequests
     DEF GuestFindsNoInput, GuestPreempted, GuestSleeps, YieldFor, guestVars,
         Asked
<1>10. CASE GuestLogs
  <2>1. stdout' = stdout
    BY <1>10, FdWriteAppends DEF GuestLogs, CallInv
  <2> QED
    BY <1>10, <2>1, QuietRequests DEF GuestLogs, Asked
<1>11. CASE GuestCalls
  BY <1>11, CallingRequests
<1>12. CASE GuestAnswers \/ GuestUtters
  <2>1. PICK text \in GuestLine : FdWrite(1, text) /\ text # "request"
    BY <1>12, CallAssumption DEF GuestAnswers, GuestUtters, GuestLine
  <2>2. Asked' = Asked
    BY <2>1, WritingCounted, Counted
  <2>3. /\ guest' = guest \/ (guest = "work" /\ guest' = "answered")
        /\ UNCHANGED <<stdin, rpc>>
    BY <1>12 DEF GuestAnswers, GuestUtters
  <2> QED
    BY <2>2, <2>3, QuietRequests
<1>13. CASE GuestReturns \/ GuestTraps
  <2>1. stdout'.buf = stdout.buf
    BY <1>13
       DEF GuestReturns, GuestTraps, InstanceEnds, DropPipe, CallInv, PipesOK,
           Inner
  <2>2. Asked' = Asked
    BY <2>1 DEF Asked, CountOf
  <2> QED
    BY <1>13, <2>2, QuietRequests
       DEF GuestReturns, GuestTraps, InstanceEnds, guestVars
<1>14. CASE Terminated \/ UNCHANGED vars
  BY <1>14, QuietRequests DEF Terminated, vars, hostVars, guestVars, Asked
<1> QED
  BY <1>1, <1>2, <1>3, <1>4, <1>5, <1>6, <1>7, <1>8, <1>9, <1>10, <1>11,
     <1>12, <1>13, <1>14
     DEF Next, Host, GuestSlice, GuestProgress, Environment

\* However often the guest calls its host, each request is served and replied
\* to exactly once (process_message, PluginCallback::handle).
THEOREM CallServesOnce == Spec => []OneRequestUnderWay
<1>1. CallInv /\ RequestsInv => OneRequestUnderWay
  BY DEF RequestsInv
<1> QED
  BY <1>1, InitCallInv, StepCallInv, InitRequestsInv, StepRequestsInv, PTL
     DEF Spec
=============================================================================
