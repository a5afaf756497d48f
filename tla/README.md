# A specification of the Wasmi Plugin Framework

This directory specifies the framework in TLA+: the in-memory pipes, one call
of a plugin, the JSON-RPC transport, the loop that runs a guest on slices of
fuel, the guest's standard streams and the lines the host reads from them, and
the dispatch of calls between a host and its plugins. TLC checks
the modules on small instances, TLAPS proves the safety properties for all values
of the constants. `PROJECT.json` is the index: which definition
stands for which lines of the source, which run checks what, which hazards of
the code are covered by which property.

Paths below are relative to `src/crates/`.

## 1. Inventory

A host process loads plugins (WebAssembly modules for `wasm32-wasip1`) and
calls their methods. Each call runs in a fresh instance of the module, which
wasmi interprets on the host's own thread. Host and guest exchange JSON-RPC
lines over the guest's stdin and stdout; the guest logs to stderr. Everything
runs on one thread, natively or in a browser.

| component | source | state | operations |
|---|---|---|---|
| pipe | `wasmi-plugin-hdk/src/wasi/non_blocking_pipe.rs` | buffer, closed flag, waker of the reader | `read`, `poll_read`, `write`, drop of the writer |
| call | `wasmi-plugin-hdk/src/plugin.rs`, `plugin_instance.rs` | three joined futures, three pipes | `Plugin::call`, `spawn_plugin` |
| transport | `wasmi-plugin-pdk/src/transport.rs` | id counter, map of pending senders, locks of reader and writer | `call`, `process_next_line`, `process_message`, `next_line` |
| instance | `wasmi-plugin-hdk/src/wasi/wasmi.rs`, `wasmi-plugin-rt/src/lib.rs` | fuel, the resumable call, the kill signal | `spawn_wasm`, `run_wasm`, `sleep`, `yield_now` |
| WASI context | `wasmi-plugin-hdk/src/wasi/wasi_ctx.rs` | args, environment, three streams, `sleep_until`, `awaiting_stdin` | the WASI calls |
| guest server | `wasmi-plugin-pdk/src/server.rs` | table of methods | `PluginServer::run`, `handle`, `Router` |
| host server | `wasmi-plugin-hdk/src/server.rs`, `host_handler.rs`, `PluginCallback` in `plugin.rs` | table of methods, shared state, the id of the calling plugin | `HostServer::handle`, `PluginCallback::handle` |
| messages | `wasmi-plugin-pdk/src/rpc_message.rs`, `PluginError` in `plugin.rs` | none | encoding and decoding, conversions of errors |
| compiler | `wasmi-plugin-hdk/src/compile.rs` | none | `compile_plugin` |

How they interact:

- `Plugin::call` creates three pipes and an instance, and joins three futures
  in one task: the transport's call (writes stdin, reads stdout by trying
  again after each yield), `run_wasm`, and the logger (reads stderr as an
  async reader, woken by the pipe).
- The guest's WASI calls read and write the pipes synchronously. They cannot
  pend: a call that wants the guest to wait sets the fuel to zero and leaves a
  note in the context (`sleep_until`, `awaiting_stdin`), which `run_wasm`
  reads when wasmi comes back with `OutOfFuel`.
- Inside the guest the same transport runs the other way round: `PluginServer`
  reads one request, a handler may call the host while it works on it, and the
  answer is the last line.
- A host method may itself call plugins, the one that called it included, so
  calls nest: application, plugin, host method, plugin, and so on. Each call
  has an instance and a transport of its own.
- The transport has no pump of its own. Whoever calls reads lines for
  everybody until its own response is there, and serves the peer's requests on
  the way.

What is hard here, and what each component must guarantee:

| component | hard behaviour | what makes it correct |
|---|---|---|
| pipe | two kinds of reader; a close that races a write; who wakes whom | bytes arrive once, in order, before the end; a reader does not sleep on data |
| call | a task that is polled only when woken; futures that end in any order; a guest that ends, traps or lingers at any point | no lost wake-up; the first verdict and all logs arrive; the call returns |
| transport | several callers, one reader; a lock held across a yield; errors and late responses | a call gets its own result, once; every call ends; nothing leaks |
| instance | a guest that cannot be interrupted; a kill signal and timers that race the slices; fuel that does not suffice | sleeping means sleeping; yielding lets others run; a killed plugin stops; every block is run in the end |
| streams | several buffers per call; empty buffers; a look-ahead buffer; partial reads | byte channels, without loss |
| lines | a guest that cuts its output anywhere, also within a character; a reader that is tried again, one that is pending; a last line without an end | every line once, whole and in order |
| servers and messages | calls nested over several plugins; errors that are converted up to four times on their way; plugins that die at any depth | a caller is given what was raised where its call was served; a host method is told who calls it |

`PROJECT.json` lists the hazards one by one, at their lines.

## 2. Plan

Modules, in the order in which they were written.

1. `PipeOps`, `ByteChannel`, `NonBlockingPipe`: everything else rests on them.
2. `CallContract`, `PluginCall`: the composition that users see.
3. `JsonRpcTransport`: the component with the most interleavings.
4. `RunWasm`: fuel, sleep, kill.
5. `WasiStreams`: `fd_read`, `fd_write`, `fd_close`.
6. Proof modules for 1 to 4.
7. `RpcMessages`, `NestedCalls`, `Dispatch`: the servers, the messages and the
   errors, in nested calls; `DispatchProofs` with the refinement.
8. `LineStreams`: the host's two line readers over the guest's outputs.
9. The second halves of `PluginCallProofs` and `JsonRpcTransportProofs`: what is
   delivered, counted and left behind.
10. `SequenceLemmas` and `LineStreamsProofs`: the streams and their lines, with
    the folds they are made of.

What would come next:

11. `PluginCall` with the `run_wasm` of `RunWasm` in place of its abstraction
    (sleep notes, kill signal), shown to implement the present one.
12. `clock_time_get` with a clock that can be set back, and the deadlines a
    guest computes from it.

The layout of memory that `args_get` and `environ_get` produce is not on the
list: `spawn_plugin` never adds an argument or a variable.

## 3. The modules

### PipeOps, NonBlockingPipe, ByteChannel

`PipeOps` has the operations of the pipe as functions on the record behind its
mutex. No operation awaits with the lock held, so each is one step. The waker
is a boolean, because a pipe has one reader; `DropPipe` keeps the order of the
three statements of `Drop`, which is the point of it. `NonBlockingPipe` is one
pipe with a synchronous or an asynchronous reader and a task that is scheduled,
parked or done; `SiblingWake` is the reader being polled because another
future of its task was woken. `ByteChannel` is the abstract specification: a
sequence sent, a prefix received, an end after the last item.

### PluginCall, CallContract

One call. The variable `turn` walks through the futures in the order of
`join!`; a step of a future either stays in its turn or ends it; the task is
polled again only if `woken` was set since the last poll began. The futures
are `rpc` (the transport's `call` with one caller), `instance` (the awaits of
`run_wasm`) and `stderr`. Items of the pipes are whole lines. The guest is any
program on top of `PluginServer`: it reads a request, logs, sleeps, calls the
host, answers and returns; and at any point, before it reads its request and
after it has answered included, it utters stray or unparsable lines on stdout,
traps, or is preempted. A host handler completes at any time.
`CallContract` states what the caller may rely on, with neither pipes nor
polls.

The order of handlers and errors inside `process_message` is reduced to what a
line makes of the call (`Settles`). How bytes become lines is the matter of
`LineStreams`, how lines become messages that of `RpcMessages` and `Dispatch`.

### JsonRpcTransport

Several callers on one transport. `running` is the caller the executor is
running; it changes hands only at an await that is not ready. One action per
stretch of code between two awaits or two accesses to shared state: `Call`
(id, sender, request), `Check` (`try_recv`), `Lock`, `ReadLine`, `ReadEof`,
`ReadWouldBlock`, `YieldEnds` (the lock is held throughout), `ProcessResponse`
and so on. The mutexes of the map and the writer are never held across an await
and never contended and have no state. The lock of the reader is taken by whoever
asks first when it is free, also before a waiter that was woken, as the mutex
of the `futures` crate does.

The result in a response is the id of the request it was computed from, so
that a mix-up is visible. The peer is a transport too: it answers requests in
order, one at a time.

### RunWasm

`phase` is where `run_wasm` is. wasmi is external: it charges a block of
straight-line code at its entry, so a guest without fuel goes on to the end of
the block and may make more WASI calls there. That is why `sched_yield` and
`poll_oneoff` do not take effect at once, and what makes `CallsPerBlock`
matter. `Instant` and `SystemTime` are one clock; it ticks at any moment.
`Platform` chooses the `sleep()` of `wasmi-plugin-rt`. The kill signal may be
lowered at any time by whoever holds it, as the signature of `spawn_wasm` allows;
`Plugin::call` does so only when the instance has ended.

Of the guest's WASI calls the module has the three that steer the loop, and
which of them it makes, and when, is its own affair.

Two histories make the properties independent of what they are about.
`promised` has the times for which the guest asked in so many words, in numbers
without a width, and `Reached` says that such a time has come or that the clock
is at its end; so a deadline that wrapped around would show. `owes` is set when
the guest gives up its slice and taken back by nothing but the end of a yield of
`run_wasm`; so a missing yield would show as well as fuel that is left.

### WasiStreams

The three streams of the context: stdin as a pipe behind a `BufReader`
(`lookahead`), stdout and stderr as writers of pipes. A call of the guest is
one step, the loop over the buffers a fold. The bypass of `BufReader` for
large reads is modelled. Buffers may be empty, in which case a read returns
nothing and ends the loop as the end of the stream does; pointers are valid.

### LineStreams

`WasiStreams` together with the two readers of the guest's outputs on the host.
The guest writes whatever it likes in whatever pieces, as far as UTF-8 and
lines are concerned: the bytes are a newline and the two bytes of a character.
`ReadLine(1)` is one call of `read_line` in `next_line` of the transport. When
the pipe would block, the `String` keeps what was read and the next call goes
on with it; but `read_line` of the standard library takes back from the
`String` what is not UTF-8 by itself, although it has left the pipe. The
variable `torn` records that the guest once left off within a character, which
`StdoutLines` excepts: `println!` and the transport of a Rust guest write whole
characters. `ReadLine(2)` is a poll of the logger's `read_line`, which has its
own buffer while it is pending and checks the whole line. Bytes that a
`BufReader` of the host holds beyond the line count as still in the pipe.

### RpcMessages, Dispatch, NestedCalls

`RpcMessages` has the messages as records of the fields they are told apart
by, the errors with their codes, and the two directions of their encoding.
Parameters either fit the type of the handler or do not; a value is the number
of the call that computed it, so that a mix-up is visible. The text of an error
is that of its `Display`, or a short name for it.

`Dispatch` is a stack of activations, `frames`: the application at the bottom,
then a guest, a host method it calls, a guest that this one calls. Everyone
waits for the one on top, so one line is under way at a time, `line`. `CallPlugin` and `CallHost`
write the request under the id counter of the caller's transport, `Serve` is
the router (method not found, parameters that do not fit, or the handler
starts), `HandlerEnds` writes the answer, `Deliver` reads it and drops a
response under an id it does not wait for. `SpawnFails` is a plugin that cannot
be started. `GuestDies` may strike at any depth and at any time before the
answer: the activations above it go on and their reply goes to nobody
(`DeliverToNobody`), the caller below sees the end of stdout (`DeliverEof`).
`Told` is the plugin id that `PluginCallback` captured when the call was made,
and `Handling` the activation with what `HostServer::handle` puts beside its state.

`NestedCalls` is the promise without messages, ids and instances: activations
form a stack, host and guest alternate, a host method knows its caller, and
what an activation raises is what its caller is given. `Dispatch` implements
it with `Activations(frames)`, the stack without activations whose handler is
not looked up yet, and `Meant`, which reads the death of an instance as the
internal error that its caller sees.

## 4. What the runs show

| run | module | checks | states |
|---|---|---|---|
| `pipe` | MCNonBlockingPipe | types, no byte lost, end after last byte, no sleep on data, every byte arrives, a running reader sees the close, implements `ByteChannel` | 671 |
| `call` | PluginCall | types, no lost wake-up, first verdict and logs arrive, requests served one for one, implements `CallContract`, the call returns | 108 308 |
| `transport` | MCJsonRpcTransport | two callers, a peer that calls back, all faults: own results only, `Ok` only from the peer, no more failures than error responses, answers neither lost nor duplicated, nothing left pending, the lock excludes, two ways of hanging at most | 292 550 |
| `instance` | MCRunWasm | types, last event due, yields kept, killed plugin stops soon and ends, every block is run | 35 237 |
| `streams` | MCWasiStreams | types, no input lost, truth of `stdin_available`, the lines of stdout and of the logger are those that were written, stdin, stdout and stderr implement `ByteChannel` | 759 114 |
| `dispatch` | MCDispatch | types, a caller is given what was raised, implements `NestedCalls`, the application gets back control | 190 391 |

For each property there is an operator whose comment begins with "Faulty": the
definition it stands before, changed by a plausible slip. With that definition
the property is violated under the same configuration, which shows that the
run can see the fault.

Runs that end in a counterexample, each a place where the code does not do
what it is there for or what a comment says:

| run | what it shows |
|---|---|
| `pipe_close` | `Drop` of the writer clears the waker before it takes it; a parked reader is never woken. The run `call` and the theorem `CallWakeable` show why `Plugin::call` is not affected: the instance is polled before the logger in the same poll. |
| `call_garbage` | After an unparsable line the transport is done, a guest that waits for its host waits for ever, and `join!` with it. The comment says the call runs until one of the three completes. |
| `transport_barging` | A caller whose response was delivered while it waited for the reader's lock reads on without looking at its channel. |
| `transport_errors` | An error response fails the call that read it, not the one it answers. |
| `instance_wasm32` | The browser's timer is given whole milliseconds modulo 2^32. |
| `streams_iovecs` | A read into several buffers loses the first ones if a later one would block. |

Some properties hold on part of the behaviours only, and say which.

- `CallReturns`: a call returns, or its guest outlives the transport
  (`Orphaned`): it waits for a reply although the transport is done, as in
  `call_garbage`, or goes on after its answer. `join!` waits for the guest in both
  cases, against the comment at it, and the kill signal is lowered only behind
  `join!`. That there is no third way to hang is the result.
- `CallsEndOrHang`: a call of the transport ends, or is `Stranded` (its response
  is in its own channel, where it does not look before it has read another
  line), or is `Robbed` (its answer was an error response, which another call
  returned as its own). The two are the hangs that `transport_barging` and
  `transport_errors` lead to; that there is no third, whatever the peer does,
  is the result. `AnswerUnderWay` holds until the peer sends an error response,
  `NothingLeftPending` until a call fails. `Plugin::call` uses a transport for
  one call only, so the host meets neither hang; a guest that makes several
  calls at once may.
- `InputIntact`, `InputIsChannel`: for reads into one buffer, which may be
  empty; `streams_iovecs` has two. With several buffers bytes may be lost, but
  none is repeated or moved (`InputInOrder`), and an empty buffer before others
  gives a false end; without empty buffers the end is never false
  (`EndMeansClosed`). The last two are theorems.
- `StdoutLines`: for guests whose calls do not end within a character. After
  one that does, the transport may lose a part of the line and hand on the rest
  as if it were the line, or fail; it repeats and moves nothing then either
  (theorem `StreamsLinesInOrder`). A last line
  without a newline is handed on or dropped, depending on whether the end was
  there when it was read; the transport of a guest ends every line.
- `LogLines` ends with the first line that is no UTF-8: the logger stops there.
- `LastEventDue`: until the clock is at its last value, where no later time can
  be told from it; a timeout that would reach beyond saturates there. A guest
  that polls twice before its fuel runs out (two calls
  in one block) overwrites `sleep_until`, and an event of the first poll is
  reported although it is not due. With one call per block every event is due
  (`EveryEventDue`, proved as `RunSleepsLongEnoughForAll`). A clock that is set
  back is not considered.
- `ErrorsAreThePeers` counts: no more calls fail for an error of the peer than
  it sent errors. Whose error it was is `ErrorIsThePeers`, which is false.
- `NothingLeftPending` says nothing of the senders of calls that failed: they
  stay in the map for as long as the transport lives.
- `KilledStopsSoon` allows one resumption: the signal is read before the awaits
  of the loop, so that a plugin killed during a sleep or a yield gets one more
  slice.

### Bounds

- Two bytes are enough to see a swap, a loss or a repetition; writes of one
  and two, reads of one, two and three bytes give short, exact and partial
  reads, in a pipe of up to four bytes over its life.
- Two log lines, two requests, one sleep and two utterances let every future of
  a call end first, last, or in between, and let lines of all kinds queue up
  behind each other.
- Two callers and three calls are the least with which a caller waits for the
  lock, another delivers its response and goes on calling. One request of the
  peer is enough to have a handler run while calls are open.
- A fuel limit of two with blocks that cost one or three gives blocks that fit
  twice and blocks that do not fit; timeouts of nothing, one tick and the
  largest value give events in the past, soon, and saturated. Two calls per
  block are the least with which a deadline is overwritten, two subscriptions
  the least among which there is an earliest.
- A look-ahead buffer of two bytes with buffers of none, one and three takes
  all ways through `BufReader::read`. Four bytes altogether, in any of the three
  streams, overfill the look-ahead, make two lines, or a line whose character
  is cut; the pieces (a newline, the halves of a character, the whole, a half
  with a newline) and writes of two buffers cut and join lines in every way.
- Four calls nest as deep as application, plugin, host method, plugin, host
  method, which is the least where the innermost caller of a host method is
  not the outermost. One method is missing in one plugin only, and one error
  of a handler has the text of another kind of error.

Deadlock is checked where the system cannot stop (`PluginCall`, `RunWasm`,
which have an explicit final step, and `Dispatch`, where whoever waits without
a line under way may wait on). The pipe, the transport and the streams
may be left alone by their users, so their runs turn the check off; how
callers can get stuck is `CallsEndOrHang`.

### Fairness

- Pipe: a reader that can run does (an executor polls every scheduled task, a
  synchronous reader tries again after a yield). Nothing of the writer.
- Call: every poll runs to its end and a woken task is polled (weak); handlers
  complete and timers fire (weak); a guest that could move on in infinitely many
  slices does (strong), because each slice has at least the fuel for the block
  it stands at (`BlocksRun`). Neither that it traps nor that it ends after its
  answer is assumed. `call_garbage` assumes the latter too (`EndingSpec`), so
  that what it shows is not the guest that goes on.
- Transport: each caller that can go on does (weak); the peer reads and answers
  as long as it is there (weak). Nobody has to call, close or send.
- Instance: the future is polled (weak), a block is left in the end (weak),
  time passes (weak). The guest need not return, nobody need kill it.
- Dispatch: a line that was written is read and served, and so is the end of a
  stream (weak; `AllBytesArrive` and `CallReturns` are the ground for it);
  handlers return in the end (weak). Nobody need call.

## 5. What is proved

All theorems but two lemmas on messages are of the form `Spec => []Inv`, or
`Spec => ` an abstract specification, for
every value of the constants that the modules' assumptions allow: sets of bytes,
callers and plugins of any size, any tables of methods, all bounds, all fuel
limits, calls nested to any depth. The assumptions only give
types (the bounds are naturals, reads of the bare pipe are not empty, `None` is
none of the values, a newline is not one of the bytes of a character) and, for
the two theorems about sleeping, name the platform. `StreamsEndMeansClosed` is
for guests that pass no empty buffer, and the first two theorems about stdin say
`MaxReads =< 1`, which is no bound on the state but a kind of guest, one that
reads into one buffer at a time; `streams_iovecs` shows that these two are
false without.

| module | theorem | states |
|---|---|---|
| NonBlockingPipeProofs | `PipeTyped`, `PipeKeepsBytes`, `PipeEndsAfterLastByte`, `PipeNeverParksOnData` | the invariants of `pipe` |
| NonBlockingPipeProofs | `PipeImplementsChannel` | every step of the pipe is a step of `ByteChannel` or a stutter |
| PluginCallProofs | `CallTyped`, `CallWakeable` | types; no lost wake-up |
| PluginCallProofs | `CallVerdict`, `CallLogs` | the guest's first verdict and all its logs arrive |
| PluginCallProofs | `CallServesOnce` | each request of a guest is in one place, and answered once |
| PluginCallProofs | `CallImplementsContract` | every step of `PluginCall` is a step of `CallContract` or a stutter |
| JsonRpcTransportProofs | `TransportTyped`, `TransportOwnResult`, `TransportOkIsThePeers`, `TransportReaderLocked` | types; own results; truthful `Ok`; exclusion |
| JsonRpcTransportProofs | `TransportNothingLeftPending` | until a call fails, no sender outlives its call |
| JsonRpcTransportProofs | `TransportErrorsAreThePeers` | no more calls fail than the peer sent errors |
| JsonRpcTransportProofs | `TransportAnswerUnderWay` | until the peer sends an error, no answer is lost or doubled |
| RunWasmProofs | `RunTyped`, `RunYields`, `RunStopsWhenKilled` | types; yields kept; one slice at most after a kill |
| RunWasmProofs | `RunSleepsLongEnough` | last event due, or the clock at its end, on native platforms |
| RunWasmProofs | `RunSleepsLongEnoughForAll` | every event due (`EveryEventDue`, which no run checks), on native platforms with at most one call per block |
| LineStreamsProofs | `StreamsTyped`, `StreamsAvailable` | types; `stdin_available` tells the truth |
| LineStreamsProofs | `StdoutLinesWhole`, `LogLinesWhole` | the lines of stdout and stderr are handed on whole, once and in order |
| LineStreamsProofs | `StreamsOutputsAreChannels` | stdout and stderr each implement `ByteChannel` |
| LineStreamsProofs | `StreamsInputIntact`, `StreamsInputIsChannel` | for reads into one buffer: stdin loses no byte and implements `ByteChannel` |
| LineStreamsProofs | `StreamsInputInOrder` | for reads into any number of buffers: what the guest is told of is input in its order, each byte once (`InputInOrder`, which no run checks) |
| LineStreamsProofs | `StreamsEndMeansClosed` | for reads into any number of buffers, none of them empty: the guest is told of the end of stdin only when the host has closed it (`EndMeansClosed`, which no run checks) |
| LineStreamsProofs | `StreamsLinesInOrder` | wherever writes are cut: what the host hands on of an output are bytes of it in order, each once (`LinesInOrder`, which no run checks) |
| DispatchProofs | `ErrorsSurvive`, `KindsAreTold` | an error read is the error written; a message is read as the kind it is |
| DispatchProofs | `DispatchTyped`, `DispatchAsRaised` | types; a caller is given what was raised |
| DispatchProofs | `DispatchImplementsNested` | every step of `Dispatch` is a step of `NestedCalls` or a stutter |

The arguments:

- **Pipe** (`PipeInv`). The properties are inductive together once one knows
  which states a reader's task can be in (`TaskStates`): an async reader that
  was told of the end does not poll again. `PipeOpsProofs` has the lemma
  behind it, that a read splits the buffer into what it takes and what it
  leaves. The refinement uses that everything received is a prefix of
  everything sent, which `NoByteLost` gives.
- **Call** (`CallInv`). Each future makes a promise when its turn is over: the
  transport has asked to be woken or awaits a handler, the instance has asked
  to be woken or awaits a timer, the logger, polled last, is done if the
  instance is. The promises hold at every point of the poll after the turn, so
  at its end all three hold. The logger's is the one that depends on the order
  in `join!`; it makes up for the wake-up that `Drop` forgets.
- **Delivery of a call** (`VerdictInv`, `LogsInv`, `RequestsInv`). While the
  transport reads on, the first line in stdout that settles the call is the
  guest's verdict, if the guest has one; while the logger reads, what it logged
  followed by what is in stderr is what the guest logged. Both pipes are seen to
  end only after they were emptied. The requests of the guest are counted in the
  three places where they can be; the refinement follows step by step.
- **Transport** (`TransportInv`). That a slot holds its own id needs every
  response on its way to be truthful; that a response stays truthful needs that
  the peer answers a call once, for which requests on their way differ, were
  made, and are not answered yet. The rest is where each caller is.
  `CallsInv` adds that no two callers are in one call and that the counter is
  ahead of all of them, so that a sender left in the map belongs to a call that
  failed. `ErrorsCounted` and `Traced` count lines: an error is on its way, in
  the hands of a caller or returned, and the answer of a call is a request, a
  response on its way, in the hands of a caller, or delivered; each step moves
  one of them to the next place. `SequenceLemmas` has the lemmas on how many
  lines of a kind a queue holds after something is appended or taken.
- **Instance** (`FuelInv`, `KillInv`, `SleepInv`). A guest that owes its slice
  has no fuel, so it cannot enter a block, and the fuel it is given again reaches
  it only by way of the courtesy yield, at whose end it owes nothing.
  The note in `sleep_until` is the time of the event reported last, or the end of
  the clock, until the host has slept for it; a poll at the end of the clock
  leaves no note. The signal is read between any two resumptions.
- **Dispatch** (`DispatchInv`). Host and guests alternate on the stack, all
  activations below the top await or are dead, and no two serve the same call.
  While the top is done, the line under way is the reply to its request, with
  what it raised; and the request's id is the one its caller waits for, because
  the counter has not moved since. The two lemmas on messages do the rest.
  For the refinement one also needs that a guest's frame names its plugin, so
  that the plugin a host method is told is that of the activation below it.

- **Streams** (`OutputInv`, `InputInv`). What the guest wrote is what the host has
  read followed by what the pipe holds, and its writer is there as long as the
  descriptor is open. The input is followed through `Ahead`, what the BufReader
  and the pipe hold: a read takes the next bytes of it, `fill_buf` moves them,
  and it would block only when there are none. The loop of `fd_read` keeps the
  bytes it has gathered followed by those ahead (`LoopKeepsBytes`), for any
  number of buffers; what loses bytes is that `Again` throws away the gathered
  ones. With one buffer there are none then. With several, what the guest is told
  of is still a part of the input in its order (`PassedInv`): bytes may be
  lost, none is repeated or moved. The first buffer with room takes a byte, would
  block, or finds the end, and what is gathered does not shrink afterwards
  (`LoopTakesOrEnds`): a loop that comes out with nothing and without Again was at
  the end, unless a buffer was empty.
- **Lines** (`LinesInv`, `StdoutInv`, `LogInv`). The lines handed on followed by
  the part that is kept are what was read. That a line is whole needs that the
  part has no newline, that a line without one was the last the pipe had, and
  that its descriptor was closed then and stays closed. That the transport does
  not fail needs that a text cut after a newline is two texts, and that `torn`
  notes every call that ends elsewhere in a character. That the logger fails only
  at what is no text *in the end* needs that nothing written later can complete
  it: it fails at a newline, or when nothing can be written any more. Without
  `torn`, what read_line takes is appended to what was kept or left out, and
  either keeps the order (`LinesInOrder`).
- **Folds.** `FoldLeft` and `FlattenSeq` are the last values of functions that are
  defined step by step. `LoopExists` and `FlatteningExists` show by induction that
  there are such functions, so that the definitions mean something for every
  length, and what each step keeps is then kept by induction again. The
  library's induction rules take an operator as a parameter, which the provers
  cannot instantiate; `Induction` in `SequenceLemmas` is about a set of numbers
  instead and rests on the well-foundedness of the naturals.

### What is only model-checked

Liveness, which depends on fairness: `AllBytesArrive`,
`CloseSeenByRunningReader`, `CallReturns`, `CallsEndOrHang`, `KillEnds`,
`BlocksRun`, `AppGetsBack`. Every invariant, and every abstract specification
that a run checks, is proved as well.

## 6. What is not modelled

- The characters of a message: quoting and numbers are `serde_json`'s, and a
  message that `serde_json` cannot write (a map whose keys are no strings) is a
  guest that traps, or a panic of the host where the host's router does it.
- `args_*`, `environ_*`: the lists are empty in every instance.
  `clock_time_get`, `random_get`, `fd_fdstat_get`: queries of the system
  without state; a `SystemTime` that is set back, which moves the deadlines a
  guest computes, is not considered. `proc_exit` and fatal signals are the
  guest's trap.
- Memory that is not there: guests that pass bad pointers, that fill a pipe
  without limit, or that call each other through the host for ever. Neither the
  buffer of a pipe nor the depth of calls has a bound in the code.
- A module with a start function, which `instantiate_and_start` would run
  before the fuel is set.
- wasmi, tokio, `futures`, `serde_json` and `BufReader` are external; the
  modules model what the code relies on.
- `compile_plugin`, the traits, the test plugin and the benchmark have no
  behaviour of their own here.
