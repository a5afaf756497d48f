-------------------------------- MODULE RunWasm --------------------------------
(***************************************************************************)
(* The life of one plugin instance: run_wasm and spawn_wasm of             *)
(* crates/wasmi-plugin-hdk/src/wasi/wasmi.rs, with the WASI calls of       *)
(* wasi_ctx.rs that steer it (sched_yield, poll_oneoff, and fd_read when   *)
(* there is no input).                                                     *)
(*                                                                         *)
(* wasmi runs the guest on the host's stack and cannot be interrupted.     *)
(* The host gives it a little fuel, regains control when the fuel is used  *)
(* up, sleeps and yields to the executor if it has to, and resumes it with *)
(* new fuel.  A WASI call cannot pend either: one that wants the guest to  *)
(* wait leaves a note in WasiCtx and takes the fuel away.                  *)
(*                                                                         *)
(* wasmi charges for a block of straight-line code when the guest enters   *)
(* it, never inside it.  A guest without fuel therefore goes on to the end *)
(* of the block it is in, and may make further calls there.                *)
(*                                                                         *)
(* Instant and SystemTime are one clock here, which ticks at any moment.   *)
(***************************************************************************)
EXTENDS Naturals, Sequences, FiniteSets

CONSTANTS MaxFuel,        \* max_fuel
          Costs,          \* what blocks of the guest cost
          CallsPerBlock,  \* bound: WASI calls the guest makes in one block
          MaxSubs,        \* bound: subscriptions of one poll_oneoff
          Timeouts,       \* the timeouts the guest subscribes to
          MaxTime,        \* bound: the clock's last value, the largest u64
          MaxInput,       \* bound: lines the host writes to the guest's stdin
          Platform,       \* "native" or "wasm32": which sleep() is compiled
          Ms, U32,        \* clock ticks per millisecond, and 2^32
          None            \* no time

ASSUME RunAssumption ==
    /\ MaxFuel \in Nat
    /\ Costs \subseteq Nat \ {0}
    /\ CallsPerBlock \in Nat /\ MaxSubs \in Nat
    /\ MaxTime \in Nat /\ MaxInput \in Nat
    /\ Timeouts \subseteq 0 .. MaxTime
    /\ Platform \in {"native", "wasm32"}
    /\ Ms \in Nat \ {0} /\ U32 \in Nat \ {0}
    /\ None \notin Nat

Time == 0 .. MaxTime

\* A subscription of poll_oneoff: to the realtime or monotonic clock, or to
\* something that is not supported.
Subscription == [clock : BOOLEAN, timeout : Timeouts, absolute : BOOLEAN]

VARIABLES
    phase,          \* where run_wasm is: "new", "guest" (the guest runs),
                    \* "outOfFuel", its awaits "sleeping", "awaitStdin" and
                    \* "courtesy", or "ended"
    fuel,           \* what is left in the store
    isRunning,      \* the kill signal
    sleepUntil,     \* WasiCtx.sleep_until
    awaitingStdin,  \* WasiCtx.awaiting_stdin
    wake,           \* when the timer of sleep(dur) fires, or None
    block,          \* the cost of the block the guest enters next or is in
    inBlock,        \* the guest has paid for the block and is in it
    calls,          \* the WASI calls it made there
    now,            \* the clock
    input,          \* lines that wait on stdin
    unsent,         \* bound: lines the host has not written yet
    promised,       \* history: the times in the future for which the block
                    \* last entered asked poll_oneoff, of the events that
                    \* were reported to it as reached
    owes,           \* history: the guest gave its slice up, and run_wasm has
                    \* not yielded to the other tasks since
    resumed         \* history: how often the guest was resumed since it was
                    \* killed

ctxVars == <<sleepUntil, awaitingStdin>>
guestVars == <<block, inBlock, calls>>
envVars == <<isRunning, now, input, unsent>>
vars == <<phase, fuel, wake, ctxVars, guestVars, envVars, promised, owes,
          resumed>>

FlagsOK == /\ isRunning \in BOOLEAN
           /\ awaitingStdin \in BOOLEAN
           /\ inBlock \in BOOLEAN
           /\ owes \in BOOLEAN

TimesOK == /\ now \in Time
           /\ sleepUntil \in Time \cup {None}
           /\ wake \in Nat \cup {None}
           /\ promised \in Seq(Nat)

CountsOK == /\ phase \in {"new", "guest", "outOfFuel", "sleeping",
                          "awaitStdin", "courtesy", "ended"}
            /\ fuel \in Nat
            /\ block \in Costs
            /\ calls \in 0 .. CallsPerBlock
            /\ input \in Nat /\ unsent \in Nat
            /\ resumed \in 0 .. 2

TypeOK == FlagsOK /\ TimesOK /\ CountsOK

Init == /\ phase = "new"
        /\ fuel = 0
        /\ isRunning = TRUE
        /\ sleepUntil = None /\ awaitingStdin = FALSE
        /\ wake = None
        /\ block \in Costs /\ inBlock = FALSE /\ calls = 0
        /\ now = 0
        /\ input = 0 /\ unsent = MaxInput
        /\ promised = <<>> /\ owes = FALSE
        /\ resumed = 0

-----------------------------------------------------------------------------
(***************************************************************************)
(* The guest, as wasmi runs it.                                            *)
(***************************************************************************)
AtBlock == phase = "guest" /\ ~inBlock

EnterBlock == /\ AtBlock
              /\ block =< fuel
              /\ fuel' = fuel - block
              /\ inBlock' = TRUE
              /\ calls' = 0
              /\ promised' = <<>>
              /\ UNCHANGED <<phase, wake, ctxVars, block, envVars, owes,
                             resumed>>

LeaveBlock == /\ phase = "guest"
              /\ inBlock
              /\ block' \in Costs
              /\ inBlock' = FALSE
              /\ UNCHANGED <<phase, fuel, wake, ctxVars, calls, envVars,
                             promised, owes, resumed>>

\* wasmi returns to the host: OutOfFuel, with the cost as required_fuel().
RunsOutOfFuel == /\ AtBlock
                 /\ fuel < block
                 /\ phase' = "outOfFuel"
                 /\ UNCHANGED <<fuel, wake, ctxVars, guestVars, envVars,
                                promised, owes, resumed>>

\* The guest makes a WASI call that leaves all else to the call.
Calls == /\ phase = "guest"
         /\ inBlock
         /\ calls < CallsPerBlock
         /\ calls' = calls + 1
         /\ UNCHANGED <<phase, wake, block, inBlock, isRunning, now, unsent,
                        resumed>>

-----------------------------------------------------------------------------
(***************************************************************************)
(* The WASI calls.                                                         *)
(***************************************************************************)
\* Faulty: the fuel is left as it is.
YieldsKeepingFuel == /\ owes' = TRUE
                     /\ UNCHANGED fuel

\* sched_yield, also as part of fd_read; and the end of poll_oneoff.
Yields == /\ owes' = TRUE
          /\ fuel' = 0

SchedYield == /\ Calls
              /\ Yields
              /\ UNCHANGED <<ctxVars, input, promised>>

\* fd_read takes what there is.  What it reads is of no matter here.
FdRead == /\ Calls
          /\ \/ /\ input > 0
                /\ input' = input - 1
                /\ UNCHANGED <<fuel, owes, awaitingStdin>>
             \/ /\ input = 0
                /\ awaitingStdin' = TRUE
                /\ Yields
                /\ UNCHANGED input
          /\ UNCHANGED <<sleepUntil, promised>>

\* Faulty: now_ns.wrapping_add(timeout).
DeadlineWraps(sub) ==
    IF sub.absolute THEN sub.timeout
    ELSE (now + sub.timeout) % (MaxTime + 1)

\* Relative timeouts become absolute: now_ns.saturating_add(timeout).
Deadline(sub) ==
    IF sub.absolute THEN sub.timeout
    ELSE IF now + sub.timeout < MaxTime THEN now + sub.timeout ELSE MaxTime

ClockSubs(subs) == {s \in subs : s.clock}

\* Faulty: the time since the epoch is waited for, not the rest of it.
WaitDurationSinceEpoch(deadline) == deadline

\* earliest_deadline_ns - now_ns.
WaitDuration(deadline) == deadline - now

\* The future deadline trap: the guest is told that the event has happened,
\* and the host is to see to it that it has when the guest goes on.
SleepFor(deadline) == /\ sleepUntil' = now + WaitDuration(deadline)
                      /\ Yields

\* History: the time the guest asked for, by arithmetic that has no width.
Due(sub) == IF sub.absolute THEN sub.timeout ELSE now + sub.timeout

Reports(sub) ==
    promised' = IF Due(sub) > now THEN Append(promised, Due(sub)) ELSE promised

\* poll_oneoff: the earliest clock event is reported at once, and waited for
\* afterwards if it lies in the future.  Without any it is an error.
PollOneoff(subs) ==
    /\ Calls
    /\ \/ /\ ClockSubs(subs) = {}
          /\ UNCHANGED <<sleepUntil, fuel, promised, owes>>
       \/ \E sub \in ClockSubs(subs) :
            /\ \A s \in ClockSubs(subs) : Deadline(sub) =< Deadline(s)
            /\ Reports(sub)
            /\ \/ Deadline(sub) > now /\ SleepFor(Deadline(sub))
               \/ Deadline(sub) =< now /\ UNCHANGED <<sleepUntil, fuel, owes>>
    /\ UNCHANGED <<awaitingStdin, input>>

-----------------------------------------------------------------------------
(***************************************************************************)
(* run_wasm.                                                               *)
(***************************************************************************)
\* set_fuel(0) and call_resumable: the guest stands before its first block.
Begin == /\ phase = "new"
         /\ phase' = "guest"
         /\ fuel' = 0
         /\ UNCHANGED <<wake, ctxVars, guestVars, envVars, promised, owes,
                        resumed>>

\* The future of spawn_wasm is over: the signal says so too.
Ends == /\ phase' = "ended"
        /\ isRunning' = FALSE
        /\ inBlock' = FALSE
        /\ UNCHANGED <<fuel, wake, ctxVars, block, calls, now, input, unsent,
                       promised, owes, resumed>>

\* ResumableCall::Finished, a HostTrap, or an error of resume.
GuestEnds == phase = "guest" /\ inBlock /\ Ends

\* Faulty: the signal is never looked at.
GoesOnAlways == TRUE

\* Faulty: it is not looked at when the guest is to sleep.
GoesOnToSleep == isRunning \/ sleepUntil # None

\* is_running.load().
GoesOn == isRunning

StopsKilled == phase = "outOfFuel" /\ ~GoesOn /\ Ends

\* Faulty: what the interrupted block requires is not looked at.
TopUpIsMaxFuel == MaxFuel

\* required.max(max_fuel).
TopUp == IF block > MaxFuel THEN block ELSE MaxFuel

\* Faulty: neither of the two yields is made.
AfterSleepAtOnce == /\ sleepUntil' = None
                    /\ phase' = "guest"

\* What follows the sleep, up to the next await: a yield for stdin, if the
\* guest waits for it and stdin_available() is false, or the courtesy yield.
AfterSleep ==
    /\ sleepUntil' = None
    /\ phase' = IF awaitingStdin /\ input = 0 THEN "awaitStdin" ELSE "courtesy"

\* sleep(dur) of wasmi-plugin-rt.  tokio sleeps no shorter than dur; the timer
\* of the browser takes a u32 of milliseconds.
TimerFor(dur) == IF Platform = "native" THEN dur
                 ELSE ((dur \div Ms) % U32) * Ms

\* Faulty: the deadline is looked at only when the guest waits for no input.
HasToSleepUnlessStarved ==
    sleepUntil # None /\ sleepUntil > now /\ ~awaitingStdin

HasToSleep == sleepUntil # None /\ sleepUntil > now

\* OutOfFuel, up to the first await.
Refuels ==
    /\ phase = "outOfFuel"
    /\ GoesOn
    /\ fuel' = TopUp
    /\ \/ /\ HasToSleep
          /\ phase' = "sleeping"
          /\ wake' = now + TimerFor(sleepUntil - now)
          /\ UNCHANGED sleepUntil
       \/ /\ ~HasToSleep
          /\ AfterSleep
          /\ UNCHANGED wake
    /\ UNCHANGED <<awaitingStdin, guestVars, envVars, promised, owes, resumed>>

SleepEnds == /\ phase = "sleeping"
             /\ wake =< now
             /\ wake' = None
             /\ AfterSleep
             /\ UNCHANGED <<fuel, awaitingStdin, guestVars, envVars, promised,
                            owes, resumed>>

\* yield_now() comes back when the executor has polled the other tasks, and
\* join! the other futures of this one.
StdinYieldEnds == /\ phase = "awaitStdin"
                  /\ awaitingStdin' = FALSE
                  /\ phase' = "courtesy"
                  /\ owes' = FALSE
                  /\ UNCHANGED <<fuel, wake, sleepUntil, guestVars, envVars,
                                 promised, resumed>>

\* The courtesy yield is over: the guest is resumed, killed or not.  What it
\* was doing when the fuel ran out, entering a block, it does again.
Resume == /\ phase = "courtesy"
          /\ phase' = "guest"
          /\ owes' = FALSE
          /\ resumed' = IF isRunning \/ resumed = 2 THEN resumed
                        ELSE resumed + 1
          /\ UNCHANGED <<fuel, wake, ctxVars, guestVars, envVars, promised>>

-----------------------------------------------------------------------------
(***************************************************************************)
(* The surroundings.                                                       *)
(***************************************************************************)
\* Whoever holds the signal takes it down.
Kill == /\ isRunning
        /\ isRunning' = FALSE
        /\ UNCHANGED <<phase, fuel, wake, ctxVars, guestVars, now, input,
                       unsent, promised, owes, resumed>>

Tick == /\ now < MaxTime
        /\ now' = now + 1
        /\ UNCHANGED <<phase, fuel, wake, ctxVars, guestVars, isRunning, input,
                       unsent, promised, owes, resumed>>

HostWrites == /\ unsent > 0
              /\ unsent' = unsent - 1
              /\ input' = input + 1
              /\ UNCHANGED <<phase, fuel, wake, ctxVars, guestVars, isRunning,
                             now, promised, owes, resumed>>

Ended == phase = "ended" /\ UNCHANGED vars

-----------------------------------------------------------------------------
\* The subscriptions that one poll_oneoff may carry.
Polls == {subs \in SUBSET Subscription : Cardinality(subs) =< MaxSubs}

Host == \/ Begin \/ StopsKilled \/ Refuels \/ SleepEnds \/ StdinYieldEnds
        \/ Resume

GuestMoves == EnterBlock \/ LeaveBlock \/ RunsOutOfFuel

GuestCalls == \/ SchedYield
              \/ FdRead
              \/ \E subs \in Polls : PollOneoff(subs)

Next == \/ Host \/ GuestMoves \/ GuestCalls \/ GuestEnds
        \/ Kill \/ Tick \/ HostWrites
        \/ Ended

Spec == Init /\ [][Next]_vars

(***************************************************************************)
(* The executor runs the instance's future whenever it can go on, a block  *)
(* of straight-line code is left in the end, and time passes.  The guest   *)
(* need not make calls nor ever return, and nobody has to kill it.         *)
(***************************************************************************)
FairSpec == /\ Spec
            /\ WF_vars(Host)
            /\ WF_vars(GuestMoves)
            /\ WF_vars(Tick)

-----------------------------------------------------------------------------
(***************************************************************************)
(* Safety.                                                                 *)
(***************************************************************************)
\* The guest is about to run code that it has not paid for yet.
AboutToRun == AtBlock /\ block =< fuel

\* A time has come, or the clock cannot show it: it is at its end.
Reached(t) == t =< now \/ now = MaxTime

\* A guest that was told of an event in the future by its last poll_oneoff
\* does not go on to another block before the event has happened, whatever
\* else it asked for in between, and however far away the event is.
LastEventDue ==
    AboutToRun /\ promised # <<>> => Reached(promised[Len(promised)])

\* The same of every event it was told of.  It does not hold when the guest
\* polls twice in one block: sleep_until has room for one deadline.
EveryEventDue ==
    AboutToRun => \A i \in 1 .. Len(promised) : Reached(promised[i])

\* A guest that gave up its slice, by sched_yield, by reading a stdin that had
\* nothing or by sleeping, runs no other block before run_wasm has yielded to
\* the other tasks: the one that is to write its stdin is among them.  It takes
\* both halves, a call that leaves no fuel and a loop that yields before it
\* gives the guest fuel to go on.
YieldKept == AboutToRun => ~owes

\* A killed plugin is resumed once more at most, if the signal comes while
\* run_wasm awaits something: the signal is read only when the fuel runs out.
KilledStopsSoon == resumed =< 1

-----------------------------------------------------------------------------
(***************************************************************************)
(* Liveness.                                                               *)
(***************************************************************************)

\* A killed plugin ends, even if the guest would run for ever.
KillEnds == ~isRunning ~> (phase = "ended")

\* Every guest goes on, also when a block costs more than max_fuel.
BlocksRun == []<>(inBlock \/ phase = "ended")
=============================================================================
