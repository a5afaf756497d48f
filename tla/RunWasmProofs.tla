----------------------------- MODULE RunWasmProofs -----------------------------
(***************************************************************************)
(* Proofs about RunWasm for every fuel limit, every cost of a block, every *)
(* number of calls in one and every set of timeouts: a killed plugin is    *)
(* resumed once more at most, a guest that gives its slice up lets others  *)
(* run, and, where sleep() is exact, no event is reported to the guest too *)
(* early.                                                                  *)
(***************************************************************************)
EXTENDS RunWasm, SequenceTheorems, TLAPS

(***************************************************************************)
(* Taking the fuel away is what makes a guest wait: a guest that owes its  *)
(* slice, or for which a sleep is noted, has none, so that it cannot enter *)
(* a block; and with the fuel that the host gives it again it comes back   *)
(* only by way of the courtesy yield.                                      *)
(***************************************************************************)
FuelInv == phase = "guest" /\ owes => fuel = 0

\* The signal is looked at between any resumption and the next.
KillInv ==
    /\ isRunning => resumed = 0
    /\ phase \in {"new", "sleeping", "awaitStdin", "courtesy"} => resumed = 0
    /\ resumed =< 1

\* The time the guest was told of last.
LastPromise == promised[Len(promised)]

\* The note in sleep_until is the time of the event reported last, or the end
\* of the clock if that is later, until the host has slept for it.
SleepInv ==
    /\ sleepUntil # None =>
         /\ promised # <<>>
         /\ sleepUntil \in {LastPromise, MaxTime} \/ now = MaxTime
         /\ phase \in {"guest", "outOfFuel", "sleeping", "ended"}
         /\ phase = "guest" => fuel = 0
    /\ promised # <<>> /\ sleepUntil = None => Reached(LastPromise)
    /\ phase = "sleeping" => sleepUntil # None /\ wake = sleepUntil
    /\ Len(promised) =< calls

RunInv == TypeOK /\ FuelInv /\ KillInv

-----------------------------------------------------------------------------
LEMMA TimerIsNat == ASSUME NEW d \in Nat PROVE TimerFor(d) \in Nat
<1>1. Ms \in Nat \ {0} /\ U32 \in Nat \ {0}
  BY RunAssumption
<1>2. d \div Ms \in Nat
  BY <1>1
<1>3. (d \div Ms) % U32 \in Nat
  BY <1>1, <1>2
<1> QED
  BY <1>1, <1>3 DEF TimerFor

LEMMA DueIsNat ==
    ASSUME TypeOK, NEW sub \in Subscription
    PROVE  /\ Deadline(sub) \in Time
           /\ Due(sub) \in Nat
           /\ Deadline(sub) \in {Due(sub), MaxTime}
           /\ Deadline(sub) =< Due(sub)
<1>1. sub.timeout \in Time /\ now \in Time
  BY RunAssumption DEF Subscription, Time, TypeOK, TimesOK
<1> QED
  BY <1>1, RunAssumption DEF Deadline, Due, Time

\* What poll_oneoff does to the state: nothing; or it reports an event that is
\* due, or would be if the clock did not end; or it reports one to wait for.
LEMMA PollEffect ==
    ASSUME TypeOK, NEW subs \in SUBSET Subscription, PollOneoff(subs)
    PROVE  /\ Calls
           /\ UNCHANGED <<awaitingStdin, input>>
           /\ \/ UNCHANGED <<sleepUntil, fuel, promised, owes>>
              \/ \E due \in Nat : /\ now = MaxTime
                                 /\ promised' = Append(promised, due)
                                 /\ UNCHANGED <<sleepUntil, fuel, owes>>
              \/ \E due \in Nat, told \in Time :
                   /\ told \in {due, MaxTime}
                   /\ promised' = Append(promised, due)
                   /\ sleepUntil' = told
                   /\ owes' = TRUE
                   /\ fuel' = 0
<1>1. CASE UNCHANGED <<sleepUntil, fuel, promised, owes>>
  BY <1>1 DEF PollOneoff
<1>2. CASE ~UNCHANGED <<sleepUntil, fuel, promised, owes>>
  <2>1. PICK sub \in ClockSubs(subs) :
          /\ Reports(sub)
          /\ \/ Deadline(sub) > now /\ SleepFor(Deadline(sub))
             \/ Deadline(sub) =< now /\ UNCHANGED <<sleepUntil, fuel, owes>>
    BY <1>2 DEF PollOneoff
  <2>2. sub \in Subscription
    BY <2>1 DEF ClockSubs
  <2>3. /\ Deadline(sub) \in Time /\ Due(sub) \in Nat
        /\ Deadline(sub) \in {Due(sub), MaxTime}
        /\ Deadline(sub) =< Due(sub)
    BY <2>2, DueIsNat
  <2>4. now \in Time
    BY DEF TypeOK, TimesOK
  <2>5. CASE Deadline(sub) > now /\ SleepFor(Deadline(sub))
    <3>1. now + WaitDuration(Deadline(sub)) = Deadline(sub)
      BY <2>3, <2>4 DEF WaitDuration, Time
    <3>2. Due(sub) > now
      BY <2>3, <2>4, <2>5 DEF Time
    <3>3. promised' = Append(promised, Due(sub))
      BY <2>1, <3>2 DEF Reports
    <3>4. sleepUntil' = Deadline(sub) /\ owes' = TRUE /\ fuel' = 0
      BY <2>5, <3>1 DEF SleepFor, Yields
    <3> QED
      BY <2>3, <3>3, <3>4 DEF PollOneoff
  <2>6. CASE Deadline(sub) =< now /\ UNCHANGED <<sleepUntil, fuel, owes>>
    <3>1. Due(sub) > now
      BY <1>2, <2>1, <2>6 DEF Reports
    <3>2. now = MaxTime
      BY <2>3, <2>4, <2>6, <3>1, RunAssumption DEF Time
    <3>3. promised' = Append(promised, Due(sub))
      BY <2>1, <3>1 DEF Reports
    <3> QED
      BY <2>3, <2>6, <3>2, <3>3 DEF PollOneoff
  <2> QED
    BY <2>1, <2>5, <2>6
<1> QED
  BY <1>1, <1>2

LEMMA InitRunInv == Init => RunInv
<1> SUFFICES ASSUME Init
             PROVE  RunInv
  OBVIOUS
<1>1. promised \in Seq(Nat)
  BY EmptySeq DEF Init
<1>2. FlagsOK
  BY DEF Init, FlagsOK
<1>3. TimesOK
  BY <1>1, RunAssumption DEF Init, TimesOK, Time
<1>4. CountsOK
  BY RunAssumption DEF Init, CountsOK
<1> QED
  BY <1>2, <1>3, <1>4 DEF Init, RunInv, TypeOK, FuelInv, KillInv

LEMMA StepRunInv == RunInv /\ [Next]_vars => RunInv'
<1> SUFFICES ASSUME RunInv, [Next]_vars
             PROVE  RunInv'
  OBVIOUS
<1> USE DEF RunInv, TypeOK
<1>1. CASE GuestMoves
  <2> USE <1>1 DEF GuestMoves, EnterBlock, LeaveBlock, RunsOutOfFuel, AtBlock,
                   ctxVars, guestVars, envVars
  <2>1. <<>> \in Seq(Nat)
    BY EmptySeq
  <2>2. FlagsOK'
    BY DEF FlagsOK
  <2>3. TimesOK'
    BY <2>1 DEF TimesOK
  <2>4. CountsOK'
    BY RunAssumption DEF CountsOK
  <2>5. FuelInv'
    <3>1. EnterBlock => fuel # 0
      BY RunAssumption DEF CountsOK
    <3> QED
      BY <3>1 DEF FuelInv
  <2>6. KillInv'
    BY DEF KillInv
  <2> QED
    BY <2>2, <2>3, <2>4, <2>5, <2>6
<1>2. CASE SchedYield \/ FdRead
  <2> USE <1>2 DEF SchedYield, FdRead, Calls, Yields, ctxVars
  <2>1. FlagsOK'
    BY DEF FlagsOK
  <2>2. TimesOK'
    BY DEF TimesOK
  <2>3. CountsOK'
    <3>1. calls' \in 0 .. CallsPerBlock
      BY RunAssumption DEF CountsOK
    <3>2. fuel' \in Nat
      BY DEF CountsOK
    <3>3. input' \in Nat
      BY DEF CountsOK
    <3> QED
      BY <3>1, <3>2, <3>3 DEF CountsOK
  <2>4. FuelInv' /\ KillInv'
    BY DEF FuelInv, KillInv
  <2> QED
    BY <2>1, <2>2, <2>3, <2>4
<1>3. ASSUME NEW subs \in Polls, PollOneoff(subs)
      PROVE  RunInv'
  <2>1. subs \in SUBSET Subscription
    BY DEF Polls
  <2>2. \A t \in Nat : Append(promised, t) \in Seq(Nat)
    BY AppendProperties DEF TimesOK
  <2>3. FlagsOK'
    BY <1>3, <2>1, PollEffect DEF Calls, FlagsOK
  <2>4. TimesOK'
    BY <1>3, <2>1, <2>2, PollEffect DEF Calls, TimesOK
  <2>5. CountsOK'
    <3>1. /\ calls' = calls + 1 /\ calls < CallsPerBlock
          /\ UNCHANGED <<phase, block, input, unsent, resumed>>
          /\ fuel' = fuel \/ fuel' = 0
      BY <1>3, <2>1, PollEffect DEF Calls
    <3>2. calls' \in 0 .. CallsPerBlock
      BY <3>1, RunAssumption DEF CountsOK
    <3> QED
      BY <3>1, <3>2 DEF CountsOK
  <2>6. FuelInv' /\ KillInv'
    BY <1>3, <2>1, PollEffect DEF Calls, FuelInv, KillInv
  <2> QED
    BY <2>3, <2>4, <2>5, <2>6
<1>4. CASE Begin \/ StdinYieldEnds \/ Resume
  <2> USE <1>4 DEF Begin, StdinYieldEnds, Resume, ctxVars, guestVars, envVars
  <2>1. FlagsOK'
    BY DEF FlagsOK
  <2>2. TimesOK'
    BY DEF TimesOK
  <2>3. CountsOK'
    BY DEF CountsOK
  <2>4. FuelInv' /\ KillInv'
    BY DEF FuelInv, KillInv
  <2> QED
    BY <2>1, <2>2, <2>3, <2>4
<1>5. CASE StopsKilled \/ GuestEnds
  <2> USE <1>5 DEF StopsKilled, GuestEnds, Ends, ctxVars
  <2>1. FlagsOK'
    BY DEF FlagsOK
  <2>2. TimesOK' /\ CountsOK'
    BY DEF TimesOK, CountsOK
  <2>3. FuelInv' /\ KillInv'
    BY DEF FuelInv, KillInv
  <2> QED
    BY <2>1, <2>2, <2>3
<1>6. CASE Refuels
  <2> USE <1>6 DEF Refuels, AfterSleep, guestVars, envVars
  <2>1. TopUp \in Nat
    BY RunAssumption DEF TopUp, CountsOK
  <2>2. HasToSleep => now + TimerFor(sleepUntil - now) \in Nat
    <3> SUFFICES ASSUME HasToSleep
                 PROVE  now + TimerFor(sleepUntil - now) \in Nat
      OBVIOUS
    <3>1. now \in Nat /\ sleepUntil - now \in Nat
      BY RunAssumption DEF HasToSleep, TimesOK, Time
    <3>2. TimerFor(sleepUntil - now) \in Nat
      BY <3>1, TimerIsNat
    <3> QED
      BY <3>1, <3>2
  <2>3. FlagsOK'
    BY DEF FlagsOK
  <2>4. TimesOK'
    BY <2>2 DEF TimesOK
  <2>5. CountsOK'
    BY <2>1 DEF CountsOK
  <2>6. FuelInv' /\ KillInv'
    BY DEF GoesOn, FuelInv, KillInv
  <2> QED
    BY <2>3, <2>4, <2>5, <2>6
<1>7. CASE SleepEnds
  <2> USE <1>7 DEF SleepEnds, AfterSleep, guestVars, envVars
  <2>1. FlagsOK'
    BY DEF FlagsOK
  <2>2. TimesOK' /\ CountsOK'
    BY DEF TimesOK, CountsOK
  <2>3. FuelInv' /\ KillInv'
    BY DEF FuelInv, KillInv
  <2> QED
    BY <2>1, <2>2, <2>3
<1>8. CASE Kill \/ Tick \/ HostWrites
  <2> USE <1>8 DEF Kill, Tick, HostWrites, ctxVars, guestVars
  <2>1. FlagsOK'
    BY DEF FlagsOK
  <2>2. TimesOK'
    BY RunAssumption DEF TimesOK, Time
  <2>3. CountsOK'
    <3>1. CASE HostWrites
      BY <3>1, RunAssumption DEF CountsOK
    <3>2. CASE Kill \/ Tick
      BY <3>2 DEF CountsOK
    <3> QED
      BY <3>1, <3>2
  <2>4. FuelInv' /\ KillInv'
    BY DEF FuelInv, KillInv
  <2> QED
    BY <2>1, <2>2, <2>3, <2>4
<1>9. CASE UNCHANGED vars
  BY <1>9
     DEF vars, ctxVars, guestVars, envVars, FlagsOK, TimesOK, CountsOK,
         FuelInv, KillInv
<1> QED
  BY <1>1, <1>2, <1>3, <1>4, <1>5, <1>6, <1>7, <1>8, <1>9
     DEF Next, Host, GuestCalls, Ended

-----------------------------------------------------------------------------
(***************************************************************************)
(* Sleeping, where sleep(dur) lasts no shorter than dur.                   *)
(***************************************************************************)
LEMMA InitSleepInv == Init => SleepInv
  BY EmptySeq DEF Init, SleepInv

LEMMA StepSleepInv ==
    ASSUME Platform = "native"
    PROVE  RunInv /\ SleepInv /\ [Next]_vars => SleepInv'
<1> SUFFICES ASSUME RunInv, SleepInv, [Next]_vars
             PROVE  SleepInv'
  OBVIOUS
<1> USE RunAssumption DEF RunInv, TypeOK, Reached, LastPromise
<1>1. CASE EnterBlock
  <2>1. fuel # 0
    BY <1>1 DEF EnterBlock, CountsOK
  <2>2. sleepUntil = None /\ phase = "guest"
    BY <1>1, <2>1 DEF EnterBlock, AtBlock, SleepInv
  <2> QED
    BY <1>1, <2>2, EmptySeq DEF EnterBlock, SleepInv, ctxVars
<1>2. CASE LeaveBlock \/ RunsOutOfFuel
  BY <1>2
     DEF LeaveBlock, RunsOutOfFuel, AtBlock, SleepInv, ctxVars, guestVars,
         envVars
<1>3. CASE SchedYield \/ FdRead
  <2>1. /\ UNCHANGED <<phase, wake, sleepUntil, promised, now>>
        /\ calls' = calls + 1
        /\ fuel' = fuel \/ fuel' = 0
        /\ phase = "guest"
    BY <1>3 DEF SchedYield, FdRead, Calls, Yields, ctxVars
  <2>2. Len(promised) \in Nat /\ calls \in Nat
    BY LenProperties DEF TimesOK, CountsOK
  <2> QED
    BY <2>1, <2>2 DEF SleepInv
<1>4. ASSUME NEW subs \in Polls, PollOneoff(subs)
      PROVE  SleepInv'
  <2>1. subs \in SUBSET Subscription
    BY DEF Polls
  <2>2. \A t \in Nat : /\ Append(promised, t) # <<>>
                        /\ Len(Append(promised, t)) = Len(promised) + 1
                        /\ Append(promised, t)[Len(promised) + 1] = t
    BY AppendProperties DEF TimesOK
  <2>3. /\ UNCHANGED <<phase, wake, now>>
        /\ calls' = calls + 1
        /\ phase = "guest"
    BY <1>4, <2>1, PollEffect DEF Calls
  <2>4. Len(promised) \in Nat /\ calls \in Nat
    BY LenProperties DEF TimesOK, CountsOK
  <2>5. CASE UNCHANGED <<sleepUntil, fuel, promised, owes>>
    BY <2>3, <2>4, <2>5 DEF SleepInv
  <2>6. ASSUME NEW told \in Time,
               NEW due \in Nat, told \in {due, MaxTime},
               sleepUntil' = told, fuel' = 0,
               promised' = Append(promised, due)
        PROVE  SleepInv'
    <3>1. /\ promised' # <<>>
          /\ promised'[Len(promised')] = due
          /\ Len(promised') = Len(promised) + 1
      BY <2>2, <2>4, <2>6
    <3>2. told # None
      BY DEF Time
    <3>3. told \in Nat /\ now \in Nat
      BY DEF TimesOK, Time
    <3> QED
      BY <2>3, <2>4, <2>6, <3>1, <3>2, <3>3 DEF SleepInv
  <2>7. ASSUME NEW due \in Nat, now = MaxTime,
               promised' = Append(promised, due),
               UNCHANGED <<sleepUntil, fuel>>
        PROVE  SleepInv'
    <3>1. promised' # <<>> /\ Len(promised') = Len(promised) + 1
      BY <2>2, <2>7
    <3> QED
      BY <2>3, <2>4, <2>7, <3>1 DEF SleepInv
  <2> QED
    BY <1>4, <2>1, <2>5, <2>6, <2>7, PollEffect
<1>5. CASE Begin \/ StdinYieldEnds \/ Resume
  BY <1>5
     DEF Begin, StdinYieldEnds, Resume, SleepInv, ctxVars, guestVars, envVars
<1>6. CASE StopsKilled \/ GuestEnds
  BY <1>6 DEF StopsKilled, GuestEnds, Ends, SleepInv, ctxVars
<1>7. CASE Refuels
  <2>1. CASE HasToSleep
    <3>1. phase' = "sleeping" /\ wake' = now + TimerFor(sleepUntil - now)
      BY <1>7, <2>1 DEF Refuels
    <3>2. TimerFor(sleepUntil - now) = sleepUntil - now
      BY DEF TimerFor
    <3>3. wake' = sleepUntil
      BY <2>1, <3>1, <3>2 DEF HasToSleep, TimesOK, Time
    <3> QED
      BY <1>7, <2>1, <3>1, <3>3
         DEF Refuels, HasToSleep, SleepInv, guestVars, envVars
  <2>2. CASE ~HasToSleep
    <3>1. sleepUntil # None => sleepUntil =< now
      BY <2>2 DEF HasToSleep, TimesOK, Time
    <3>2. promised # <<>> => Reached(LastPromise)
      BY <3>1 DEF SleepInv, TimesOK, Time
    <3> QED
      BY <1>7, <2>2, <3>2
         DEF Refuels, AfterSleep, SleepInv, guestVars, envVars
  <2> QED
    BY <2>1, <2>2
<1>8. CASE SleepEnds
  <2>1. promised # <<>> => Reached(LastPromise)
    BY <1>8 DEF SleepEnds, SleepInv, TimesOK, Time
  <2> QED
    BY <1>8, <2>1
       DEF SleepEnds, AfterSleep, SleepInv, guestVars, envVars
<1>9. CASE Kill \/ HostWrites
  BY <1>9 DEF Kill, HostWrites, SleepInv, ctxVars, guestVars
<1>10. CASE Tick
  <2>1. promised # <<>> => LastPromise \in Nat
    BY EmptySeq, LenProperties, ElementOfSeq DEF TimesOK
  <2>2. now' = now + 1 /\ now \in Nat
    BY <1>10 DEF Tick, TimesOK, Time
  <2> QED
    BY <1>10, <2>1, <2>2 DEF Tick, SleepInv, Time, ctxVars, guestVars
<1>11. CASE UNCHANGED vars
  BY <1>11 DEF vars, ctxVars, guestVars, envVars, SleepInv
<1> QED
  BY <1>1, <1>2, <1>3, <1>4, <1>5, <1>6, <1>7, <1>8, <1>9, <1>10, <1>11
     DEF Next, Host, GuestMoves, GuestCalls, Ended

-----------------------------------------------------------------------------
(***************************************************************************)
(* The theorems.                                                           *)
(***************************************************************************)

\* The state of an instance keeps its types.
THEOREM RunTyped == Spec => []TypeOK
<1>1. RunInv => TypeOK
  BY DEF RunInv
<1> QED
  BY <1>1, InitRunInv, StepRunInv, PTL DEF Spec

\* set_fuel(0) in a WASI call and the courtesy yield of run_wasm together let
\* the other tasks run before the guest goes on.
THEOREM RunYields == Spec => []YieldKept
<1>1. RunInv => YieldKept
  BY RunAssumption
     DEF RunInv, FuelInv, TypeOK, CountsOK, YieldKept, AboutToRun, AtBlock
<1> QED
  BY <1>1, InitRunInv, StepRunInv, PTL DEF Spec

\* Whenever the signal comes, the guest is resumed once more at most.
THEOREM RunStopsWhenKilled == Spec => []KilledStopsSoon
<1>1. RunInv => KilledStopsSoon
  BY DEF RunInv, KillInv, KilledStopsSoon
<1> QED
  BY <1>1, InitRunInv, StepRunInv, PTL DEF Spec

LEMMA LastEventDueFromInv == RunInv /\ SleepInv => LastEventDue
<1> SUFFICES ASSUME RunInv, SleepInv, AboutToRun, promised # <<>>
             PROVE  Reached(LastPromise)
  BY DEF LastEventDue, LastPromise
<1>1. fuel # 0
  BY RunAssumption DEF RunInv, TypeOK, CountsOK, AboutToRun
<1> QED
  BY <1>1 DEF SleepInv, AboutToRun, AtBlock

\* With tokio's sleep, the guest does not go on before the event has happened
\* that poll_oneoff reported to it last, unless the clock cannot show it.
THEOREM RunSleepsLongEnough ==
    ASSUME Platform = "native"
    PROVE  Spec => []LastEventDue
<1> QED
  BY LastEventDueFromInv, InitRunInv, StepRunInv, InitSleepInv, StepSleepInv,
     PTL DEF Spec

\* If it polls no more than once per block, it does not go on before any of
\* the events it was told of.
THEOREM RunSleepsLongEnoughForAll ==
    ASSUME Platform = "native", CallsPerBlock =< 1
    PROVE  Spec => []EveryEventDue
<1>1. RunInv /\ SleepInv => EveryEventDue
  <2> SUFFICES ASSUME RunInv, SleepInv, AboutToRun,
                      NEW i \in 1 .. Len(promised)
               PROVE  Reached(promised[i])
    BY DEF EveryEventDue
  <2>1. Len(promised) \in Nat /\ Len(promised) =< 1
    BY LenProperties, RunAssumption
       DEF RunInv, TypeOK, TimesOK, CountsOK, SleepInv
  <2>2. i = Len(promised)
    BY <2>1
  <2>3. promised # <<>>
    BY <2>1, EmptySeq
  <2> QED
    BY <2>2, <2>3, LastEventDueFromInv DEF LastEventDue
<1> QED
  BY <1>1, InitRunInv, StepRunInv, InitSleepInv, StepSleepInv, PTL DEF Spec
=============================================================================
