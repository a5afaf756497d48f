---------------------------- MODULE DispatchProofs ----------------------------
(***************************************************************************)
(* Proofs about Dispatch for every set of plugins, methods and texts and   *)
(* any number of calls.                                                    *)
(***************************************************************************)
EXTENDS Dispatch, SequenceTheorems, TLAPS

(***************************************************************************)
(* Messages.                                                               *)
(***************************************************************************)

\* An error survives its encoding: what the peer reads is what was written,
\* in kind and text, also when the text of one is that of another
\* (impl Serialize and Deserialize for RpcError).
THEOREM ErrorsSurvive == \A e \in RpcError : Deserialize(Serialize(e)) = e
  BY DEF RpcError, Named, Err, Custom, Code, Serialize, Deserialize

\* Every line is read as the variant it was written as, although the
\* messages are untagged (enum RpcMessage).
THEOREM KindsAreTold ==
    ASSUME NEW i, NEW m, NEW v
    PROVE  /\ Kind(Request(i, m, v)) = "request"
           /\ Kind(Response(i, v)) = "response"
           /\ Kind([id |-> i, error |-> v]) = "error"
<1>1. Kind(Request(i, m, v)) = "request"
  BY DEF Kind, Request
<1>2. Kind(Response(i, v)) = "response"
  BY DEF Kind, Response
<1>3. Kind([id |-> i, error |-> v]) = "error"
  BY DEF Kind
<1> QED
  BY <1>1, <1>2, <1>3

(***************************************************************************)
(* Outcomes and the lines that carry them.                                 *)
(***************************************************************************)
Requests == [id : Nat, method : Methods, params : Params]

LEMMA OutcomesDiffer ==
    /\ Died \notin Result /\ SpawnFailed \notin Result /\ Died # SpawnFailed
    /\ \A n : Value(n) \notin RpcError
    /\ \A n \in Named : Err(n) \in RpcError
    /\ Result \subseteq Outcome /\ Died \in Outcome /\ SpawnFailed \in Outcome
    /\ None \notin Outcome
  BY DispatchAssumption DEF Result, Value, RpcError, Died, SpawnFailed, Err, Custom, Named,
         Outcome

LEMMA MeaningIsResult ==
    /\ \A o \in Result : Meaning(o) = o
    /\ Meaning(Died) = Err("InternalError")
    /\ Meaning(SpawnFailed) = Custom("spawn_error")
    /\ \A o \in Outcome : Meaning(o) \in Result /\ Meaning(o) # None
<1>1. /\ \A o \in Result : Meaning(o) = o
      /\ Meaning(Died) = Err("InternalError")
      /\ Meaning(SpawnFailed) = Custom("spawn_error")
  BY OutcomesDiffer DEF Meaning
<1>2. Err("InternalError") \in Result /\ Custom("spawn_error") \in Result
  BY DispatchAssumption, OutcomesDiffer DEF Result, Named, RpcError
<1>3. Outcome = Result \cup {Died, SpawnFailed}
  BY DEF Outcome, Result
<1> QED
  BY <1>1, <1>2, <1>3, OutcomesDiffer

\* A reply is read as the outcome that it was written for.
LEMMA ReplyIsRead ==
    ASSUME NEW i \in Nat, NEW o \in Result
    PROVE  /\ Reply(i, o) \in Line
           /\ o \in RpcError => /\ Kind(Reply(i, o)) = "error"
                               /\ Deserialize(Reply(i, o).error) = o
           /\ o \notin RpcError => /\ Kind(Reply(i, o)) = "response"
                                  /\ Reply(i, o).id = i
                                  /\ Value(Reply(i, o).result) = o
                                  /\ Reply(i, o).result \in Calls
<1>1. CASE o \in RpcError
  <2>1. Reply(i, o) = [id |-> i, error |-> Serialize(o)]
    BY <1>1 DEF Reply, ErrorResponse
  <2>2. Reply(i, o) \in Line
    BY <2>1, <1>1 DEF Line
  <2> QED
    BY <2>1, <2>2, <1>1, ErrorsSurvive, KindsAreTold
<1>2. CASE o \notin RpcError
  <2>1. PICK n \in Calls : o = Value(n)
    BY <1>2 DEF Result
  <2>2. Reply(i, o) = [id |-> i, result |-> n]
    BY <1>2, <2>1 DEF Reply, Response, Value
  <2>3. Reply(i, o) \in Line
    BY <2>2 DEF Line
  <2>4. Kind(Reply(i, o)) = "response"
    BY <2>2 DEF Kind
  <2>5. Reply(i, o).id = i /\ Reply(i, o).result = n
    BY <2>2
  <2> QED
    BY <2>1, <2>3, <2>4, <2>5, <1>2
<1> QED
  BY <1>1, <1>2

(***************************************************************************)
(* The inductive invariant.  A caller is given what was raised because the *)
(* line under way is the reply to the top's request for as long as the top *)
(* is done; for that to stay true while other activations end or die, each *)
(* call has one frame, and nothing is known of it but what its state says. *)
(***************************************************************************)
StackOK ==
    /\ Depth # 0
    /\ frames[1].call = 0 /\ frames[1].side = "host"
    /\ \A k \in 2 .. Depth : /\ frames[k].call # 0
                             /\ frames[k].side # frames[k - 1].side
                             /\ frames[k].id = Pending(frames[k - 1])
    /\ \A j, k \in 1 .. Depth : j < k => frames[j].call < frames[k].call
    /\ \A k \in 1 .. Depth :
         /\ frames[k].call =< made
         /\ frames[k].state \in IF k = Depth THEN {"asked", "run", "done", "dead"}
                                            ELSE {"await", "dead"}
         /\ frames[k].state = "dead" => frames[k].side = "guest"
         /\ k = 1 => frames[k].state \in {"run", "await"}

HistoryOK ==
    /\ \A n \in Calls : n > made => raised[n] = None
    /\ \A n \in Calls : raised[n] = None => given[n] = None
    /\ \A k \in 2 .. Depth :
         /\ given[frames[k].call] = None
         /\ frames[k].state = "dead" => raised[frames[k].call] = Died
         /\ frames[k].state = "done" => raised[frames[k].call] \in Result
         /\ frames[k].state \notin {"dead", "done"} => raised[frames[k].call] = None

LineOK ==
    /\ Top.state = "asked" => line \in Requests /\ line.id = Top.id
    /\ Top.state = "done" => line = Reply(Top.id, raised[Top.call])

DispatchInv == TypeOK /\ StackOK /\ HistoryOK /\ LineOK /\ AsRaised

LEMMA Bound == MaxCalls \in Nat
  BY DispatchAssumption

LEMMA InitDispatchInv == Init => DispatchInv
<1> SUFFICES ASSUME Init
             PROVE  DispatchInv
  OBVIOUS
<1>1. App \in Frame
  <2>1. 0 \in 0 .. MaxCalls
    BY Bound
  <2> QED
    BY <2>1 DEF App, Frame
<1>2. frames \in Seq(Frame) /\ Len(frames) = 1 /\ frames[1] = App
  BY <1>1 DEF Init
<1>3. TypeOK
  <2>1. made \in 0 .. MaxCalls
    BY Bound DEF Init
  <2> QED
    BY <1>2, <2>1 DEF Init, TypeOK
<1>4. StackOK
  BY <1>2 DEF Init, StackOK, Depth, App
<1>5. HistoryOK /\ LineOK /\ AsRaised
  BY <1>2 DEF Init, HistoryOK, LineOK, AsRaised, Depth, Top, App
<1> QED
  BY <1>3, <1>4, <1>5 DEF DispatchInv

(***************************************************************************)
(* What becomes of the stack.                                              *)
(***************************************************************************)
LEMMA Replaced ==
    ASSUME TypeOK, NEW k \in 1 .. Depth, NEW f \in Frame
    PROVE  LET s == [frames EXCEPT ![k] = f] IN
           /\ s \in Seq(Frame) /\ Len(s) = Depth
           /\ \A j \in 1 .. Depth : s[j] = IF j = k THEN f ELSE frames[j]
  BY ExceptSeq DEF TypeOK, Depth

LEMMA Pushed ==
    ASSUME NEW s \in Seq(Frame), NEW g \in Frame
    PROVE  /\ Append(s, g) \in Seq(Frame) /\ Len(Append(s, g)) = Len(s) + 1
           /\ \A j \in 1 .. Len(s) : Append(s, g)[j] = s[j]
           /\ Append(s, g)[Len(s) + 1] = g
  BY AppendProperties

LEMMA Popped ==
    ASSUME TypeOK, Depth > 1
    PROVE  /\ Below \in Seq(Frame) /\ Len(Below) = Depth - 1
           /\ \A j \in 1 .. Depth - 1 : Below[j] = frames[j]
           /\ Pops \in Seq(Frame) /\ Len(Pops) = Depth - 1
           /\ \A j \in 1 .. Depth - 1 :
                Pops[j] = IF j = Depth - 1 THEN [frames[j] EXCEPT !.state = "run"]
                                           ELSE frames[j]
<1>1. Depth \in Nat /\ \A j \in 1 .. Depth : frames[j] \in Frame
  BY DEF TypeOK, Depth
<1>2. /\ Below \in Seq(Frame) /\ Len(Below) = Depth - 1
      /\ \A j \in 1 .. Depth - 1 : Below[j] = frames[j]
  BY <1>1, SubSeqProperties DEF Below
<1>3. \A f \in Frame : [f EXCEPT !.state = "run"] \in Frame
  BY DEF Frame
<1>4. Depth - 1 \in 1 .. Len(Below) /\ Below[Depth - 1] \in Frame
  BY <1>1, <1>2
<1>5. [Below[Depth - 1] EXCEPT !.state = "run"] \in Frame
  BY <1>3, <1>4
<1> QED
  BY <1>1, <1>2, <1>4, <1>5, ExceptSeq DEF Pops

LEMMA Basics ==
    ASSUME DispatchInv
    PROVE  /\ Depth \in Nat \ {0} /\ Depth \in 1 .. Depth /\ 1 \in 1 .. Depth
           /\ Top \in Frame /\ made \in Nat
           /\ \A k \in 1 .. Depth :
                /\ frames[k] \in Frame /\ frames[k].call \in Nat
                /\ k = 1 <=> frames[k].call = 0
                /\ k # 1 => k \in 2 .. Depth /\ k - 1 \in 1 .. Depth
           /\ \A k \in 2 .. Depth : k \in 1 .. Depth /\ frames[k].call \in Calls
<1>1. Depth \in Nat \ {0} /\ \A k \in 1 .. Depth : frames[k] \in Frame
  BY DEF DispatchInv, TypeOK, StackOK, Depth
<1>2. \A k \in 1 .. Depth : k = 1 <=> frames[k].call = 0
  BY <1>1 DEF DispatchInv, StackOK
<1>3. \A f \in Frame : f.call \in 0 .. MaxCalls
  BY DEF Frame
<1>4. \A f \in Frame : f.call \in Nat /\ (f.call # 0 => f.call \in Calls)
  BY <1>3, Bound DEF Calls
<1>5. \A k \in 2 .. Depth : k \in 1 .. Depth /\ frames[k].call \in Calls
  BY <1>1, <1>2, <1>4
<1>6. made \in Nat
  BY Bound DEF DispatchInv, TypeOK
<1>7. /\ Depth \in 1 .. Depth /\ 1 \in 1 .. Depth
      /\ \A k \in 1 .. Depth : k # 1 => k \in 2 .. Depth /\ k - 1 \in 1 .. Depth
  BY <1>1
<1> QED
  BY <1>1, <1>2, <1>4, <1>5, <1>6, <1>7 DEF Top

(***************************************************************************)
(* A call is made: f is the caller, which now waits, and g the activation  *)
(* it asked for.                                                           *)
(***************************************************************************)
LEMMA PushKeepsStack ==
    ASSUME DispatchInv, NEW f \in Frame, NEW g \in Frame,
           f.side = Top.side, f.call = Top.call, f.id = Top.id,
           f.state = "await", Top.state = "run",
           g.side # Top.side, g.call = made + 1, g.id = Pending(f),
           g.state = "asked",
           made' = made + 1, Depth' = Depth + 1,
           \A k \in 1 .. Depth : frames'[k] = IF k = Depth THEN f ELSE frames[k],
           frames'[Depth + 1] = g
    PROVE  StackOK'
<1>1. \A k \in 1 .. Depth : /\ frames'[k].call = frames[k].call
                            /\ frames'[k].side = frames[k].side
                            /\ frames'[k].id = frames[k].id
                            /\ k # Depth => frames'[k] = frames[k]
  BY DEF Top
<1>2. frames'[Depth] = f
  BY Basics
<1>3. Depth' # 0 /\ frames'[1].call = 0 /\ frames'[1].side = "host"
  BY <1>1, Basics DEF DispatchInv, StackOK
<1>4. \A k \in 2 .. Depth' : /\ frames'[k].call # 0
                             /\ frames'[k].side # frames'[k - 1].side
                             /\ frames'[k].id = Pending(frames'[k - 1])
  <2> TAKE k \in 2 .. Depth'
  <2>1. CASE k = Depth + 1
    BY <2>1, <1>1, <1>2, Basics
  <2>2. CASE k \in 2 .. Depth
    <3>1. k \in 1 .. Depth /\ k - 1 \in 1 .. Depth /\ k - 1 # Depth
      BY <2>2, Basics
    <3>2. frames'[k - 1] = frames[k - 1]
      BY <3>1, <1>1
    <3> QED
      BY <2>2, <3>1, <3>2, <1>1 DEF DispatchInv, StackOK
  <2> QED
    BY <2>1, <2>2, Basics
<1>5. \A j, k \in 1 .. Depth' : j < k => frames'[j].call < frames'[k].call
  <2> SUFFICES ASSUME NEW j \in 1 .. Depth', NEW k \in 1 .. Depth', j < k
               PROVE  frames'[j].call < frames'[k].call
    OBVIOUS
  <2>1. j \in 1 .. Depth
    BY Basics
  <2>2. frames'[j].call = frames[j].call /\ frames[j].call \in Nat
    BY <2>1, <1>1, Basics
  <2>3. CASE k = Depth + 1
    <3>1. frames[j].call =< made
      BY <2>1 DEF DispatchInv, StackOK
    <3> QED
      BY <2>2, <2>3, <3>1, Basics
  <2>4. CASE k \in 1 .. Depth
    BY <2>1, <2>2, <2>4, <1>1 DEF DispatchInv, StackOK
  <2> QED
    BY <2>3, <2>4, Basics
<1>6. \A k \in 1 .. Depth' :
        /\ frames'[k].call =< made'
        /\ frames'[k].state \in
             IF k = Depth' THEN {"asked", "run", "done", "dead"}
                           ELSE {"await", "dead"}
        /\ frames'[k].state = "dead" => frames'[k].side = "guest"
        /\ k = 1 => frames'[k].state \in {"run", "await"}
  <2> TAKE k \in 1 .. Depth'
  <2>1. CASE k = Depth + 1
    BY <2>1, Basics
  <2>2. CASE k \in 1 .. Depth
    <3>1. frames[k].call \in Nat /\ frames[k].call =< made /\ k # Depth'
      BY <2>2, Basics DEF DispatchInv, StackOK
    <3>2. frames'[k].call =< made'
      BY <2>2, <3>1, <1>1, Basics
    <3>3. CASE k = Depth
      BY <3>1, <3>2, <3>3, <1>2
    <3>4. CASE k # Depth
      BY <2>2, <3>1, <3>2, <3>4, <1>1 DEF DispatchInv, StackOK
    <3> QED
      BY <3>3, <3>4
  <2> QED
    BY <2>1, <2>2, Basics
<1> QED
  BY <1>3, <1>4, <1>5, <1>6 DEF StackOK

LEMMA PushKeepsHistory ==
    ASSUME DispatchInv, NEW f \in Frame, NEW g \in Frame,
           f.call = Top.call, f.state = "await", Top.state = "run",
           g.call = made + 1, g.state = "asked", made + 1 \in Calls,
           made' = made + 1, Depth' = Depth + 1,
           \A k \in 1 .. Depth : frames'[k] = IF k = Depth THEN f ELSE frames[k],
           frames'[Depth + 1] = g,
           raised' = raised, given' = given
    PROVE  HistoryOK'
<1>1. \A n \in Calls : n > made' => raised'[n] = None
  BY Basics DEF DispatchInv, HistoryOK, Calls
<1>2. \A n \in Calls : raised'[n] = None => given'[n] = None
  BY DEF DispatchInv, HistoryOK
<1>3. raised[made + 1] = None /\ given[made + 1] = None
  BY Basics DEF DispatchInv, HistoryOK, Calls
<1>4. \A k \in 2 .. Depth' :
       /\ given'[frames'[k].call] = None
       /\ frames'[k].state = "dead" => raised'[frames'[k].call] = Died
       /\ frames'[k].state = "done" => raised'[frames'[k].call] \in Result
       /\ frames'[k].state \notin {"dead", "done"} =>
            raised'[frames'[k].call] = None
  <2> TAKE k \in 2 .. Depth'
  <2>1. CASE k = Depth + 1
    BY <2>1, <1>3
  <2>2. CASE k = Depth
    <3>1. frames'[k] = f /\ frames[k] = Top /\ k \in 2 .. Depth
      BY <2>2, Basics DEF Top
    <3>2. given[Top.call] = None /\ raised[Top.call] = None
      BY <3>1 DEF DispatchInv, HistoryOK
    <3> QED
      BY <3>1, <3>2
  <2>3. CASE k \in 2 .. Depth - 1
    <3>1. k \in 2 .. Depth /\ k \in 1 .. Depth /\ k # Depth
      BY <2>3, Basics
    <3>2. frames'[k] = frames[k]
      BY <3>1
    <3> QED
      BY <3>1, <3>2 DEF DispatchInv, HistoryOK
  <2> QED
    BY <2>1, <2>2, <2>3, Basics
<1> QED
  BY <1>1, <1>2, <1>4 DEF HistoryOK

LEMMA AsksStep ==
    ASSUME DispatchInv, NEW side \in {"host", "guest"}, side # Top.side,
           NEW p \in Plugins \cup {None}, NEW counter \in Nat,
           Asks(side, p, counter)
    PROVE  DispatchInv'
<1> DEFINE f == [Top EXCEPT !.state = "await", !.next = counter + 1]
           g == [side |-> side, plugin |-> p, call |-> made + 1,
                 id |-> counter, next |-> 0, state |-> "asked"]
<1>1. /\ Top.state = "run" /\ made' = made + 1
      /\ frames' = Append(TopBecomes(f), g)
      /\ raised' = raised /\ given' = given
  BY DEF Asks
<1>2. made + 1 \in Calls /\ made + 1 \in 0 .. MaxCalls
  BY Basics, Bound DEF Asks, Calls
<1>3. /\ f \in Frame /\ f.call = Top.call /\ f.side = Top.side /\ f.id = Top.id
      /\ f.state = "await" /\ f.next = counter + 1
  <2>1. \A t \in Frame : \A c \in Nat :
          LET u == [t EXCEPT !.state = "await", !.next = c] IN
          /\ u \in Frame /\ u.call = t.call /\ u.side = t.side /\ u.id = t.id
          /\ u.state = "await" /\ u.next = c
    BY DEF Frame
  <2>2. counter + 1 \in Nat
    OBVIOUS
  <2> QED
    BY <2>1, <2>2, Basics
<1>4. /\ g \in Frame /\ g.side # Top.side /\ g.call = made + 1
      /\ g.id = counter /\ g.state = "asked"
  BY <1>2 DEF Frame
<1> HIDE DEF f, g
<1>5. /\ frames' \in Seq(Frame) /\ Depth' = Depth + 1
      /\ \A k \in 1 .. Depth : frames'[k] = IF k = Depth THEN f ELSE frames[k]
      /\ frames'[Depth + 1] = g /\ Top' = g
  <2>1. /\ TopBecomes(f) \in Seq(Frame) /\ Len(TopBecomes(f)) = Depth
        /\ \A j \in 1 .. Depth :
             TopBecomes(f)[j] = IF j = Depth THEN f ELSE frames[j]
    BY <1>3, Basics, Replaced DEF TopBecomes, DispatchInv
  <2> QED
    BY <2>1, <1>1, <1>3, <1>4, Pushed DEF Depth, Top
<1>6. g.id = Pending(f)
  BY <1>3, <1>4 DEF Pending
<1>7. line' \in Requests /\ line'.id = counter
  BY DEF Asks, Requests, Request
<1>8. TypeOK'
  BY <1>1, <1>2, <1>5, <1>7 DEF DispatchInv, TypeOK, Line, Requests
<1>9. StackOK'
  BY <1>1, <1>3, <1>4, <1>5, <1>6, PushKeepsStack
<1>10. HistoryOK'
  BY <1>1, <1>2, <1>3, <1>4, <1>5, PushKeepsHistory
<1>11. LineOK'
  BY <1>4, <1>5, <1>7 DEF LineOK
<1>12. AsRaised'
  BY <1>1 DEF DispatchInv, AsRaised
<1> QED
  BY <1>8, <1>9, <1>10, <1>11, <1>12 DEF DispatchInv

LEMMA SpawnFailsStep ==
    ASSUME DispatchInv, SpawnFails
    PROVE  DispatchInv'
<1>1. made + 1 \in Calls /\ made' = made + 1 /\ made' \in 0 .. MaxCalls
  BY Basics, Bound DEF SpawnFails, Calls
<1>2. /\ raised' = [raised EXCEPT ![made + 1] = SpawnFailed]
      /\ given' = [given EXCEPT ![made + 1] = Meaning(SpawnFailed)]
      /\ Meaning(SpawnFailed) \in Result
  BY MeaningIsResult, OutcomesDiffer
     DEF SpawnFails, IntoRpcError, PluginError, Display
<1>3. UNCHANGED <<frames, line, Depth, Top>>
  BY DEF SpawnFails, Depth, Top
<1>4. TypeOK'
  BY <1>1, <1>2, <1>3, OutcomesDiffer DEF DispatchInv, TypeOK
<1>5. \A k \in 1 .. Depth : frames[k].call \in Nat /\ frames[k].call =< made
  BY Basics, Bound DEF DispatchInv, StackOK, Frame
<1>6. StackOK'
  BY <1>1, <1>3, <1>5, Basics DEF DispatchInv, StackOK, Pending
<1>7. \A n \in Calls : /\ n = made + 1 => raised'[n] = SpawnFailed
                       /\ n # made + 1 => /\ raised'[n] = raised[n]
                                          /\ given'[n] = given[n]
  BY <1>2 DEF DispatchInv, TypeOK
<1>8. HistoryOK'
  <2>1. \A k \in 2 .. Depth : frames[k].call \in Calls /\ frames[k].call # made + 1
    BY <1>5, Basics
  <2> QED
    BY <2>1, <1>1, <1>3, <1>7, OutcomesDiffer, Basics
       DEF DispatchInv, HistoryOK, Calls
<1>9. LineOK'
  <2>1. Top.state = "done" => Top.call \in Calls /\ Top.call # made + 1
    BY <1>5, Basics DEF DispatchInv, StackOK, Top
  <2> QED
    BY <2>1, <1>3, <1>7 DEF DispatchInv, LineOK
<1>10. AsRaised'
  <2>1. given'[made + 1] = Meaning(SpawnFailed)
    BY <1>1, <1>2 DEF DispatchInv, TypeOK
  <2> QED
    BY <2>1, <1>1, <1>7, OutcomesDiffer DEF DispatchInv, AsRaised
<1> QED
  BY <1>4, <1>6, <1>8, <1>9, <1>10 DEF DispatchInv

(***************************************************************************)
(* An activation changes its state and keeps its place: frame number k     *)
(* becomes f.                                                              *)
(***************************************************************************)
LEMMA ChangeKeepsStack ==
    ASSUME DispatchInv, NEW k \in 1 .. Depth, NEW f \in Frame,
           f.side = frames[k].side, f.call = frames[k].call,
           f.id = frames[k].id, f.next = frames[k].next,
           f.state \in IF k = Depth THEN {"run", "done", "dead"} ELSE {"dead"},
           f.state = "dead" => f.side = "guest",
           k # 1,
           frames' = [frames EXCEPT ![k] = f], made' = made
    PROVE  /\ frames' \in Seq(Frame) /\ Depth' = Depth
           /\ \A j \in 1 .. Depth : frames'[j] = IF j = k THEN f ELSE frames[j]
           /\ StackOK'
<1>1. /\ frames' \in Seq(Frame) /\ Depth' = Depth
      /\ \A j \in 1 .. Depth : frames'[j] = IF j = k THEN f ELSE frames[j]
  BY Replaced DEF DispatchInv, Depth
<1>2. \A j \in 1 .. Depth : /\ frames'[j].call = frames[j].call
                            /\ frames'[j].side = frames[j].side
                            /\ frames'[j].id = frames[j].id
                            /\ frames'[j].next = frames[j].next
  BY <1>1
<1>3. Depth' # 0 /\ frames'[1].call = 0 /\ frames'[1].side = "host"
  BY <1>1, <1>2, Basics DEF DispatchInv, StackOK
<1>4. \A j \in 2 .. Depth' : /\ frames'[j].call # 0
                             /\ frames'[j].side # frames'[j - 1].side
                             /\ frames'[j].id = Pending(frames'[j - 1])
  <2> TAKE j \in 2 .. Depth'
  <2>1. j \in 2 .. Depth /\ j \in 1 .. Depth /\ j - 1 \in 1 .. Depth
    BY <1>1, Basics
  <2> QED
    BY <2>1, <1>2 DEF DispatchInv, StackOK, Pending
<1>5. \A i, j \in 1 .. Depth' : i < j => frames'[i].call < frames'[j].call
  BY <1>1, <1>2 DEF DispatchInv, StackOK
<1>6. \A j \in 1 .. Depth' :
        /\ frames'[j].call =< made'
        /\ frames'[j].state \in
             IF j = Depth' THEN {"asked", "run", "done", "dead"}
                           ELSE {"await", "dead"}
        /\ frames'[j].state = "dead" => frames'[j].side = "guest"
        /\ j = 1 => frames'[j].state \in {"run", "await"}
  <2> TAKE j \in 1 .. Depth'
  <2>1. frames'[j].call =< made'
    BY <1>1, <1>2 DEF DispatchInv, StackOK
  <2>2. CASE j = k
    BY <2>1, <2>2, <1>1
  <2>3. CASE j # k
    BY <2>1, <2>3, <1>1 DEF DispatchInv, StackOK
  <2> QED
    BY <2>2, <2>3
<1> QED
  BY <1>1, <1>3, <1>4, <1>5, <1>6 DEF StackOK

\* Nothing but what is raised by call number k's frame changes.
LEMMA ChangeKeepsHistory ==
    ASSUME DispatchInv, NEW k \in 2 .. Depth, NEW f \in Frame,
           f.call = frames[k].call, frames[k].state \notin {"done", "dead"},
           \A j \in 1 .. Depth : frames'[j] = IF j = k THEN f ELSE frames[j],
           Depth' = Depth, made' = made, given' = given,
           \/ /\ f.state \notin {"done", "dead"}
              /\ raised' = raised
           \/ \E o \in Outcome :
                /\ raised' = [raised EXCEPT ![f.call] = o]
                /\ \/ f.state = "dead" /\ o = Died
                   \/ f.state = "done" /\ o \in Result
    PROVE  /\ HistoryOK' /\ AsRaised'
           /\ raised' \in [Calls -> Outcome \cup {None}]
           /\ \A j \in 1 .. Depth : j # k /\ frames[j].call # 0 =>
                raised'[frames[j].call] = raised[frames[j].call]
<1> DEFINE c == f.call
<1>1. /\ c \in Calls /\ c =< made /\ raised[c] = None /\ given[c] = None
      /\ made \in Nat
  BY Basics DEF DispatchInv, StackOK, HistoryOK
<1>2. \A j \in 1 .. Depth : j # k => frames[j].call # c
  <2> TAKE j \in 1 .. Depth
  <2>1. frames[j].call \in Nat /\ frames[k].call \in Nat /\ k \in 1 .. Depth
    BY Basics
  <2>2. /\ j < k => frames[j].call < frames[k].call
        /\ k < j => frames[k].call < frames[j].call
    BY <2>1 DEF DispatchInv, StackOK
  <2> QED
    BY <2>1, <2>2, Basics
<1>3. \A n \in Calls : n # c => raised'[n] = raised[n]
  BY DEF DispatchInv, TypeOK
<1>4. raised' \in [Calls -> Outcome \cup {None}]
  BY DEF DispatchInv, TypeOK
<1>5. \A n \in Calls : n > made' => raised'[n] = None
  BY <1>1, <1>3 DEF DispatchInv, HistoryOK, Calls
<1>6. \A n \in Calls : raised'[n] = None => given'[n] = None
  BY <1>1, <1>3 DEF DispatchInv, HistoryOK
<1>7. \A j \in 2 .. Depth' :
       /\ given'[frames'[j].call] = None
       /\ frames'[j].state = "dead" => raised'[frames'[j].call] = Died
       /\ frames'[j].state = "done" => raised'[frames'[j].call] \in Result
       /\ frames'[j].state \notin {"dead", "done"} =>
            raised'[frames'[j].call] = None
  <2> TAKE j \in 2 .. Depth'
  <2>1. j \in 2 .. Depth /\ j \in 1 .. Depth /\ frames[j].call \in Calls
    BY Basics
  <2>2. CASE j = k
    <3>1. frames'[j] = f
      BY <2>1, <2>2
    <3>2. f.state = "dead" => raised'[c] = Died
      BY <1>1 DEF DispatchInv, TypeOK
    <3>3. f.state = "done" => raised'[c] \in Result
      BY <1>1 DEF DispatchInv, TypeOK
    <3>4. f.state \notin {"dead", "done"} => raised'[c] = None
      BY <1>1
    <3> QED
      BY <3>1, <3>2, <3>3, <3>4, <1>1
  <2>3. CASE j # k
    <3>1. frames'[j] = frames[j] /\ frames[j].call # c
      BY <2>1, <2>3, <1>2
    <3>2. raised'[frames[j].call] = raised[frames[j].call]
      BY <2>1, <3>1, <1>3
    <3> QED
      BY <2>1, <3>1, <3>2 DEF DispatchInv, HistoryOK
  <2> QED
    BY <2>2, <2>3
<1>8. HistoryOK'
  BY <1>5, <1>6, <1>7 DEF HistoryOK
<1>9. AsRaised'
  BY <1>1, <1>3 DEF DispatchInv, AsRaised
<1>10. \A j \in 1 .. Depth : j # k /\ frames[j].call # 0 =>
         raised'[frames[j].call] = raised[frames[j].call]
  BY <1>2, <1>3, Basics
<1> QED
  BY <1>4, <1>8, <1>9, <1>10

LEMMA TopMoves ==
    ASSUME DispatchInv, NEW f \in Frame,
           f.side = Top.side, f.call = Top.call, f.id = Top.id,
           f.next = Top.next, f.state \in {"run", "done"},
           Top.state \in {"asked", "run"}, Top.call # 0,
           frames' = TopBecomes(f), made' = made, given' = given,
           \/ /\ f.state = "run" /\ raised' = raised /\ line' = None
           \/ \E o \in Result : /\ f.state = "done"
                              /\ raised' = [raised EXCEPT ![f.call] = o]
                              /\ line' = Reply(f.id, o)
    PROVE  DispatchInv'
<1>1. Depth \in 2 .. Depth /\ Depth # 1 /\ frames[Depth] = Top
  BY Basics DEF Top
<1>2. /\ frames' \in Seq(Frame) /\ Depth' = Depth /\ StackOK'
      /\ \A j \in 1 .. Depth : frames'[j] = IF j = Depth THEN f ELSE frames[j]
  BY <1>1, Basics, ChangeKeepsStack DEF TopBecomes
<1>3. Top' = f
  BY <1>2, Basics DEF Top, Depth
<1>4. /\ HistoryOK' /\ AsRaised' /\ raised' \in [Calls -> Outcome \cup {None}]
  <2>1. Result \subseteq Outcome
    BY OutcomesDiffer
  <2> QED
    BY <2>1, <1>1, <1>2, ChangeKeepsHistory
<1>5. f.id \in Nat /\ f.call \in Calls
  BY <1>1, Basics DEF Frame
<1>6. line' \in Line \cup {None}
  BY <1>5, ReplyIsRead
<1>7. TypeOK'
  BY <1>2, <1>4, <1>6 DEF DispatchInv, TypeOK
<1>8. LineOK'
  BY <1>3, <1>5 DEF DispatchInv, TypeOK, LineOK
<1> QED
  BY <1>2, <1>4, <1>7, <1>8 DEF DispatchInv

LEMMA GuestDiesStep ==
    ASSUME DispatchInv, NEW k \in 1 .. Depth, GuestDies(k)
    PROVE  DispatchInv'
<1> DEFINE f == [frames[k] EXCEPT !.state = "dead"]
<1>1. /\ frames[k].side = "guest" /\ frames[k].state \in {"asked", "run", "await"}
      /\ frames' = [frames EXCEPT ![k] = f]
      /\ raised' = [raised EXCEPT ![frames[k].call] = Died]
      /\ line' = IF frames[k].state = "asked" THEN None ELSE line
      /\ made' = made /\ given' = given
  BY DEF GuestDies
<1>2. /\ f \in Frame /\ f.side = frames[k].side /\ f.call = frames[k].call
      /\ f.id = frames[k].id /\ f.next = frames[k].next /\ f.state = "dead"
  <2>1. \A t \in Frame : LET u == [t EXCEPT !.state = "dead"] IN
          /\ u \in Frame /\ u.side = t.side /\ u.call = t.call
          /\ u.id = t.id /\ u.next = t.next /\ u.state = "dead"
    BY DEF Frame
  <2> QED
    BY <2>1, Basics
<1> HIDE DEF f
<1>3. k # 1 /\ k \in 2 .. Depth
  BY <1>1, Basics DEF DispatchInv, StackOK
<1>4. /\ frames' \in Seq(Frame) /\ Depth' = Depth /\ StackOK'
      /\ \A j \in 1 .. Depth : frames'[j] = IF j = k THEN f ELSE frames[j]
  BY <1>1, <1>2, <1>3, ChangeKeepsStack
<1>5. /\ HistoryOK' /\ AsRaised' /\ raised' \in [Calls -> Outcome \cup {None}]
      /\ \A j \in 1 .. Depth : j # k /\ frames[j].call # 0 =>
                raised'[frames[j].call] = raised[frames[j].call]
  <2>1. frames[k].state \notin {"done", "dead"}
    BY <1>1
  <2>2. \E o \in Outcome : /\ raised' = [raised EXCEPT ![f.call] = o]
                          /\ \/ f.state = "dead" /\ o = Died
                             \/ f.state = "done" /\ o \in Result
    BY <1>1, <1>2, OutcomesDiffer
  <2> QED
    BY <2>1, <2>2, <1>1, <1>2, <1>3, <1>4, ChangeKeepsHistory, ZenonT(40)
<1>6. TypeOK'
  BY <1>1, <1>4, <1>5 DEF DispatchInv, TypeOK
<1>7. LineOK'
  <2>1. Top' = frames'[Depth]
    BY <1>4 DEF Top
  <2>2. CASE k = Depth
    BY <2>1, <2>2, <1>2, <1>4, Basics DEF LineOK
  <2>3. CASE k # Depth
    <3>1. Top' = Top
      BY <2>1, <2>3, <1>4, Basics DEF Top
    <3>2. frames[k].state = "await" /\ line' = line
      BY <2>3, <1>1 DEF DispatchInv, StackOK
    <3>3. Top.state = "done" => Top.call # 0
      BY Basics DEF DispatchInv, StackOK, Top
    <3>4. Top.state = "done" => raised'[Top.call] = raised[Top.call]
      BY <3>3, <2>3, <1>5, Basics DEF Top
    <3> QED
      BY <3>1, <3>2, <3>4 DEF DispatchInv, LineOK
  <2> QED
    BY <2>2, <2>3
<1> QED
  BY <1>4, <1>5, <1>6, <1>7 DEF DispatchInv

(***************************************************************************)
(* The top leaves the stack.                                               *)
(***************************************************************************)
LEMMA PopKeepsStack ==
    ASSUME DispatchInv, Depth > 1, NEW f \in Frame,
           f.side = Caller.side, f.call = Caller.call, f.id = Caller.id,
           f.next = Caller.next,
           \/ f.state = "run"
           \/ f.state = "dead" /\ Caller.state = "dead",
           Depth' = Depth - 1, made' = made,
           \A j \in 1 .. Depth - 1 :
             frames'[j] = IF j = Depth - 1 THEN f ELSE frames[j]
    PROVE  StackOK'
<1>1. \A j \in 1 .. Depth - 1 : /\ j \in 1 .. Depth /\ j # Depth
                                /\ frames'[j].call = frames[j].call
                                /\ frames'[j].side = frames[j].side
                                /\ frames'[j].id = frames[j].id
                                /\ frames'[j].next = frames[j].next
  BY Basics DEF Caller
<1>2. Depth' # 0 /\ frames'[1].call = 0 /\ frames'[1].side = "host"
  BY <1>1, Basics DEF DispatchInv, StackOK
<1>3. \A j \in 2 .. Depth' : /\ frames'[j].call # 0
                             /\ frames'[j].side # frames'[j - 1].side
                             /\ frames'[j].id = Pending(frames'[j - 1])
  <2> TAKE j \in 2 .. Depth'
  <2>1. j \in 2 .. Depth /\ j \in 1 .. Depth - 1 /\ j - 1 \in 1 .. Depth - 1
    BY Basics
  <2> QED
    BY <2>1, <1>1 DEF DispatchInv, StackOK, Pending
<1>4. \A i, j \in 1 .. Depth' : i < j => frames'[i].call < frames'[j].call
  BY <1>1 DEF DispatchInv, StackOK
<1>5. \A j \in 1 .. Depth' :
        /\ frames'[j].call =< made'
        /\ frames'[j].state \in
             IF j = Depth' THEN {"asked", "run", "done", "dead"}
                           ELSE {"await", "dead"}
        /\ frames'[j].state = "dead" => frames'[j].side = "guest"
        /\ j = 1 => frames'[j].state \in {"run", "await"}
  <2> TAKE j \in 1 .. Depth'
  <2>1. frames'[j].call =< made'
    BY <1>1 DEF DispatchInv, StackOK
  <2>2. CASE j = Depth - 1
    <3>1. frames'[j] = f /\ frames[j] = Caller /\ j \in 1 .. Depth
      BY <2>2, <1>1 DEF Caller
    <3>2. Caller.state = "dead" => Caller.side = "guest" /\ j # 1
      BY <3>1 DEF DispatchInv, StackOK
    <3> QED
      BY <2>1, <2>2, <3>1, <3>2
  <2>3. CASE j # Depth - 1
    <3>1. frames'[j] = frames[j] /\ j \in 1 .. Depth /\ j # Depth /\ j # Depth'
      BY <2>3, <1>1
    <3> QED
      BY <2>1, <3>1 DEF DispatchInv, StackOK
  <2> QED
    BY <2>2, <2>3
<1> QED
  BY <1>2, <1>3, <1>4, <1>5 DEF StackOK

LEMMA PopStep ==
    ASSUME DispatchInv, Top.state \in {"done", "dead"}, NEW f \in Frame,
           f.side = Caller.side, f.call = Caller.call, f.id = Caller.id,
           f.next = Caller.next, frames' \in Seq(Frame), Depth' = Depth - 1,
           \A j \in 1 .. Depth - 1 :
             frames'[j] = IF j = Depth - 1 THEN f ELSE frames[j],
           made' = made, raised' = raised, line' \in {line, None},
           \/ /\ Caller.state = "await" /\ f.state = "run"
              /\ given' = [given EXCEPT ![Top.call] = Meaning(raised[Top.call])]
           \/ /\ Caller.state = "dead" /\ f.state = "dead"
              /\ given' = given
    PROVE  DispatchInv'
<1>1. /\ Depth > 1 /\ Depth \in 2 .. Depth /\ Depth - 1 \in 1 .. Depth
      /\ frames[Depth] = Top /\ frames[Depth - 1] = Caller
  <2>1. Depth # 1
    BY Basics DEF DispatchInv, StackOK, Top
  <2> QED
    BY <2>1, Basics DEF Top, Caller
<1>2. StackOK'
  BY <1>1, PopKeepsStack
<1> DEFINE c == Top.call
<1>3. c \in Calls /\ raised[c] \in Outcome
  BY <1>1, Basics, OutcomesDiffer DEF DispatchInv, HistoryOK
<1>4. raised[c] # None /\ Meaning(raised[c]) \in Result
  BY <1>3, OutcomesDiffer, MeaningIsResult
<1>5. \A n \in Calls : n # c => given'[n] = given[n]
  BY DEF DispatchInv, TypeOK
<1>6. /\ given' \in [Calls -> Result \cup {None}]
      /\ given'[c] \in {given[c], Meaning(raised[c])}
  BY <1>3, <1>4 DEF DispatchInv, TypeOK
<1>7. TypeOK'
  BY <1>6 DEF DispatchInv, TypeOK
<1>8. \A j \in 2 .. Depth - 1 : /\ j \in 2 .. Depth /\ frames[j].call \in Calls
                                /\ frames[j].call # c
  <2> TAKE j \in 2 .. Depth - 1
  <2>1. j \in 1 .. Depth /\ j \in 2 .. Depth /\ j < Depth
    BY Basics
  <2>2. frames[j].call < frames[Depth].call /\ frames[j].call \in Nat
    BY <2>1, Basics DEF DispatchInv, StackOK
  <2> QED
    BY <2>1, <2>2, <1>1, Basics
<1>9. HistoryOK'
  <2>1. \A n \in Calls : n > made' => raised'[n] = None
    BY DEF DispatchInv, HistoryOK
  <2>2. \A n \in Calls : raised'[n] = None => given'[n] = None
    BY <1>4, <1>5 DEF DispatchInv, HistoryOK
  <2>3. \A j \in 2 .. Depth' :
         /\ given'[frames'[j].call] = None
         /\ frames'[j].state = "dead" => raised'[frames'[j].call] = Died
         /\ frames'[j].state = "done" => raised'[frames'[j].call] \in Result
         /\ frames'[j].state \notin {"dead", "done"} =>
              raised'[frames'[j].call] = None
    <3> TAKE j \in 2 .. Depth'
    <3>1. j \in 2 .. Depth - 1 /\ j \in 1 .. Depth - 1
      BY Basics
    <3>2. given'[frames[j].call] = None
      BY <3>1, <1>5, <1>8 DEF DispatchInv, HistoryOK
    <3>3. frames'[j].call = frames[j].call
      BY <3>1, <1>1
    <3>4. CASE j = Depth - 1
      <4>1. frames'[j] = f /\ frames[j] = Caller
        BY <3>1, <3>4, <1>1
      <4> QED
        BY <3>1, <3>2, <3>3, <4>1, <1>8 DEF DispatchInv, HistoryOK
    <3>5. CASE j # Depth - 1
      BY <3>1, <3>2, <3>5, <1>8 DEF DispatchInv, HistoryOK
    <3> QED
      BY <3>4, <3>5
  <2> QED
    BY <2>1, <2>2, <2>3 DEF HistoryOK
<1>10. Top' = f
  BY <1>1, Basics DEF Top, Depth
<1>11. LineOK'
  BY <1>10 DEF LineOK
<1>12. AsRaised'
  BY <1>3, <1>4, <1>5, <1>6 DEF DispatchInv, AsRaised
<1> QED
  BY <1>2, <1>7, <1>9, <1>11, <1>12 DEF DispatchInv

(***************************************************************************)
(* The actions.                                                            *)
(***************************************************************************)
\* Below the top of a stack of two or more is its caller.
LEMMA TopHasCaller ==
    ASSUME DispatchInv, Top.call # 0
    PROVE  /\ Depth > 1 /\ Depth - 1 \in 1 .. Depth /\ Caller = frames[Depth - 1]
           /\ Caller \in Frame /\ Caller.side # Top.side
           /\ Top.id = Pending(Caller) /\ Caller.state \in {"await", "dead"}
           /\ Top.call \in Calls /\ Top.id \in Nat
<1>1. Depth \in 2 .. Depth /\ Depth - 1 \in 1 .. Depth /\ frames[Depth] = Top
  BY Basics DEF Top
<1>2. Depth - 1 # Depth /\ Depth > 1
  BY <1>1
<1>3. /\ frames[Depth].side # frames[Depth - 1].side
      /\ frames[Depth].id = Pending(frames[Depth - 1])
      /\ frames[Depth - 1].state \in {"await", "dead"}
  BY <1>1, <1>2 DEF DispatchInv, StackOK
<1>4. Top.call \in Calls /\ Top.id \in Nat /\ frames[Depth - 1] \in Frame
  BY <1>1, Basics DEF Frame
<1> QED
  BY <1>1, <1>2, <1>3, <1>4 DEF Caller

LEMMA AskedIsCalled ==
    ASSUME DispatchInv, Top.state \in {"asked", "done", "dead"}
    PROVE  Top.call # 0
  BY Basics DEF DispatchInv, StackOK, Top

\* What Serve makes of the top before it looks for the handler.
LEMMA ServedFrame ==
    ASSUME DispatchInv, Top.state = "asked"
    PROVE  LET f == Handling IN
           /\ f \in Frame /\ f.side = Top.side /\ f.call = Top.call
           /\ f.id = Top.id /\ f.next = Top.next
           /\ f.plugin = IF Top.side = "host" THEN Told ELSE Top.plugin
<1>1. line.id = Top.id /\ Top.id \in Nat
  BY AskedIsCalled, TopHasCaller DEF DispatchInv, LineOK
<1>2. Told \in Plugins \cup {None}
  BY AskedIsCalled, TopHasCaller DEF Told, Frame
<1> DEFINE q == IF Top.side = "host" THEN Told ELSE Top.plugin
<1>3. q \in Plugins \cup {None}
  BY <1>2, Basics DEF Frame
<1> HIDE DEF q
<1>4. LET u == [Top EXCEPT !.id = line.id, !.plugin = q] IN
      /\ u \in Frame /\ u.side = Top.side /\ u.call = Top.call
      /\ u.id = line.id /\ u.next = Top.next /\ u.plugin = q
  <2>1. line.id \in Nat /\ Top \in Frame
    BY <1>1, Basics
  <2> QED
    BY <2>1, <1>3 DEF Frame
<1> USE DEF q
<1> QED
  BY <1>1, <1>4 DEF Handling

LEMMA StateSet ==
    ASSUME NEW f \in Frame, NEW s \in {"run", "done"}
    PROVE  LET u == [f EXCEPT !.state = s] IN
           /\ u \in Frame /\ u.side = f.side /\ u.call = f.call /\ u.id = f.id
           /\ u.next = f.next /\ u.plugin = f.plugin /\ u.state = s
  BY DEF Frame

LEMMA ServeStep ==
    ASSUME DispatchInv, Serve
    PROVE  DispatchInv'
<1> DEFINE f == Handling
<1>1. Top.state = "asked" /\ made' = made /\ given' = given
  BY DEF Serve
<1>2. /\ f \in Frame /\ f.side = Top.side /\ f.call = Top.call
      /\ f.id = Top.id /\ f.next = Top.next
  BY <1>1, ServedFrame
<1>3. \/ Ends(f, Err("MethodNotFound"))
      \/ Ends(f, Err("InvalidParams"))
      \/ frames' = TopBecomes([f EXCEPT !.state = "run"]) /\ line' = None /\ raised' = raised
  BY DEF Serve
<1> HIDE DEF f
<1>4. Err("MethodNotFound") \in Result /\ Err("InvalidParams") \in Result
  BY OutcomesDiffer DEF Named, Result
<1>5. CASE \E o \in Result : Ends(f, o)
  <2> DEFINE u == [f EXCEPT !.state = "done"]
  <2>1. /\ u \in Frame /\ u.side = f.side /\ u.call = f.call /\ u.id = f.id
        /\ u.next = f.next /\ u.state = "done"
    BY <1>2, StateSet
  <2>2. frames' = TopBecomes(u) /\ \E o \in Result : /\ raised' = [raised EXCEPT ![f.call] = o]
                                                  /\ line' = Reply(f.id, o)
    BY <1>5 DEF Ends
  <2> HIDE DEF u
  <2> QED
    BY <2>1, <2>2, <1>1, <1>2, AskedIsCalled, TopMoves
<1>6. CASE frames' = TopBecomes([f EXCEPT !.state = "run"]) /\ line' = None /\ raised' = raised
  <2> DEFINE u == [f EXCEPT !.state = "run"]
  <2>1. /\ u \in Frame /\ u.side = f.side /\ u.call = f.call /\ u.id = f.id
        /\ u.next = f.next /\ u.state = "run"
    BY <1>2, StateSet
  <2>2. frames' = TopBecomes(u)
    BY <1>6
  <2> HIDE DEF u
  <2> QED
    BY <2>1, <2>2, <1>1, <1>2, <1>6, AskedIsCalled, TopMoves
<1> QED
  BY <1>3, <1>4, <1>5, <1>6

LEMMA HandlerEndsStep ==
    ASSUME DispatchInv, HandlerEnds
    PROVE  DispatchInv'
<1>1. Top.call \in Calls
  BY TopHasCaller DEF HandlerEnds
<1>2. PICK o \in Result : Ends(Top, o)
  BY <1>1 DEF HandlerEnds, HandlerOutcome, Result
<1> DEFINE u == [Top EXCEPT !.state = "done"]
<1>3. /\ u \in Frame /\ u.side = Top.side /\ u.call = Top.call /\ u.id = Top.id
      /\ u.next = Top.next /\ u.state = "done"
  BY StateSet, Basics
<1>4. /\ frames' = TopBecomes(u) /\ raised' = [raised EXCEPT ![u.call] = o]
      /\ line' = Reply(u.id, o)
  BY <1>2, <1>3 DEF Ends
<1> HIDE DEF u
<1> QED
  BY <1>3, <1>4, TopMoves DEF HandlerEnds

\* What the caller makes of a reply that is read, or of a stdout that ends.
LEMMA DeliveryFrames ==
    ASSUME DispatchInv, Top.call # 0
    PROVE  LET u == [Caller EXCEPT !.state = "run"] IN
           /\ u \in Frame /\ u.side = Caller.side /\ u.call = Caller.call
           /\ u.id = Caller.id /\ u.next = Caller.next /\ u.state = "run"
           /\ Below \in Seq(Frame) /\ Len(Below) = Depth - 1
           /\ Pops \in Seq(Frame) /\ Len(Pops) = Depth - 1
           /\ \A j \in 1 .. Depth - 1 :
                /\ Below[j] = IF j = Depth - 1 THEN Caller ELSE frames[j]
                /\ Pops[j] = IF j = Depth - 1 THEN u ELSE frames[j]
<1>1. TypeOK /\ Depth > 1 /\ Caller \in Frame /\ Caller = frames[Depth - 1]
  BY TopHasCaller DEF DispatchInv
<1>2. LET u == [Caller EXCEPT !.state = "run"] IN
      /\ u \in Frame /\ u.side = Caller.side /\ u.call = Caller.call
      /\ u.id = Caller.id /\ u.next = Caller.next /\ u.state = "run"
  BY <1>1, StateSet
<1>3. /\ Below \in Seq(Frame) /\ Len(Below) = Depth - 1
      /\ Pops \in Seq(Frame) /\ Len(Pops) = Depth - 1
  BY <1>1, Popped
<1>4. \A j \in 1 .. Depth - 1 :
        /\ Below[j] = IF j = Depth - 1 THEN Caller ELSE frames[j]
        /\ Pops[j] = IF j = Depth - 1 THEN [Caller EXCEPT !.state = "run"]
                                       ELSE frames[j]
  BY <1>1, Popped
<1> QED
  BY <1>2, <1>3, <1>4

LEMMA SeenIsMeant ==
    ASSUME NEW f \in Frame, NEW e
    PROVE  Seen(f, e) = e
  BY DEF Seen, IntoRpcError, PluginError

LEMMA DeliverGives ==
    ASSUME DispatchInv, Deliver
    PROVE  /\ frames' = Pops /\ line' = None /\ made' = made /\ raised' = raised
           /\ Top.state = "done" /\ Caller.state = "await"
           /\ given' = [given EXCEPT ![Top.call] = Meaning(raised[Top.call])]
<1> DEFINE o == raised[Top.call]
<1>1. Top.state = "done" /\ Caller.state = "await" /\ Top.call # 0
  BY AskedIsCalled DEF Deliver
<1>2. /\ Caller \in Frame /\ Top.id = Pending(Caller) /\ Top.id \in Nat
      /\ Top.call \in Calls
  BY <1>1, TopHasCaller
<1>3. o \in Result /\ line = Reply(Top.id, o)
  <2>1. Depth \in 2 .. Depth /\ frames[Depth] = Top
    BY <1>1, Basics DEF Top
  <2> QED
    BY <2>1, <1>1 DEF DispatchInv, HistoryOK, LineOK
<1>4. Meaning(o) = o
  BY <1>3, MeaningIsResult
<1>5. CASE o \in RpcError
  <2>1. Kind(line) = "error" /\ Deserialize(line.error) = o
    BY <1>2, <1>3, <1>5, ReplyIsRead
  <2> QED
    BY <2>1, <1>1, <1>2, <1>4, SeenIsMeant DEF Deliver
<1>6. CASE o \notin RpcError
  <2>1. Kind(line) = "response" /\ line.id = Top.id /\ Value(line.result) = o
    BY <1>2, <1>3, <1>6, ReplyIsRead
  <2> QED
    BY <2>1, <1>1, <1>2, <1>4 DEF Deliver
<1> QED
  BY <1>5, <1>6

LEMMA DeliverEofGives ==
    ASSUME DispatchInv, DeliverEof
    PROVE  /\ frames' = Pops /\ line' = line /\ made' = made /\ raised' = raised
           /\ Top.state = "dead" /\ Caller.state = "await"
           /\ given' = [given EXCEPT ![Top.call] = Meaning(raised[Top.call])]
<1>1. Top.state = "dead" /\ Top.call # 0
  BY AskedIsCalled DEF DeliverEof
<1>2. Depth \in 2 .. Depth /\ Depth \in 1 .. Depth /\ frames[Depth] = Top
  BY <1>1, Basics DEF Top
<1>3. Top.side = "guest" /\ raised[Top.call] = Died
  BY <1>1, <1>2 DEF DispatchInv, StackOK, HistoryOK
<1>4. Caller.state = "await" /\ Caller \in Frame
  BY <1>1, <1>3, TopHasCaller DEF DispatchInv, StackOK
<1> QED
  BY <1>1, <1>3, <1>4, MeaningIsResult, SeenIsMeant DEF DeliverEof

LEMMA ReturnSteps ==
    ASSUME DispatchInv, Deliver \/ DeliverEof \/ DeliverToNobody
    PROVE  DispatchInv'
<1>1. Top.call # 0 /\ Top.state \in {"done", "dead"}
  BY AskedIsCalled DEF Deliver, DeliverEof, DeliverToNobody
<1>2. CASE Deliver \/ DeliverEof
  <2>1. /\ frames' = Pops /\ line' \in {line, None} /\ made' = made /\ raised' = raised
        /\ Caller.state = "await"
        /\ given' = [given EXCEPT ![Top.call] = Meaning(raised[Top.call])]
    BY <1>2, DeliverGives, DeliverEofGives
  <2> DEFINE u == [Caller EXCEPT !.state = "run"]
  <2>2. /\ u \in Frame /\ u.side = Caller.side /\ u.call = Caller.call
        /\ u.id = Caller.id /\ u.next = Caller.next /\ u.state = "run"
        /\ frames' \in Seq(Frame) /\ Depth' = Depth - 1
        /\ \A j \in 1 .. Depth - 1 :
             frames'[j] = IF j = Depth - 1 THEN u ELSE frames[j]
    BY <2>1, <1>1, DeliveryFrames DEF Depth
  <2> HIDE DEF u
  <2> QED
    BY <2>1, <2>2, <1>1, PopStep
<1>3. CASE DeliverToNobody
  <2>1. /\ frames' \in Seq(Frame) /\ Depth' = Depth - 1 /\ Caller \in Frame
        /\ \A j \in 1 .. Depth - 1 :
             frames'[j] = IF j = Depth - 1 THEN Caller ELSE frames[j]
    BY <1>1, <1>3, DeliveryFrames, TopHasCaller DEF Depth, DeliverToNobody
  <2> QED
    BY <2>1, <1>1, <1>3, PopStep DEF DeliverToNobody
<1> QED
  BY <1>2, <1>3, <1>1

LEMMA NextDispatchInv == DispatchInv /\ [Next]_vars => DispatchInv'
<1> SUFFICES ASSUME DispatchInv, [Next]_vars
             PROVE  DispatchInv'
  OBVIOUS
<1>1. ASSUME NEW p \in Plugins, CallPlugin(p)
      PROVE  DispatchInv'
  BY <1>1, AsksStep DEF CallPlugin
<1>2. CASE SpawnFails
  BY <1>2, SpawnFailsStep
<1>3. CASE CallHost
  <2>1. Top.next \in Nat
    BY Basics DEF Frame
  <2> QED
    BY <2>1, <1>3, AsksStep DEF CallHost
<1>4. CASE Serve
  BY <1>4, ServeStep
<1>5. CASE HandlerEnds
  BY <1>5, HandlerEndsStep
<1>6. ASSUME NEW k \in 1 .. Depth, GuestDies(k)
      PROVE  DispatchInv'
  BY <1>6, GuestDiesStep
<1>7. CASE Deliver \/ DeliverEof \/ DeliverToNobody
  BY <1>7, ReturnSteps
<1>8. CASE UNCHANGED vars
  BY <1>8 DEF vars, DispatchInv, TypeOK, StackOK, HistoryOK, LineOK, AsRaised,
              Depth, Top, Pending
<1> QED
  BY <1>1, <1>2, <1>3, <1>4, <1>5, <1>6, <1>7, <1>8 DEF Next, Wait

LEMMA Invariance == Spec => []DispatchInv
  BY InitDispatchInv, NextDispatchInv, PTL DEF Spec

\* Frames, lines, ids and outcomes keep their types.
THEOREM DispatchTyped == Spec => []TypeOK
<1>1. DispatchInv => TypeOK
  BY DEF DispatchInv
<1> QED
  BY <1>1, Invariance, PTL

\* A caller is given what was raised where its call was served, and nothing
\* else (process_message, RpcError, From<PluginError>).
THEOREM DispatchAsRaised == Spec => []AsRaised
<1>1. DispatchInv => AsRaised
  BY DEF DispatchInv
<1> QED
  BY <1>1, Invariance, PTL

(***************************************************************************)
(* Dispatch implements NestedCalls.  What is needed beyond the invariant   *)
(* is that every guest is one of the plugins.                              *)
(***************************************************************************)
GuestsKnown ==
    \A k \in 1 .. Depth : frames[k].side = "guest" => frames[k].plugin \in Plugins

Activated == [call : Nat, side : {"host", "guest"}, plugin : Plugins \cup {None}]

LEMMA ActivationsAre ==
    ASSUME NEW fs \in Seq(Frame), Len(fs) # 0
    PROVE  /\ Begun(fs) \in 0 .. Len(fs)
           /\ Activations(fs) \in Seq(Activated)
           /\ Len(Activations(fs)) = Begun(fs)
           /\ \A k \in 1 .. Begun(fs) : Activations(fs)[k] = Activation(fs[k])
<1>1. Begun(fs) \in 0 .. Len(fs) /\ Begun(fs) \in Nat
  BY DEF Begun
<1>2. \A f \in Frame : f.call \in 0 .. MaxCalls
  BY DEF Frame
<1>3. \A f \in Frame : f.call \in Nat
  BY <1>2, Bound
<1>4. \A f \in Frame : Activation(f) \in Activated
  BY <1>3 DEF Frame, Activation, Activated
<1>5. Activations(fs) \in [1 .. Begun(fs) -> Activated]
  BY <1>1, <1>4 DEF Activations
<1> QED
  BY <1>1, <1>5 DEF Activations

\* Frames whose activations are the same give the same stack.
LEMMA SameActivations ==
    ASSUME NEW fs \in Seq(Frame), NEW gs \in Seq(Frame), Len(fs) # 0, Len(gs) # 0,
           Begun(fs) = Begun(gs),
           \A k \in 1 .. Begun(fs) : /\ fs[k].call = gs[k].call
                                     /\ fs[k].side = gs[k].side
                                     /\ fs[k].plugin = gs[k].plugin
    PROVE  Activations(fs) = Activations(gs)
  BY DEF Activations, Activation

LEMMA OneMore ==
    ASSUME NEW fs \in Seq(Frame), NEW gs \in Seq(Frame), Len(fs) # 0, Len(gs) # 0,
           Begun(gs) = Begun(fs) + 1,
           \A k \in 1 .. Begun(fs) : /\ fs[k].call = gs[k].call
                                     /\ fs[k].side = gs[k].side
                                     /\ fs[k].plugin = gs[k].plugin
    PROVE  /\ Activations(gs) = Append(Activations(fs), Activation(gs[Begun(gs)]))
           /\ Activations(fs) = SubSeq(Activations(gs), 1, Len(Activations(gs)) - 1)
<1> DEFINE s == Activations(fs)
           t == Activations(gs)
           n == Begun(fs)
           e == Activation(gs[Begun(gs)])
<1>1. /\ n \in Nat /\ n + 1 \in 1 .. Begun(gs)
      /\ s \in Seq(Activated) /\ Len(s) = n
      /\ t \in Seq(Activated) /\ Len(t) = n + 1
      /\ \A k \in 1 .. n : s[k] = Activation(fs[k]) /\ t[k] = Activation(gs[k])
      /\ t[n + 1] = e
  BY ActivationsAre
<1>2. \A k \in 1 .. n : s[k] = t[k]
  BY <1>1 DEF Activation
<1>3. e \in Activated
  BY <1>1, ElementOfSeq
<1> HIDE DEF s, t, n, e
<1>4. /\ Append(s, e) \in Seq(Activated) /\ Len(Append(s, e)) = n + 1
      /\ \A k \in 1 .. n : Append(s, e)[k] = s[k]
      /\ Append(s, e)[n + 1] = e
  BY <1>1, <1>3, AppendProperties
<1>5. t = Append(s, e)
  BY <1>1, <1>2, <1>4, SeqEqual
<1>6. /\ SubSeq(t, 1, n) \in Seq(Activated) /\ Len(SubSeq(t, 1, n)) = n
      /\ \A k \in 1 .. n : SubSeq(t, 1, n)[k] = t[k]
  <2>1. \A k \in 1 .. n : t[k] \in Activated
    BY <1>1
  <2> QED
    BY <2>1, <1>1, SubSeqProperties
<1>7. s = SubSeq(t, 1, n)
  BY <1>1, <1>2, <1>6, SeqEqual
<1>8. Len(t) - 1 = n
  BY <1>1
<1> USE DEF s, t, n, e
<1> QED
  BY <1>5, <1>7, <1>8

LEMMA MeantIs ==
    ASSUME DispatchInv
    PROVE  \A n \in Calls : /\ Meant[n] = None <=> raised[n] = None
                            /\ raised[n] # None => Meant[n] = Meaning(raised[n])
  BY MeaningIsResult DEF Meant, DispatchInv, TypeOK

\* Raising an outcome is raising its meaning.
LEMMA RaisedIsMeant ==
    ASSUME DispatchInv, NEW c \in Calls, NEW o \in Outcome,
           raised' = [raised EXCEPT ![c] = o]
    PROVE  Meant' = [Meant EXCEPT ![c] = Meaning(o)]
<1>1. o # None
  BY OutcomesDiffer
<1> QED
  BY <1>1 DEF Meant, DispatchInv, TypeOK

\* How the stack of activations looks in any reachable state.
LEMMA StackIs ==
    ASSUME DispatchInv
    PROVE  /\ frames \in Seq(Frame) /\ Len(frames) # 0 /\ Depth = Len(frames)
           /\ Begun(frames) = IF Top.state = "asked" THEN Depth - 1 ELSE Depth
           /\ Begun(frames) \in Nat \ {0} /\ Begun(frames) \in 1 .. Depth
           /\ Len(Activations(frames)) = Begun(frames)
           /\ \A k \in 1 .. Begun(frames) :
                /\ Activations(frames)[k].call = frames[k].call
                /\ Activations(frames)[k].side = frames[k].side
                /\ Activations(frames)[k].plugin = frames[k].plugin
<1>1. frames \in Seq(Frame) /\ Len(frames) # 0 /\ Depth = Len(frames)
  BY DEF DispatchInv, TypeOK, StackOK, Depth
<1>2. Begun(frames) = IF Top.state = "asked" THEN Depth - 1 ELSE Depth
  BY DEF Begun, Top, Depth
<1>3. Top.state = "asked" => Depth > 1
  BY AskedIsCalled, TopHasCaller
<1>4. Begun(frames) \in Nat \ {0} /\ Begun(frames) \in 1 .. Depth
  BY <1>2, <1>3, Basics
<1>5. /\ Len(Activations(frames)) = Begun(frames)
      /\ \A k \in 1 .. Begun(frames) : Activations(frames)[k] = Activation(frames[k])
  BY <1>1, ActivationsAre
<1>6. \A k \in 1 .. Begun(frames) :
        /\ Activation(frames[k]).call = frames[k].call
        /\ Activation(frames[k]).side = frames[k].side
        /\ Activation(frames[k]).plugin = frames[k].plugin
  BY DEF Activation
<1> QED
  BY <1>1, <1>2, <1>4, <1>5, <1>6

\* What Asks leaves of the stack.
LEMMA AskedFrames ==
    ASSUME DispatchInv, NEW side \in {"host", "guest"},
           NEW p \in Plugins \cup {None}, NEW counter \in Nat,
           Asks(side, p, counter)
    PROVE  /\ frames' \in Seq(Frame) /\ Len(frames') = Depth + 1
           /\ \A k \in 1 .. Depth : /\ frames'[k].call = frames[k].call
                                    /\ frames'[k].side = frames[k].side
                                    /\ frames'[k].plugin = frames[k].plugin
           /\ frames'[Depth + 1].side = side /\ frames'[Depth + 1].plugin = p
           /\ frames'[Depth + 1].state = "asked"
<1> DEFINE f == [Top EXCEPT !.state = "await", !.next = counter + 1]
           g == [side |-> side, plugin |-> p, call |-> made + 1,
                 id |-> counter, next |-> 0, state |-> "asked"]
<1>1. frames' = Append(TopBecomes(f), g)
  BY DEF Asks
<1>2. made + 1 \in 0 .. MaxCalls
  BY Basics, Bound DEF Asks
<1>3. f \in Frame /\ f.call = Top.call /\ f.side = Top.side /\ f.plugin = Top.plugin
  <2>1. \A t \in Frame : \A c \in Nat :
          LET u == [t EXCEPT !.state = "await", !.next = c] IN
          u \in Frame /\ u.call = t.call /\ u.side = t.side /\ u.plugin = t.plugin
    BY DEF Frame
  <2>2. counter + 1 \in Nat
    OBVIOUS
  <2> QED
    BY <2>1, <2>2, Basics
<1>4. g \in Frame /\ g.side = side /\ g.plugin = p /\ g.state = "asked"
  BY <1>2 DEF Frame
<1> HIDE DEF f, g
<1>5. /\ TopBecomes(f) \in Seq(Frame) /\ Len(TopBecomes(f)) = Depth
      /\ \A j \in 1 .. Depth : TopBecomes(f)[j] = IF j = Depth THEN f ELSE frames[j]
  BY <1>3, Basics, Replaced DEF TopBecomes, DispatchInv
<1>6. /\ frames' \in Seq(Frame) /\ Len(frames') = Depth + 1
      /\ \A k \in 1 .. Depth : frames'[k] = IF k = Depth THEN f ELSE frames[k]
      /\ frames'[Depth + 1] = g
  BY <1>1, <1>4, <1>5, Pushed
<1> QED
  BY <1>3, <1>4, <1>6 DEF Top

\* A call that was asked for has no activation yet.
LEMMA AsksNested ==
    ASSUME DispatchInv, NEW side \in {"host", "guest"},
           NEW p \in Plugins \cup {None}, NEW counter \in Nat,
           Asks(side, p, counter)
    PROVE  UNCHANGED Nested!vars
<1>1. Top.state = "run" /\ raised' = raised /\ given' = given
  BY DEF Asks
<1>2. /\ frames' \in Seq(Frame) /\ Len(frames') = Depth + 1
      /\ frames'[Depth + 1].state = "asked" /\ Depth \in Nat
  BY AskedFrames, Basics
<1>3. Begun(frames') = Depth
  BY <1>2 DEF Begun
<1>4. Begun(frames) = Depth /\ frames \in Seq(Frame) /\ Len(frames) # 0
  BY <1>1, StackIs
<1>5. Len(frames') # 0
  BY <1>2
<1>6. Activations(frames) = Activations(frames')
  BY <1>2, <1>3, <1>4, <1>5, AskedFrames, SameActivations
<1> QED
  BY <1>1, <1>6 DEF Nested!vars, Meant

LEMMA SpawnFailsNested ==
    ASSUME DispatchInv, SpawnFails
    PROVE  Nested!Next
<1> DEFINE c == made + 1
           o == Custom("spawn_error")
<1>1. c \in Calls
  BY Basics, Bound DEF SpawnFails, Calls
<1>2. o = Meaning(SpawnFailed) /\ o \in Result /\ SpawnFailed \in Outcome
  BY MeaningIsResult, OutcomesDiffer
<1>3. /\ raised' = [raised EXCEPT ![c] = SpawnFailed] /\ frames' = frames
      /\ given' = [given EXCEPT ![c] = o]
  BY DEF SpawnFails, IntoRpcError, PluginError, Display
<1>4. raised[c] = None
  <2>1. c > made
    BY Basics
  <2> QED
    BY <2>1, <1>1 DEF DispatchInv, HistoryOK
<1>5. \A k \in 1 .. Len(Activations(frames)) : Activations(frames)[k].call # c
  <2> TAKE k \in 1 .. Len(Activations(frames))
  <2>1. k \in 1 .. Depth /\ Activations(frames)[k].call = frames[k].call
    BY StackIs, Basics
  <2>2. frames[k].call =< made /\ frames[k].call \in Nat
    BY <2>1, Basics DEF DispatchInv, StackOK
  <2> QED
    BY <2>1, <2>2, Basics
<1>6. Nested!New(c)
  BY <1>1, <1>4, <1>5, MeantIs DEF Nested!New
<1>7. Meant' = [Meant EXCEPT ![c] = o]
  <2> HIDE DEF c, o
  <2> QED
    BY <1>1, <1>2, <1>3, RaisedIsMeant
<1>8. Nested!Fail(c, o)
  BY <1>3, <1>6, <1>7 DEF Nested!Fail
<1> QED
  BY <1>1, <1>2, <1>8 DEF Nested!Next

\* An activation begins when its handler is looked up, or when it dies before.
LEMMA BeginNested ==
    ASSUME DispatchInv, GuestsKnown, DispatchInv', Top.state = "asked",
           NEW f \in Frame, f.side = Top.side, f.call = Top.call,
           f.state # "asked",
           f.plugin = IF Top.side = "host" THEN Told ELSE Top.plugin,
           frames' = TopBecomes(f), given' = given,
           \/ raised' = raised
           \/ \E o \in Outcome : raised' = [raised EXCEPT ![f.call] = o]
    PROVE  Nested!Next
<1> DEFINE c == f.call
           p == f.plugin
<1>1. /\ Depth > 1 /\ Depth - 1 \in 1 .. Depth /\ Caller = frames[Depth - 1]
      /\ Caller \in Frame /\ Caller.side # Top.side /\ Top.side \in {"host", "guest"}
      /\ Caller.state \in {"await", "dead"} /\ c \in Calls
  BY AskedIsCalled, TopHasCaller, Basics DEF Frame
<1>2. /\ Begun(frames) = Depth - 1 /\ Len(Activations(frames)) = Depth - 1
      /\ Depth \in 1 .. Depth /\ Depth \in Nat
  BY StackIs, Basics
<1>3. /\ frames' \in Seq(Frame) /\ Len(frames') = Depth /\ frames'[Depth] = f
      /\ \A k \in 1 .. Depth - 1 : k \in 1 .. Depth /\ frames'[k] = frames[k]
  BY <1>2, Replaced, Basics DEF TopBecomes, DispatchInv
<1>4. Begun(frames') = Depth /\ Len(frames') # 0 /\ frames \in Seq(Frame) /\ Len(frames) # 0
  BY <1>1, <1>3, StackIs DEF Begun
<1>5. Activations(frames') = Append(Activations(frames), Activation(f))
  <2>1. Begun(frames') = Begun(frames) + 1
    BY <1>2, <1>4
  <2> QED
    BY <2>1, <1>2, <1>3, <1>4, OneMore, SMTT(30)
<1>6. p \in Plugins /\ (Caller.side = "guest" => p = Caller.plugin)
  <2>1. CASE Top.side = "host"
    <3>1. p = Caller.plugin /\ Caller.side = "guest"
      BY <2>1, <1>1 DEF Told, Frame
    <3> QED
      BY <3>1, <1>1 DEF GuestsKnown
  <2>2. CASE Top.side = "guest"
    <3>1. p = Top.plugin /\ Caller.side # "guest"
      BY <2>2, <1>1
    <3>2. Top.plugin \in Plugins
      BY <2>2, <1>2 DEF GuestsKnown, Top
    <3> QED
      BY <3>1, <3>2
  <2> QED
    BY <2>1, <2>2, <1>1
<1>7. /\ Nested!Top.call = Caller.call /\ Nested!Top.side = Caller.side
      /\ Nested!Top.plugin = Caller.plugin
  BY <1>1, <1>2, StackIs DEF Nested!Top
<1>8. Nested!New(c)
  <2>1. Depth \in 2 .. Depth /\ frames[Depth] = Top
    BY <1>1, <1>2 DEF Top
  <2>2. raised[c] = None
    BY <2>1 DEF DispatchInv, HistoryOK
  <2>3. ASSUME NEW k \in 1 .. Depth - 1
        PROVE  Activations(frames)[k].call # c
    <3>1. k \in 1 .. Depth /\ k < Depth /\ Activations(frames)[k].call = frames[k].call
      BY <1>2, StackIs
    <3>2. frames[k].call < frames[Depth].call /\ frames[k].call \in Nat
      BY <3>1, <1>2, Basics DEF DispatchInv, StackOK
    <3> QED
      BY <3>1, <3>2, <2>1
  <2> QED
    BY <2>2, <2>3, <1>1, <1>2, MeantIs DEF Nested!New
<1>9. \/ Caller.call = 0 \/ Meant[Caller.call] = None \/ Caller.side = "guest"
  <2>1. CASE Caller.state = "dead"
    BY <2>1, <1>1 DEF DispatchInv, StackOK
  <2>2. CASE Caller.state = "await" /\ Caller.call # 0
    <3>1. Depth - 1 \in 2 .. Depth /\ Caller.call \in Calls
      BY <2>2, <1>1, Basics
    <3>2. raised[Caller.call] = None
      BY <3>1, <2>2, <1>1 DEF DispatchInv, HistoryOK
    <3> QED
      BY <3>1, <3>2, MeantIs
  <2> QED
    BY <2>1, <2>2, <1>1
<1>10. \E o \in Result \cup {None} : Meant' = [Meant EXCEPT ![c] = o]
  <2>1. CASE raised' = raised
    <3>1. Meant' = Meant /\ Meant[c] = None
      BY <2>1, <1>1, <1>8 DEF Meant, Nested!New
    <3>2. Meant = [Meant EXCEPT ![c] = None]
      BY <3>1 DEF Meant
    <3> QED
      BY <3>1, <3>2
  <2>2. CASE \E o \in Outcome : raised' = [raised EXCEPT ![c] = o]
    BY <2>2, <1>1, RaisedIsMeant, MeaningIsResult
  <2> QED
    BY <2>1, <2>2
<1>11. Activation(f) = [call |-> c, plugin |-> p,
                        side |-> IF Caller.side = "guest" THEN "host" ELSE "guest"]
  BY <1>1 DEF Activation, Frame
<1>12. \E o \in Result \cup {None} : Nested!Invoke(c, p, o)
  BY <1>5, <1>6, <1>7, <1>8, <1>9, <1>10, <1>11 DEF Nested!Invoke
<1> QED
  BY <1>1, <1>6, <1>12 DEF Nested!Next

\* An activation that has begun raises an outcome, or a guest below it dies.
LEMMA RaiseNested ==
    ASSUME DispatchInv, NEW k \in 1 .. Begun(frames), k # 1,
           NEW o \in Outcome, raised' = [raised EXCEPT ![frames[k].call] = o],
           raised[frames[k].call] = None, given' = given,
           \/ k = Begun(frames)
           \/ frames[k].side = "guest" /\ o = Died,
           frames' \in Seq(Frame), Len(frames') = Depth,
           Begun(frames') = Begun(frames),
           \A j \in 1 .. Depth : /\ frames'[j].call = frames[j].call
                                 /\ frames'[j].side = frames[j].side
                                 /\ frames'[j].plugin = frames[j].plugin
    PROVE  Nested!Next
<1> DEFINE c == frames[k].call
<1>1. /\ k \in 1 .. Depth /\ frames \in Seq(Frame) /\ Len(frames) # 0
      /\ \A j \in 1 .. Begun(frames) : j \in 1 .. Depth
  BY StackIs, Basics
<1>2. c \in Calls /\ c # 0
  BY <1>1, Basics
<1>3. Activations(frames') = Activations(frames)
  <2>1. Len(frames') # 0
    BY Basics
  <2> QED
    BY <2>1, <1>1, SameActivations
<1>4. /\ Len(Activations(frames)) = Begun(frames)
      /\ Activations(frames)[k].call = c
      /\ Activations(frames)[k].side = frames[k].side
  BY StackIs
<1>5. Meant[c] = None /\ Meant' = [Meant EXCEPT ![c] = Meaning(o)]
  BY <1>2, MeantIs, RaisedIsMeant
<1>6. Meaning(o) \in Result /\ (o = Died => Meaning(o) = Err("InternalError"))
  BY MeaningIsResult
<1>7. Nested!Raise(k, Meaning(o))
  BY <1>2, <1>3, <1>4, <1>5, <1>6 DEF Nested!Raise
<1> QED
  BY <1>4, <1>6, <1>7 DEF Nested!Next

LEMMA ServeNested ==
    ASSUME DispatchInv, GuestsKnown, DispatchInv', Serve
    PROVE  Nested!Next /\ GuestsKnown'
<1> DEFINE f == Handling
<1>1. Top.state = "asked" /\ given' = given
  BY DEF Serve
<1>2. /\ f \in Frame /\ f.side = Top.side /\ f.call = Top.call
      /\ f.plugin = IF Top.side = "host" THEN Told ELSE Top.plugin
  BY <1>1, ServedFrame
<1>3. \/ \E o \in Outcome : Ends(f, o)
      \/ frames' = TopBecomes([f EXCEPT !.state = "run"]) /\ raised' = raised
  <2>1. Err("MethodNotFound") \in Outcome /\ Err("InvalidParams") \in Outcome
    BY OutcomesDiffer DEF Named, Outcome, Result
  <2> QED
    BY <2>1 DEF Serve
<1> HIDE DEF f
<1>4. PICK s \in {"run", "done"} :
        /\ frames' = TopBecomes([f EXCEPT !.state = s])
        /\ \/ raised' = raised
           \/ \E o \in Outcome : raised' = [raised EXCEPT ![f.call] = o]
  BY <1>3 DEF Ends
<1> DEFINE u == [f EXCEPT !.state = s]
<1>5. /\ u \in Frame /\ u.side = Top.side /\ u.call = Top.call
      /\ u.plugin = f.plugin /\ u.state # "asked"
  <2>1. /\ u \in Frame /\ u.side = f.side /\ u.call = f.call
        /\ u.plugin = f.plugin /\ u.state = s
    BY <1>2, StateSet
  <2> QED
    BY <2>1, <1>2
<1>6. frames' = TopBecomes(u)
  BY <1>4
<1> HIDE DEF u
<1>7. Nested!Next
  BY <1>1, <1>2, <1>4, <1>5, <1>6, BeginNested, ZenonT(40)
<1>8. /\ Depth' = Depth /\ Depth \in 1 .. Depth
      /\ \A k \in 1 .. Depth : frames'[k] = IF k = Depth THEN u ELSE frames[k]
  BY <1>5, <1>6, Replaced, Basics DEF TopBecomes, DispatchInv, Depth
<1>9. GuestsKnown'
  BY <1>2, <1>5, <1>8 DEF GuestsKnown, Top
<1> QED
  BY <1>7, <1>9

\* The frames of an action that only sets the state of frame k.
LEMMA OneStateSet ==
    ASSUME DispatchInv, NEW k \in 1 .. Depth, NEW s \in {"done", "dead"},
           frames' = [frames EXCEPT ![k] = [frames[k] EXCEPT !.state = s]]
    PROVE  /\ frames' \in Seq(Frame) /\ Len(frames') = Depth
           /\ \A j \in 1 .. Depth : /\ frames'[j].call = frames[j].call
                                    /\ frames'[j].side = frames[j].side
                                    /\ frames'[j].plugin = frames[j].plugin
           /\ frames'[k].state = s
           /\ \A j \in 1 .. Depth : j # k => frames'[j] = frames[j]
<1> DEFINE u == [frames[k] EXCEPT !.state = s]
<1>1. /\ u \in Frame /\ u.call = frames[k].call /\ u.side = frames[k].side
      /\ u.plugin = frames[k].plugin /\ u.state = s
  <2>1. \A t \in Frame : LET v == [t EXCEPT !.state = s] IN
          /\ v \in Frame /\ v.call = t.call /\ v.side = t.side
          /\ v.plugin = t.plugin /\ v.state = s
    BY DEF Frame
  <2> QED
    BY <2>1, Basics
<1> HIDE DEF u
<1>2. /\ frames' \in Seq(Frame) /\ Len(frames') = Depth
      /\ \A j \in 1 .. Depth : frames'[j] = IF j = k THEN u ELSE frames[j]
  <2>1. frames' = [frames EXCEPT ![k] = u]
    BY DEF u
  <2> QED
    BY <2>1, <1>1, Replaced DEF DispatchInv
<1> QED
  BY <1>1, <1>2

LEMMA HandlerEndsNested ==
    ASSUME DispatchInv, GuestsKnown, HandlerEnds
    PROVE  Nested!Next /\ GuestsKnown'
<1>1. /\ Top.state = "run" /\ Top.call # 0 /\ given' = given
      /\ Depth \in 1 .. Depth /\ Top = frames[Depth] /\ Depth \in Nat
  BY Basics DEF HandlerEnds, Top
<1>2. Top.call \in Calls /\ Depth > 1
  BY <1>1, TopHasCaller
<1>3. PICK o \in Outcome : Ends(Top, o)
  BY <1>2 DEF HandlerEnds, HandlerOutcome, Outcome, Result
<1>4. /\ frames' = [frames EXCEPT ![Depth] = [frames[Depth] EXCEPT !.state = "done"]]
      /\ raised' = [raised EXCEPT ![frames[Depth].call] = o]
  BY <1>3 DEF Ends, TopBecomes, Top
<1>5. /\ frames' \in Seq(Frame) /\ Len(frames') = Depth
      /\ frames'[Depth].state = "done"
      /\ \A j \in 1 .. Depth : /\ frames'[j].call = frames[j].call
                               /\ frames'[j].side = frames[j].side
                               /\ frames'[j].plugin = frames[j].plugin
  BY <1>1, <1>4, OneStateSet
<1>6. /\ Begun(frames) = Depth /\ Begun(frames') = Depth
      /\ Depth \in 1 .. Begun(frames) /\ Depth # 1
  BY <1>1, <1>2, <1>5, StackIs DEF Begun
<1>7. raised[frames[Depth].call] = None
  <2>1. Depth \in 2 .. Depth
    BY <1>1, <1>2
  <2> QED
    BY <2>1, <1>1 DEF DispatchInv, HistoryOK
<1>8. Nested!Next
  BY <1>1, <1>4, <1>5, <1>6, <1>7, RaiseNested
<1>9. GuestsKnown'
  BY <1>5 DEF GuestsKnown, Depth
<1> QED
  BY <1>8, <1>9

LEMMA GuestDiesNested ==
    ASSUME DispatchInv, GuestsKnown, DispatchInv', NEW k \in 1 .. Depth, GuestDies(k)
    PROVE  Nested!Next /\ GuestsKnown'
<1>1. /\ frames[k].side = "guest" /\ frames[k].state \in {"asked", "run", "await"}
      /\ frames' = [frames EXCEPT ![k] = [frames[k] EXCEPT !.state = "dead"]]
      /\ raised' = [raised EXCEPT ![frames[k].call] = Died]
      /\ given' = given
  BY DEF GuestDies
<1>2. /\ frames' \in Seq(Frame) /\ Len(frames') = Depth
      /\ \A j \in 1 .. Depth : /\ frames'[j].call = frames[j].call
                               /\ frames'[j].side = frames[j].side
                               /\ frames'[j].plugin = frames[j].plugin
      /\ frames'[k].state = "dead"
      /\ \A j \in 1 .. Depth : j # k => frames'[j] = frames[j]
  BY <1>1, OneStateSet
<1>3. k # 1 /\ k \in 2 .. Depth /\ Depth \in 1 .. Depth /\ Depth \in Nat
  BY <1>1, Basics DEF DispatchInv, StackOK
<1>4. Died \in Outcome
  BY OutcomesDiffer
<1>5. GuestsKnown'
  BY <1>2 DEF GuestsKnown, Depth
<1>6. CASE frames[k].state = "asked"
  <2>1. k = Depth /\ frames[k] = Top
    BY <1>3, <1>6 DEF DispatchInv, StackOK, Top
  <2> DEFINE f == [Top EXCEPT !.state = "dead"]
  <2>2. /\ f \in Frame /\ f.side = Top.side /\ f.call = Top.call
        /\ f.state # "asked" /\ f.plugin = Top.plugin
    BY Basics DEF Frame
  <2>3. /\ frames' = TopBecomes(f) /\ raised' = [raised EXCEPT ![f.call] = Died]
        /\ Top.side # "host" /\ Top.state = "asked"
    BY <2>1, <2>2, <1>1, <1>6 DEF TopBecomes
  <2> HIDE DEF f
  <2>4. Nested!Next
    BY <2>2, <2>3, <1>1, <1>4, BeginNested
  <2> QED
    BY <2>4, <1>5
<1>7. CASE frames[k].state # "asked"
  <2>1. Begun(frames') = Begun(frames)
    BY <1>2, <1>3, <1>7, StackIs DEF Begun, Top
  <2>2. k \in 1 .. Begun(frames)
    BY <1>3, <1>7, StackIs DEF Top
  <2>3. raised[frames[k].call] = None
    BY <1>1, <1>3 DEF DispatchInv, HistoryOK
  <2>4. Nested!Next
    BY <2>1, <2>2, <2>3, <1>1, <1>2, <1>3, <1>4, RaiseNested
  <2> QED
    BY <2>4, <1>5
<1> QED
  BY <1>6, <1>7

LEMMA ReturnNested ==
    ASSUME DispatchInv, GuestsKnown, Deliver \/ DeliverEof \/ DeliverToNobody
    PROVE  Nested!Next /\ GuestsKnown'
<1>1. /\ Top.state \in {"done", "dead"} /\ Top.call # 0 /\ raised' = raised
      /\ frames' \in {Pops, Below}
      /\ frames' = Below => Caller.state = "dead" \/ Below = Pops
  BY AskedIsCalled, DeliverGives DEF Deliver, DeliverEof, DeliverToNobody
<1>2. /\ Depth > 1 /\ Depth - 1 \in 1 .. Depth /\ Caller = frames[Depth - 1]
      /\ Caller \in Frame /\ Caller.state \in {"await", "dead"}
      /\ Top.call \in Calls /\ Depth \in Nat
      /\ Depth \in 2 .. Depth /\ frames[Depth] = Top
  BY <1>1, TopHasCaller, Basics DEF Top
<1>3. /\ frames' \in Seq(Frame) /\ Len(frames') = Depth - 1
      /\ \A j \in 1 .. Depth - 1 : /\ frames'[j].call = frames[j].call
                                   /\ frames'[j].side = frames[j].side
                                   /\ frames'[j].plugin = frames[j].plugin
      /\ frames'[Depth - 1].state # "asked"
  <2> DEFINE u == [Caller EXCEPT !.state = "run"]
  <2>1. /\ u.side = Caller.side /\ u.call = Caller.call /\ u.plugin = Caller.plugin
        /\ u.state = "run"
    BY <1>2, StateSet
  <2>2. /\ Below \in Seq(Frame) /\ Len(Below) = Depth - 1
        /\ Pops \in Seq(Frame) /\ Len(Pops) = Depth - 1
        /\ \A j \in 1 .. Depth - 1 :
             /\ Below[j] = IF j = Depth - 1 THEN Caller ELSE frames[j]
             /\ Pops[j] = IF j = Depth - 1 THEN u ELSE frames[j]
    BY <1>1, DeliveryFrames
  <2> HIDE DEF u
  <2>3. Depth - 1 \in 1 .. Depth - 1
    BY <1>2
  <2> QED
    BY <2>1, <2>2, <2>3, <1>1, <1>2
<1>4. /\ Begun(frames) = Depth /\ Begun(frames') = Depth - 1
      /\ frames \in Seq(Frame) /\ Len(frames) # 0 /\ Len(frames') # 0
      /\ Len(Activations(frames)) = Depth
  BY <1>1, <1>2, <1>3, StackIs DEF Begun
<1>5. Activations(frames') = SubSeq(Activations(frames), 1, Len(Activations(frames)) - 1)
  <2>1. Begun(frames) = Begun(frames') + 1
    BY <1>2, <1>4
  <2> QED
    BY <2>1, <1>3, <1>4, OneMore
<1>6. /\ Nested!Top.call = Top.call
      /\ Activations(frames)[Len(Activations(frames)) - 1].call = Caller.call
  BY <1>2, <1>4, StackIs DEF Nested!Top
<1>7. Meant' = Meant
  BY <1>1 DEF Meant
<1>8. Meant[Top.call] # None /\ Meant[Top.call] = Meaning(raised[Top.call])
  <2>1. raised[Top.call] # None
    BY <1>1, <1>2, OutcomesDiffer DEF DispatchInv, HistoryOK
  <2> QED
    BY <2>1, <1>2, MeantIs
<1>9. \/ /\ Caller.call = 0 \/ Meant[Caller.call] = None
         /\ given' = [given EXCEPT ![Top.call] = Meant[Top.call]]
      \/ Caller.call # 0 /\ Meant[Caller.call] # None /\ given' = given
  <2>1. CASE Deliver \/ DeliverEof
    <3>1. /\ Caller.state = "await"
          /\ given' = [given EXCEPT ![Top.call] = Meaning(raised[Top.call])]
      BY <2>1, DeliverGives, DeliverEofGives
    <3>2. CASE Caller.call # 0
      <4>1. Depth - 1 \in 2 .. Depth /\ Caller.call \in Calls
        BY <3>2, <1>2, Basics
      <4>2. raised[Caller.call] = None
        BY <3>1, <4>1, <1>2 DEF DispatchInv, HistoryOK
      <4> QED
        BY <3>1, <4>1, <4>2, <1>8, MeantIs
    <3> QED
      BY <3>1, <3>2, <1>8
  <2>2. CASE DeliverToNobody
    <3>1. Caller.state = "dead" /\ given' = given
      BY <2>2 DEF DeliverToNobody
    <3>2. Depth - 1 # 1
      BY <3>1, <1>2 DEF DispatchInv, StackOK
    <3>3. Depth - 1 \in 2 .. Depth /\ Caller.call \in Calls /\ Caller.call # 0
      BY <3>2, <1>2, Basics
    <3>4. raised[Caller.call] # None
      BY <3>1, <3>3, <1>2, OutcomesDiffer DEF DispatchInv, HistoryOK
    <3> QED
      BY <3>1, <3>3, <3>4, MeantIs
  <2> QED
    BY <2>1, <2>2
<1>10. Nested!Return
  BY <1>1, <1>5, <1>6, <1>7, <1>8, <1>9 DEF Nested!Return
<1>11. GuestsKnown'
  <2>1. Depth' = Depth - 1 /\ \A k \in 1 .. Depth - 1 : k \in 1 .. Depth
    BY <1>2, <1>3 DEF Depth
  <2> QED
    BY <2>1, <1>3 DEF GuestsKnown
<1> QED
  BY <1>10, <1>11 DEF Nested!Next

LEMMA AsksKeepsGuests ==
    ASSUME DispatchInv, GuestsKnown, NEW side \in {"host", "guest"},
           NEW p \in Plugins \cup {None}, NEW counter \in Nat,
           side = "guest" => p \in Plugins,
           Asks(side, p, counter)
    PROVE  GuestsKnown'
<1>1. /\ Depth' = Depth + 1 /\ Depth \in Nat
      /\ \A k \in 1 .. Depth : /\ frames'[k].side = frames[k].side
                               /\ frames'[k].plugin = frames[k].plugin
      /\ frames'[Depth + 1].side = side /\ frames'[Depth + 1].plugin = p
  BY AskedFrames, Basics DEF Depth
<1>2. \A k \in 1 .. Depth + 1 : k \in 1 .. Depth \/ k = Depth + 1
  BY <1>1
<1> QED
  BY <1>1, <1>2 DEF GuestsKnown

LEMMA InitNested == Init => Nested!Init /\ GuestsKnown
<1> SUFFICES ASSUME Init
             PROVE  Nested!Init /\ GuestsKnown
  OBVIOUS
<1>1. frames = <<App>> /\ Len(frames) = 1 /\ frames[1] = App
  BY DEF Init
<1>2. Begun(frames) = 1
  BY <1>1 DEF Begun, App
<1>3. Activation(App) = [call |-> 0, side |-> "host", plugin |-> None]
  BY DEF Activation, App
<1>4. Activations(frames) = <<Activation(App)>>
  BY <1>1, <1>2 DEF Activations
<1>5. Meant = [n \in Calls |-> None] /\ given = [n \in Calls |-> None]
  BY DEF Init, Meant
<1>6. Nested!Init
  BY <1>3, <1>4, <1>5 DEF Nested!Init
<1>7. GuestsKnown
  BY <1>1 DEF GuestsKnown, Depth, App
<1> QED
  BY <1>6, <1>7

LEMMA NextNested ==
    ASSUME DispatchInv, GuestsKnown, DispatchInv', [Next]_vars
    PROVE  [Nested!Next]_(Nested!vars) /\ GuestsKnown'
<1>1. ASSUME NEW p \in Plugins, CallPlugin(p)
      PROVE  UNCHANGED Nested!vars /\ GuestsKnown'
  BY <1>1, AsksNested, AsksKeepsGuests DEF CallPlugin
<1>2. CASE SpawnFails
  <2>1. GuestsKnown'
    BY <1>2 DEF SpawnFails, GuestsKnown, Depth
  <2> QED
    BY <2>1, <1>2, SpawnFailsNested
<1>3. CASE CallHost
  <2>1. Top.next \in Nat
    BY Basics DEF Frame
  <2>2. UNCHANGED Nested!vars
    BY <2>1, <1>3, AsksNested DEF CallHost
  <2>3. GuestsKnown'
    BY <2>1, <1>3, AsksKeepsGuests DEF CallHost
  <2> QED
    BY <2>2, <2>3
<1>4. CASE Serve
  BY <1>4, ServeNested
<1>5. CASE HandlerEnds
  BY <1>5, HandlerEndsNested
<1>6. ASSUME NEW k \in 1 .. Depth, GuestDies(k)
      PROVE  Nested!Next /\ GuestsKnown'
  BY <1>6, GuestDiesNested
<1>7. CASE Deliver \/ DeliverEof \/ DeliverToNobody
  BY <1>7, ReturnNested
<1>8. CASE UNCHANGED vars
  <2>1. GuestsKnown' /\ Activations(frames)' = Activations(frames)
    BY <1>8 DEF vars, GuestsKnown, Depth, Activations, Begun
  <2>2. Meant' = Meant /\ given' = given
    BY <1>8 DEF vars, Meant
  <2> QED
    BY <2>1, <2>2 DEF Nested!vars
<1> QED
  BY <1>1, <1>2, <1>3, <1>4, <1>5, <1>6, <1>7, <1>8 DEF Next, Wait

\* Calls nest: whatever fails and whoever dies, the activations are a stack
\* on which a host method knows the plugin that called it, and each caller
\* that is alive is given the outcome of its own call, once (Plugin::call,
\* PluginCallback::handle, HostServer::handle, PluginServer::run).
THEOREM DispatchImplementsNested == Spec => CallsNest
<1>1. Init => Nested!Init /\ DispatchInv /\ GuestsKnown
  BY InitDispatchInv, InitNested
<1>2. DispatchInv /\ GuestsKnown /\ DispatchInv' /\ [Next]_vars
        => [Nested!Next]_(Nested!vars) /\ GuestsKnown'
  BY NextNested
<1> QED
  BY <1>1, <1>2, Invariance, PTL DEF Spec, CallsNest, Nested!Spec
=============================================================================
