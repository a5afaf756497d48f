------------------------ MODULE NonBlockingPipeProofs ------------------------
(***************************************************************************)
(* Proofs about NonBlockingPipe for every alphabet, every set of writes,   *)
(* every set of positive read sizes and every bound: the pipe neither      *)
(* loses nor reorders a byte, reports the end only after the last one,     *)
(* never parks a reader on data, and implements ByteChannel.               *)
(***************************************************************************)
EXTENDS NonBlockingPipe, PipeOpsProofs

(***************************************************************************)
(* The invariant of the proofs: the three safety properties and the types  *)
(* are inductive together with the states a reader's task can be in, which *)
(* NonBlockingPipe gives as TaskStates: a synchronous reader is never      *)
(* parked, and an asynchronous one that saw the end does not poll again.   *)
(***************************************************************************)
PipeInv == /\ TypeOK
           /\ TaskStates
           /\ NoByteLost
           /\ EofAfterLastByte
           /\ ParkedReaderIsWakeable

LEMMA InitPipeInv == Init => PipeInv
<1> SUFFICES ASSUME Init
             PROVE  PipeInv
  OBVIOUS
<1>1. <<>> \in Seq(Byte)
  BY EmptySeq
<1>2. pipe = [buf |-> <<>>, closed |-> FALSE, waker |-> FALSE]
  BY DEF Init, NewPipe
<1>3. TypeOK
  <2>1. pipe \in Inner(Byte)
    BY <1>1, <1>2, Zenon DEF Inner
  <2>2. sent \in Seq(Byte) /\ received \in Seq(Byte)
    BY <1>1, Zenon DEF Init
  <2> QED
    BY <2>1, <2>2 DEF Init, TypeOK
<1>4. NoByteLost
  BY <1>1, <1>2, ConcatEmptySeq DEF Init, NoByteLost
<1> QED
  BY <1>3, <1>4
     DEF Init, PipeInv, TaskStates, EofAfterLastByte, ParkedReaderIsWakeable

LEMMA ReadKeepsBytes ==
    ASSUME TypeOK, NoByteLost, NEW n \in Nat \ {0}
    PROVE  /\ received \o Taken(pipe, n) \in Seq(Byte)
           /\ sent = (received \o Taken(pipe, n)) \o AfterTaking(pipe, n)
<1>1. /\ Taken(pipe, n) \in Seq(Byte)
      /\ AfterTaking(pipe, n) \in Seq(Byte)
      /\ Taken(pipe, n) \o AfterTaking(pipe, n) = pipe.buf
  BY TakenSplitsBuffer DEF TypeOK
<1>2. \A t, u \in Seq(Byte) : (received \o t) \o u = received \o (t \o u)
  BY ConcatAssociative DEF TypeOK
<1>3. received \o Taken(pipe, n) \in Seq(Byte)
  BY <1>1, ConcatProperties DEF TypeOK
<1>4. (received \o Taken(pipe, n)) \o AfterTaking(pipe, n)
        = received \o (Taken(pipe, n) \o AfterTaking(pipe, n))
  BY <1>1, <1>2, Zenon
<1>5. received \o (Taken(pipe, n) \o AfterTaking(pipe, n)) = sent
  BY <1>1, Zenon DEF NoByteLost
<1> QED
  BY <1>3, <1>4, <1>5, Zenon

LEMMA StepPipeInv == PipeInv /\ [Next]_vars => PipeInv'
<1> SUFFICES ASSUME PipeInv, [Next]_vars
             PROVE  PipeInv'
  OBVIOUS
<1> USE DEF PipeInv
<1>1. ASSUME NEW items \in Chunks, Write(items)
      PROVE  PipeInv'
  <2>1. items \in Seq(Byte)
    BY PipeAssumption
  <2>2. /\ pipe.buf \o items \in Seq(Byte)
        /\ sent \o items \in Seq(Byte)
    BY <2>1, ConcatProperties DEF TypeOK, Inner
  <2>3. pipe' = [pipe EXCEPT !.buf = pipe.buf \o items, !.waker = FALSE]
    BY <1>1 DEF Write, WritePipe
  <2>4. TypeOK'
    BY <1>1, <2>2, <2>3 DEF Write, TypeOK, Inner, Woken
  <2>5. sent \o items = received \o (pipe.buf \o items)
    BY <2>1, ConcatAssociative DEF TypeOK, NoByteLost, Inner
  <2>6. NoByteLost'
    BY <1>1, <2>3, <2>5 DEF Write, NoByteLost, TypeOK, Inner
  <2>7. EofAfterLastByte'
    BY <1>1 DEF Write, EofAfterLastByte
  <2>8. task' # "parked"
    <3>1. WritePipe(pipe, items).wake = pipe.waker
      BY DEF WritePipe
    <3>2. CASE task = "parked"
      BY <1>1, <3>1, <3>2 DEF Write, ParkedReaderIsWakeable, Woken
    <3>3. CASE task # "parked"
      BY <1>1, <3>3 DEF Write, Woken
    <3> QED
      BY <3>2, <3>3
  <2>9. TaskStates'
    BY <1>1, <2>8 DEF Write, TaskStates, Woken
  <2> QED
    BY <2>4, <2>6, <2>7, <2>8, <2>9 DEF ParkedReaderIsWakeable
<1>2. CASE Drop
  <2>1. pipe' = [pipe EXCEPT !.closed = TRUE, !.waker = FALSE]
    BY <1>2 DEF Drop, DropPipe, TypeOK, Inner
  <2>2. task' = task
    BY <1>2 DEF Drop, DropPipe, Woken, TypeOK, Inner
  <2> QED
    BY <1>2, <2>1, <2>2
       DEF Drop, TypeOK, Inner, TaskStates, NoByteLost, EofAfterLastByte,
           ParkedReaderIsWakeable
<1>3. ASSUME NEW n \in ReadSizes, Read(n)
      PROVE  PipeInv'
  <2>1. n \in Nat \ {0}
    BY PipeAssumption
  <2>2. pipe' = [pipe EXCEPT !.buf = AfterTaking(pipe, n)]
    BY <1>3 DEF Read, ReadPipe
  <2>3. /\ AfterTaking(pipe, n) \in Seq(Byte)
        /\ Taken(pipe, n) = <<>> => pipe.buf = <<>>
        /\ Taken(pipe, n) \o AfterTaking(pipe, n) = pipe.buf
    BY <2>1, TakenSplitsBuffer DEF TypeOK
  <2>4. /\ received' \in Seq(Byte)
        /\ sent = received' \o AfterTaking(pipe, n)
    BY <1>3, <2>1, ReadKeepsBytes DEF Read
  <2>5. TypeOK'
    BY <1>3, <2>2, <2>3, <2>4 DEF Read, TypeOK, Inner
  <2>6. NoByteLost'
    BY <1>3, <2>2, <2>4 DEF Read, NoByteLost, TypeOK, Inner
  <2>7. EofAfterLastByte'
    <3> SUFFICES ASSUME eof'
                 PROVE  pipe'.closed /\ received' = sent'
      BY DEF EofAfterLastByte
    <3>1. pipe.closed /\ pipe.buf = <<>>
      <4>1. CASE eof
        <5>1. received \o pipe.buf = received
          BY <4>1 DEF EofAfterLastByte, NoByteLost
        <5> QED
          BY <4>1, <5>1, ConcatEqualIffEmpty
             DEF EofAfterLastByte, TypeOK, Inner
      <4>2. CASE Outcome(pipe, n) = "eof"
        BY <4>2, <2>3 DEF Outcome
      <4> QED
        BY <1>3, <4>1, <4>2 DEF Read
    <3>2. AfterTaking(pipe, n) = <<>>
      BY <2>1, <3>1, EmptySeq DEF AfterTaking
    <3>3. sent = received'
      BY <2>4, <3>2, ConcatEmptySeq
    <3> QED
      BY <1>3, <2>2, <3>1, <3>3 DEF Read, TypeOK, Inner
  <2>8. task' # "parked" /\ TaskStates'
    BY <1>3 DEF Read, TaskStates
  <2> QED
    BY <2>5, <2>6, <2>7, <2>8 DEF ParkedReaderIsWakeable
<1>4. ASSUME NEW n \in ReadSizes, PollRead(n)
      PROVE  PipeInv'
  <2>1. n \in Nat \ {0}
    BY PipeAssumption
  <2>2. pipe' = [pipe EXCEPT !.buf = AfterTaking(pipe, n),
                             !.waker = (Outcome(pipe, n) = "wouldBlock")]
    BY <1>4 DEF PollRead, PollPipe
  <2>3. /\ AfterTaking(pipe, n) \in Seq(Byte)
        /\ Taken(pipe, n) = <<>> => pipe.buf = <<>>
    BY <2>1, TakenSplitsBuffer DEF TypeOK
  <2>4. /\ received' \in Seq(Byte)
        /\ sent = received' \o AfterTaking(pipe, n)
    BY <1>4, <2>1, ReadKeepsBytes DEF PollRead
  <2>5. pipe.buf = <<>> => AfterTaking(pipe, n) = <<>>
    BY <2>1, EmptySeq DEF AfterTaking
  <2>6. Outcome(pipe, n) \in {"data", "eof", "wouldBlock"}
    BY DEF Outcome
  <2>7. TypeOK'
    BY <1>4, <2>2, <2>3, <2>4, <2>6 DEF PollRead, TypeOK, Inner
  <2>8. TaskStates'
    BY <1>4, <2>6 DEF PollRead, TaskStates
  <2>9. NoByteLost'
    BY <1>4, <2>2, <2>4 DEF PollRead, NoByteLost, TypeOK, Inner
  <2>10. EofAfterLastByte'
    <3> SUFFICES ASSUME eof'
                 PROVE  pipe'.closed /\ received' = sent'
      BY DEF EofAfterLastByte
    <3>1. pipe.closed /\ pipe.buf = <<>>
      BY <1>4, <2>3 DEF PollRead, Outcome
    <3>2. sent = received'
      BY <2>4, <2>5, <3>1, ConcatEmptySeq
    <3> QED
      BY <1>4, <2>2, <3>1, <3>2 DEF PollRead, TypeOK, Inner
  <2>11. ParkedReaderIsWakeable'
    <3> SUFFICES ASSUME task' = "parked"
                 PROVE  pipe'.waker /\ pipe'.buf = <<>>
      BY DEF ParkedReaderIsWakeable
    <3>1. Outcome(pipe, n) = "wouldBlock"
      BY <1>4, <2>6 DEF PollRead
    <3>2. pipe.buf = <<>>
      BY <2>3, <3>1 DEF Outcome
    <3> QED
      BY <2>2, <2>5, <3>1, <3>2 DEF TypeOK, Inner
  <2> QED
    BY <2>7, <2>8, <2>9, <2>10, <2>11
<1>5. CASE SiblingWake
  BY <1>5 DEF SiblingWake, TypeOK, TaskStates, NoByteLost, EofAfterLastByte,
              ParkedReaderIsWakeable
<1>6. CASE UNCHANGED vars
  BY <1>6 DEF vars, TypeOK, TaskStates, NoByteLost, EofAfterLastByte,
              ParkedReaderIsWakeable
<1> QED
  BY <1>1, <1>2, <1>3, <1>4, <1>5, <1>6 DEF Next

(***************************************************************************)
(* The safety properties, for every value of the constants.                *)
(***************************************************************************)

\* The state of a pipe and of its reader keep their types.
THEOREM PipeTyped == Spec => []TypeOK
<1>1. PipeInv => TypeOK
  BY DEF PipeInv
<1> QED
  BY <1>1, InitPipeInv, StepPipeInv, PTL DEF Spec

\* read, poll_read and write lose, repeat and reorder nothing.
THEOREM PipeKeepsBytes == Spec => []NoByteLost
<1>1. PipeInv => NoByteLost
  BY DEF PipeInv
<1> QED
  BY <1>1, InitPipeInv, StepPipeInv, PTL DEF Spec

\* Dropping the writer never costs the reader a byte written before.
THEOREM PipeEndsAfterLastByte == Spec => []EofAfterLastByte
<1>1. PipeInv => EofAfterLastByte
  BY DEF PipeInv
<1> QED
  BY <1>1, InitPipeInv, StepPipeInv, PTL DEF Spec

\* While the writer exists, a parked reader has nothing to read and is woken by
\* the next write.
THEOREM PipeNeverParksOnData == Spec => []ParkedReaderIsWakeable
<1>1. PipeInv => ParkedReaderIsWakeable
  BY DEF PipeInv
<1> QED
  BY <1>1, InitPipeInv, StepPipeInv, PTL DEF Spec

(***************************************************************************)
(* The pipe implements ByteChannel: a write is a Send, the drop of the     *)
(* writer a Close, a read with data a Receive, a read that reports the end *)
(* an End, and a read that would block changes nothing one can observe.    *)
(***************************************************************************)
LEMMA InitChannel == Init => Channel!Init
  BY DEF Init, Channel!Init, NewPipe

\* What a read that leaves the waker to be what it may does to the channel.
LEMMA ReadIsChannelStep ==
    ASSUME PipeInv, NEW n \in Nat \ {0}, Outcome(pipe, n) = "eof" \/ ~eof,
           received' = received \o Taken(pipe, n),
           eof' = (eof \/ Outcome(pipe, n) = "eof"),
           pipe'.closed = pipe.closed, UNCHANGED sent
    PROVE  [Channel!Next]_(Channel!vars)
<1> USE DEF PipeInv
<1>1. /\ Taken(pipe, n) \in Seq(Byte)
      /\ AfterTaking(pipe, n) \in Seq(Byte)
      /\ received \in Seq(Byte)
      /\ eof \in BOOLEAN /\ pipe.closed \in BOOLEAN
  BY TakenSplitsBuffer DEF TypeOK, Inner
<1>2. /\ received' \in Seq(Byte)
      /\ sent = received' \o AfterTaking(pipe, n)
  BY ReadKeepsBytes
<1>3. CASE Taken(pipe, n) # <<>>
  <2>1. Len(received) < Len(received') /\ Len(received) \in Nat
    BY <1>1, <1>3, PrefixOfConcat, LenProperties
  <2>2. /\ received' = SubSeq(sent, 1, Len(received'))
        /\ Len(received') =< Len(sent)
    BY <1>1, <1>2, PrefixOfConcat
  <2>3. Len(received') \in 1 .. Len(sent)
    BY <1>2, <2>1, <2>2, LenProperties, ConcatProperties
  <2>4. UNCHANGED <<sent, ~pipe.closed, eof>>
    BY <1>1, <1>3 DEF Outcome
  <2>5. Channel!Receive
    BY <2>1, <2>2, <2>3, <2>4 DEF Channel!Receive
  <2> QED
    BY <2>5 DEF Channel!Next
<1>4. CASE Taken(pipe, n) = <<>>
  <2>1. received' = received
    BY <1>1, <1>4, ConcatEmptySeq
  <2>2. CASE Outcome(pipe, n) = "eof"
    <3>1. pipe.closed
      BY <1>4, <2>2 DEF Outcome
    <3>2. received' = sent'
      <4>1. pipe.buf = <<>>
        BY <1>4, TakenSplitsBuffer DEF TypeOK
      <4>2. AfterTaking(pipe, n) = <<>>
        BY <4>1, EmptySeq DEF AfterTaking
      <4> QED
        BY <1>2, <4>2, ConcatEmptySeq
    <3>3. Channel!End
      BY <1>1, <2>1, <2>2, <3>1, <3>2 DEF Channel!End
    <3> QED
      BY <3>3 DEF Channel!Next
  <2>3. CASE Outcome(pipe, n) # "eof"
    BY <1>1, <2>1, <2>3 DEF Channel!vars
  <2> QED
    BY <2>2, <2>3
<1> QED
  BY <1>3, <1>4

LEMMA StepChannel == PipeInv /\ [Next]_vars => [Channel!Next]_(Channel!vars)
<1> SUFFICES ASSUME PipeInv, [Next]_vars
             PROVE  [Channel!Next]_(Channel!vars)
  OBVIOUS
<1> USE DEF PipeInv
<1>1. ASSUME NEW items \in Chunks, Write(items)
      PROVE  [Channel!Next]_(Channel!vars)
  <2>1. items \in Seq(Byte) /\ sent \in Seq(Byte)
    BY PipeAssumption DEF TypeOK
  <2>2. sent' = sent \o items /\ UNCHANGED <<received, eof>>
    BY <1>1 DEF Write
  <2>3. /\ sent' \in Seq(Byte)
        /\ Len(sent) =< Len(sent')
        /\ SubSeq(sent', 1, Len(sent)) = sent
    BY <2>1, <2>2, PrefixOfConcat, ConcatProperties
  <2>4. ~pipe.closed /\ UNCHANGED (~pipe.closed)
    BY <1>1 DEF Write, WritePipe, TypeOK, Inner
  <2>5. Channel!Send
    BY <2>2, <2>3, <2>4 DEF Channel!Send
  <2> QED
    BY <2>5 DEF Channel!Next
<1>2. CASE Drop
  <2>1. Channel!Close
    BY <1>2 DEF Drop, DropPipe, TypeOK, Inner, Channel!Close
  <2> QED
    BY <2>1 DEF Channel!Next
<1>3. ASSUME NEW n \in ReadSizes, Read(n)
      PROVE  [Channel!Next]_(Channel!vars)
  <2>1. n \in Nat \ {0}
    BY PipeAssumption
  <2>2. pipe'.closed = pipe.closed
    BY <1>3 DEF Read, ReadPipe, TypeOK, Inner
  <2>3. Outcome(pipe, n) = "eof" \/ ~eof
    <3> SUFFICES ASSUME eof
                 PROVE  Outcome(pipe, n) = "eof"
      OBVIOUS
    <3>1. pipe.closed /\ received \o pipe.buf = received
      BY DEF EofAfterLastByte, NoByteLost
    <3>2. pipe.buf = <<>>
      BY <3>1, ConcatEqualIffEmpty DEF TypeOK, Inner
    <3>3. Taken(pipe, n) = <<>>
      BY <2>1, <3>2, EmptySeq DEF Taken
    <3> QED
      BY <3>1, <3>3 DEF Outcome
  <2> QED
    BY <1>3, <2>1, <2>2, <2>3, ReadIsChannelStep DEF Read
<1>4. ASSUME NEW n \in ReadSizes, PollRead(n)
      PROVE  [Channel!Next]_(Channel!vars)
  <2>1. n \in Nat \ {0}
    BY PipeAssumption
  <2>2. pipe'.closed = pipe.closed
    BY <1>4 DEF PollRead, PollPipe, TypeOK, Inner
  <2>3. ~eof
    BY <1>4 DEF PollRead, TaskStates
  <2>4. eof' = (eof \/ Outcome(pipe, n) = "eof")
    BY <1>4, <2>3 DEF PollRead
  <2> QED
    BY <1>4, <2>1, <2>2, <2>3, <2>4, ReadIsChannelStep DEF PollRead
<1>5. CASE SiblingWake \/ UNCHANGED vars
  BY <1>5 DEF SiblingWake, vars, Channel!vars
<1> QED
  BY <1>1, <1>2, <1>3, <1>4, <1>5 DEF Next

\* The detailed pipe, with its buffer, its wakers and its results that would
\* block, is a byte channel to the code that reads and writes it.
THEOREM PipeImplementsChannel == Spec => ChannelSpec
<1> QED
  BY InitPipeInv, StepPipeInv, InitChannel, StepChannel, PTL
     DEF Spec, ChannelSpec, Channel!Spec
=============================================================================
