---------------------------- MODULE PipeOpsProofs ----------------------------
(***************************************************************************)
(* Lemmas about the operations on a pipe, for pipes of any items: used by  *)
(* the proofs of every module that is built on PipeOps.                    *)
(***************************************************************************)
EXTENDS PipeOps, SequenceLemmas

(***************************************************************************)
(* A sequence that is cut in two.                                          *)
(***************************************************************************)
LEMMA CutInTwo ==
    ASSUME NEW S, NEW s \in Seq(S), NEW n \in 0 .. Len(s)
    PROVE  /\ SubSeq(s, 1, n) \in Seq(S)
           /\ Len(SubSeq(s, 1, n)) = n
           /\ \A i \in 1 .. n : SubSeq(s, 1, n)[i] = s[i]
           /\ SubSeq(s, n + 1, Len(s)) \in Seq(S)
           /\ Len(SubSeq(s, n + 1, Len(s))) = Len(s) - n
           /\ SubSeq(s, 1, n) \o SubSeq(s, n + 1, Len(s)) = s
<1>1. Len(s) \in Nat /\ n \in Nat /\ n =< Len(s)
  BY LenProperties
<1>2. /\ SubSeq(s, 1, n) \in Seq(S)
      /\ Len(SubSeq(s, 1, n)) = n
      /\ \A i \in 1 .. n : SubSeq(s, 1, n)[i] = s[i]
  <2>1. \A i \in 1 .. n : s[i] \in S
    BY <1>1, ElementOfSeq
  <2> QED
    BY <1>1, <2>1, SubSeqProperties
<1>3. /\ SubSeq(s, n + 1, Len(s)) \in Seq(S)
      /\ Len(SubSeq(s, n + 1, Len(s))) = Len(s) - n
  <2>1. \A i \in n + 1 .. Len(s) : s[i] \in S
    BY <1>1, ElementOfSeq
  <2> QED
    BY <1>1, <2>1, SubSeqProperties
<1>4. SubSeq(s, 1, n) \o SubSeq(s, n + 1, Len(s)) = SubSeq(s, 1, Len(s))
  <2>1. /\ 1 \in 1 .. Len(s) + 1
        /\ n \in 1 - 1 .. Len(s)
        /\ Len(s) \in n .. Len(s)
    BY <1>1
  <2> QED
    BY <2>1, ConcatAdjacentSubSeq
<1> QED
  BY <1>2, <1>3, <1>4, SubSeqFull

(***************************************************************************)
(* What a read takes and what it leaves make up the buffer, and it takes   *)
(* nothing only from an empty one, or into no slot.                        *)
(***************************************************************************)
LEMMA TakenSplitsBuffer ==
    ASSUME NEW Item, NEW p \in Inner(Item), NEW n \in Nat
    PROVE  /\ Taken(p, n) \in Seq(Item)
           /\ AfterTaking(p, n) \in Seq(Item)
           /\ Taken(p, n) \o AfterTaking(p, n) = p.buf
           /\ Len(Taken(p, n)) =< n
           /\ n # 0 /\ Taken(p, n) = <<>> => p.buf = <<>>
<1>1. p.buf \in Seq(Item) /\ Len(p.buf) \in Nat
  BY LenProperties DEF Inner
<1>2. CASE n < Len(p.buf)
  <2>1. PICK s \in Seq(Item) : s = p.buf /\ n \in 0 .. Len(s)
    BY <1>1, <1>2
  <2>2. /\ SubSeq(s, 1, n) \in Seq(Item)
        /\ Len(SubSeq(s, 1, n)) = n
        /\ SubSeq(s, n + 1, Len(s)) \in Seq(Item)
        /\ SubSeq(s, 1, n) \o SubSeq(s, n + 1, Len(s)) = s
    BY <2>1, CutInTwo, ZenonT(30)
  <2>3. PICK front, back : /\ front = SubSeq(s, 1, n)
                           /\ back = SubSeq(s, n + 1, Len(s))
    OBVIOUS
  <2>4. /\ front \in Seq(Item) /\ Len(front) = n
        /\ back \in Seq(Item)
        /\ front \o back = s
    BY <2>2, <2>3, Zenon
  <2>5. Taken(p, n) = front /\ AfterTaking(p, n) = back
    BY <1>2, <2>1, <2>3 DEF Taken, AfterTaking
  <2> QED
    BY <1>1, <1>2, <2>1, <2>4, <2>5, EmptySeq
<1>3. CASE ~(n < Len(p.buf))
  <2>1. Taken(p, n) = p.buf /\ AfterTaking(p, n) = <<>> /\ Len(p.buf) =< n
    BY <1>1, <1>3 DEF Taken, AfterTaking
  <2> QED
    BY <1>1, <2>1, EmptySeq, ConcatEmptySeq
<1> QED
  BY <1>2, <1>3

(***************************************************************************)
(* Every operation takes a pipe to a pipe; only the drop of the writer     *)
(* closes it, and it wakes nobody.                                         *)
(***************************************************************************)
LEMMA ReadKeepsPipe ==
    ASSUME NEW Item, NEW p \in Inner(Item), NEW n \in Nat
    PROVE  /\ ReadPipe(p, n) \in Inner(Item)
           /\ ReadPipe(p, n).closed = p.closed
           /\ PollPipe(p, n) \in Inner(Item)
           /\ PollPipe(p, n).closed = p.closed
<1>1. AfterTaking(p, n) \in Seq(Item)
  BY TakenSplitsBuffer
<1> QED
  BY <1>1 DEF Inner, ReadPipe, PollPipe

LEMMA WriteKeepsPipe ==
    ASSUME NEW Item, NEW p \in Inner(Item), NEW items \in Seq(Item)
    PROVE  /\ WritePipe(p, items).pipe \in Inner(Item)
           /\ WritePipe(p, items).pipe.closed = p.closed
           /\ WritePipe(p, items).wake = p.waker
<1>1. p.buf \o items \in Seq(Item)
  BY ConcatProperties DEF Inner
<1> QED
  BY <1>1 DEF Inner, WritePipe

LEMMA DropClosesPipe ==
    ASSUME NEW Item, NEW p \in Inner(Item)
    PROVE  /\ DropPipe(p).pipe \in Inner(Item)
           /\ DropPipe(p).pipe.closed
           /\ DropPipe(p).wake = FALSE
BY DEF Inner, DropPipe
=============================================================================
