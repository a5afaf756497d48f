-------------------------- MODULE LineStreamsProofs --------------------------
(***************************************************************************)
(* The standard streams of a guest and the lines the host reads of its     *)
(* outputs: every safety property of LineStreams and of the WasiStreams it *)
(* extends, for every value of the constants.                              *)
(*                                                                         *)
(* The bytes are followed through the two folds of the model, the loop of  *)
(* fd_read over its buffers and the concatenation of what fd_write is      *)
(* given.  What a fold computes is the last value of a function defined    *)
(* step by step, which exists by induction (the lemma Induction of         *)
(* SequenceLemmas); then what each step keeps, the fold keeps.             *)
(*                                                                         *)
(* The invariant LineInv says of each output that what the guest wrote is  *)
(* what the host has read and what the pipe holds, of the lines that each  *)
(* is whole and that together with the kept part they are what was read,   *)
(* and of a logger that has failed that no later write can make a text of  *)
(* what it failed at.                                                      *)
(***************************************************************************)
EXTENDS LineStreams, PipeOpsProofs

(***************************************************************************)
(* FlattenSeq, whose local function the prover has to be shown.            *)
(***************************************************************************)
\* f gives the concatenation of the first n sequences.
Flattens(f, seqs, n) ==
    f = [i \in 1 .. n |-> IF i = 1 THEN seqs[i] ELSE f[i - 1] \o seqs[i]]

\* What that function is at one place.
LEMMA FlatteningAt ==
    ASSUME NEW seqs, NEW n \in Nat, NEW f, Flattens(f, seqs, n), NEW i \in 1 .. n
    PROVE  f[i] = IF i = 1 THEN seqs[i] ELSE f[i - 1] \o seqs[i]
<1> DEFINE e(j) == IF j = 1 THEN seqs[j] ELSE f[j - 1] \o seqs[j]
<1>1. f = [j \in 1 .. n |-> e(j)]
  BY DEF Flattens
<1> HIDE DEF e
<1>2. f[i] = e(i)
  BY <1>1
<1> QED
  BY <1>2 DEF e

\* It exists for every number of sequences.
LEMMA FlatteningExists ==
    ASSUME NEW seqs, NEW k \in Nat
    PROVE  \E f : Flattens(f, seqs, k)
<1> DEFINE A == {n \in Nat : \E f : Flattens(f, seqs, n)}
<1>1. 0 \in A
  <2>1. [i \in 1 .. 0 |-> 0]
          = [i \in 1 .. 0 |-> IF i = 1 THEN seqs[i] ELSE 0 \o seqs[i]]
    OBVIOUS
  <2>2. \E f : f = [i \in 1 .. 0 |->
                      IF i = 1 THEN seqs[i] ELSE f[i - 1] \o seqs[i]]
    <3> DEFINE e == [i \in 1 .. 0 |-> 0]
    <3>1. e = [i \in 1 .. 0 |->
                 IF i = 1 THEN seqs[i] ELSE e[i - 1] \o seqs[i]]
      OBVIOUS
    <3> HIDE DEF e
    <3> QED
      BY <3>1
  <2> QED
    BY <2>2 DEF Flattens
<1>2. ASSUME NEW n \in Nat, n \in A
      PROVE  n + 1 \in A
  <2>1. PICK f : Flattens(f, seqs, n)
    BY <1>2
  <2> DEFINE g == [i \in 1 .. n + 1 |->
                     IF i = 1 THEN seqs[i] ELSE f[i - 1] \o seqs[i]]
  <2>2. \A i \in 1 .. n : g[i] = f[i]
    BY <2>1, FlatteningAt
  <2>3. ASSUME NEW i \in 1 .. n + 1
        PROVE  g[i] = IF i = 1 THEN seqs[i] ELSE g[i - 1] \o seqs[i]
    <3>1. i # 1 => i - 1 \in 1 .. n
      OBVIOUS
    <3> QED
      BY <2>2, <3>1
  <2>4. Flattens(g, seqs, n + 1)
    <3> DEFINE h == [i \in 1 .. n + 1 |->
                       IF i = 1 THEN seqs[i] ELSE g[i - 1] \o seqs[i]]
    <3>1. \A i \in 1 .. n + 1 : g[i] = h[i]
      BY <2>3
    <3>2. g = h
      BY <3>1
    <3> QED
      BY <3>2 DEF Flattens
  <2> HIDE DEF g
  <2>5. \E e : Flattens(e, seqs, n + 1)
    BY <2>4
  <2> QED
    BY <2>5
<1> HIDE DEF A
<1>3. Nat \subseteq A
  BY <1>1, <1>2, Induction
<1> QED
  BY <1>3 DEF A

\* FlattenSeq is its last value.
LEMMA FlattenIsLast ==
    ASSUME NEW S, NEW seqs \in Seq(S), seqs # <<>>
    PROVE  \E f : /\ Flattens(f, seqs, Len(seqs))
                  /\ FlattenSeq(seqs) = f[Len(seqs)]
<1> DEFINE f == CHOOSE g : Flattens(g, seqs, Len(seqs))
<1>1. Flattens(f, seqs, Len(seqs))
  BY FlatteningExists, LenProperties
<1>2. Len(seqs) # 0
  BY EmptySeq
<1>3. FlattenSeq(seqs) = f[Len(seqs)]
  BY <1>2 DEF FlattenSeq, Flattens
<1> HIDE DEF f
<1> QED
  BY <1>1, <1>3

\* Two of these functions agree where both are defined, and for sequences that
\* begin in the same way.
LEMMA FlatteningsAgree ==
    ASSUME NEW s, NEW t, NEW f, NEW g, NEW k \in Nat, NEW m \in Nat, k =< m,
           Flattens(f, s, k), Flattens(g, t, m), \A i \in 1 .. k : s[i] = t[i]
    PROVE  \A i \in 1 .. k : f[i] = g[i]
<1> DEFINE A == {n \in Nat : n \in 1 .. k => f[n] = g[n]}
<1>1. 0 \in A
  OBVIOUS
<1>2. ASSUME NEW n \in Nat, n \in A
      PROVE  n + 1 \in A
  <2> SUFFICES ASSUME n + 1 \in 1 .. k
               PROVE  f[n + 1] = g[n + 1]
    OBVIOUS
  <2>1. /\ f[n + 1] = IF n + 1 = 1 THEN s[n + 1] ELSE f[(n + 1) - 1] \o s[n + 1]
        /\ g[n + 1] = IF n + 1 = 1 THEN t[n + 1] ELSE g[(n + 1) - 1] \o t[n + 1]
    BY FlatteningAt
  <2>2. (n + 1) - 1 = n /\ (n + 1 # 1 => n \in 1 .. k)
    OBVIOUS
  <2> QED
    BY <1>2, <2>1, <2>2
<1> HIDE DEF A
<1>3. Nat \subseteq A
  BY <1>1, <1>2, Induction
<1> QED
  BY <1>3 DEF A

\* A concatenation of sequences over a set is one over that set.
LEMMA FlattenType ==
    ASSUME NEW S, NEW seqs \in Seq(Seq(S))
    PROVE  FlattenSeq(seqs) \in Seq(S)
<1>1. CASE seqs = <<>>
  BY <1>1, EmptySeq DEF FlattenSeq
<1>2. CASE seqs # <<>>
  <2>1. PICK f : /\ Flattens(f, seqs, Len(seqs))
                 /\ FlattenSeq(seqs) = f[Len(seqs)]
    BY <1>2, FlattenIsLast
  <2>2. Len(seqs) \in Nat \ {0}
    BY <1>2, EmptySeq
  <2> DEFINE A == {n \in Nat : n \in 1 .. Len(seqs) => f[n] \in Seq(S)}
  <2>3. 0 \in A
    BY <2>2
  <2>4. ASSUME NEW n \in Nat, n \in A
        PROVE  n + 1 \in A
    <3> SUFFICES ASSUME n + 1 \in 1 .. Len(seqs)
                 PROVE  f[n + 1] \in Seq(S)
      OBVIOUS
    <3>1. f[n + 1] = IF n + 1 = 1 THEN seqs[n + 1]
                                  ELSE f[(n + 1) - 1] \o seqs[n + 1]
      BY <2>1 DEF Flattens
    <3>2. seqs[n + 1] \in Seq(S)
      BY ElementOfSeq
    <3>3. (n + 1) - 1 = n /\ (n + 1 # 1 => n \in 1 .. Len(seqs))
      BY <2>2
    <3> QED
      BY <2>4, <3>1, <3>2, <3>3, ConcatProperties
  <2> HIDE DEF A
  <2>5. Len(seqs) \in A
    BY <2>2, <2>3, <2>4, Induction
  <2> QED
    BY <2>1, <2>2, <2>5 DEF A
<1> QED
  BY <1>1, <1>2

\* One more sequence comes at the end.
LEMMA FlattenAppend ==
    ASSUME NEW S, NEW seqs \in Seq(Seq(S)), NEW x \in Seq(S)
    PROVE  FlattenSeq(Append(seqs, x)) = FlattenSeq(seqs) \o x
<1>1. PICK longer : longer = Append(seqs, x)
  OBVIOUS
<1>2. /\ longer \in Seq(Seq(S)) /\ longer # <<>>
      /\ Len(longer) = Len(seqs) + 1
      /\ \A i \in 1 .. Len(seqs) : longer[i] = seqs[i]
      /\ longer[Len(seqs) + 1] = x
      /\ Len(seqs) \in Nat
  BY <1>1, AppendProperties, LenProperties
<1>3. PICK g : /\ Flattens(g, longer, Len(longer))
               /\ FlattenSeq(longer) = g[Len(longer)]
  BY <1>2, FlattenIsLast
<1>4. g[Len(seqs) + 1] = IF Len(seqs) + 1 = 1 THEN longer[Len(seqs) + 1]
                         ELSE g[(Len(seqs) + 1) - 1] \o longer[Len(seqs) + 1]
  BY <1>2, <1>3, FlatteningAt
<1>5. CASE seqs = <<>>
  <2>1. FlattenSeq(seqs) = <<>> /\ Len(seqs) = 0
    BY <1>5, EmptySeq DEF FlattenSeq
  <2>2. FlattenSeq(longer) = x
    BY <1>2, <1>3, <1>4, <2>1
  <2> QED
    BY <1>1, <2>1, <2>2, ConcatEmptySeq
<1>6. CASE seqs # <<>>
  <2>1. PICK f : /\ Flattens(f, seqs, Len(seqs))
                 /\ FlattenSeq(seqs) = f[Len(seqs)]
    BY <1>6, FlattenIsLast
  <2>2. Len(seqs) \in Nat \ {0}
    BY <1>6, EmptySeq
  <2>3. \A i \in 1 .. Len(seqs) : f[i] = g[i]
    <3>1. PICK k, m : k = Len(seqs) /\ m = Len(longer)
      OBVIOUS
    <3>2. k \in Nat /\ m \in Nat /\ k =< m
      BY <1>2, <3>1
    <3>3. \A i \in 1 .. k : seqs[i] = longer[i]
      BY <1>2, <3>1
    <3>4. Flattens(f, seqs, k) /\ Flattens(g, longer, m)
      BY <1>3, <2>1, <3>1
    <3>5. \A i \in 1 .. k : f[i] = g[i]
      BY <3>2, <3>3, <3>4, FlatteningsAgree, SMTT(30)
    <3> QED
      BY <3>1, <3>5
  <2>4. f[Len(seqs)] = g[Len(seqs)]
    BY <2>2, <2>3
  <2>5. g[Len(seqs) + 1] = g[Len(seqs)] \o x
    BY <1>2, <1>4, <2>2
  <2> QED
    BY <1>1, <1>2, <1>3, <2>1, <2>4, <2>5
<1> QED
  BY <1>5, <1>6

(***************************************************************************)
(* A reader: the pipe and what the BufReader has taken out of it.          *)
(***************************************************************************)
Readers == [pipe : Inner(Byte), look : {s \in Seq(Byte) : Len(s) =< Capacity}]

\* The bytes the guest has not got yet.
Ahead(r) == r.look \o r.pipe.buf

\* fill_buf moves bytes into the BufReader and loses none; its buffer stays empty
\* only when nothing is ahead.
LEMMA FillKeepsBytes ==
    ASSUME NEW r \in Readers
    PROVE  /\ Fill(r) \in Readers
           /\ Fill(r).pipe.closed = r.pipe.closed
           /\ Ahead(Fill(r)) = Ahead(r)
           /\ Fill(r).look = <<>> <=> Ahead(r) = <<>>
<1>1. /\ r.pipe \in Inner(Byte) /\ r.look \in Seq(Byte) /\ r.pipe.buf \in Seq(Byte)
      /\ Capacity \in Nat \ {0}
  BY StreamsAssumption DEF Readers, Inner
<1>2. CASE r.look # <<>>
  <2>1. Ahead(r) # <<>>
    BY <1>1, <1>2, ConcatEqualIffEmpty DEF Ahead
  <2> QED
    BY <1>2, <2>1 DEF Fill
<1>3. CASE r.look = <<>>
  <2>1. Fill(r) = [pipe |-> ReadPipe(r.pipe, Capacity),
                   look |-> Taken(r.pipe, Capacity)]
    BY <1>3 DEF Fill
  <2>2. /\ ReadPipe(r.pipe, Capacity) \in Inner(Byte)
        /\ ReadPipe(r.pipe, Capacity).closed = r.pipe.closed
        /\ ReadPipe(r.pipe, Capacity).buf = AfterTaking(r.pipe, Capacity)
    BY <1>1, ReadKeepsPipe DEF ReadPipe, Inner
  <2>3. /\ Taken(r.pipe, Capacity) \in Seq(Byte)
        /\ Len(Taken(r.pipe, Capacity)) =< Capacity
        /\ Taken(r.pipe, Capacity) \o AfterTaking(r.pipe, Capacity) = r.pipe.buf
        /\ Taken(r.pipe, Capacity) = <<>> => r.pipe.buf = <<>>
        /\ AfterTaking(r.pipe, Capacity) \in Seq(Byte)
    BY <1>1, TakenSplitsBuffer
  <2>4. /\ Fill(r).look = Taken(r.pipe, Capacity)
        /\ Fill(r).pipe.buf = AfterTaking(r.pipe, Capacity)
    BY <2>1, <2>2
  <2>5. <<>> \o r.pipe.buf = r.pipe.buf
    BY <1>1, ConcatEmptySeq
  <2>6. Ahead(r) = r.pipe.buf /\ Ahead(Fill(r)) = r.pipe.buf
    BY <1>3, <2>3, <2>4, <2>5 DEF Ahead
  <2>7. r.pipe.buf = <<>> => Taken(r.pipe, Capacity) = <<>>
    BY <2>3, ConcatEqualIffEmpty
  <2> QED
    BY <2>1, <2>2, <2>3, <2>4, <2>6, <2>7 DEF Readers
<1> QED
  BY <1>2, <1>3

\* A read gives the next bytes that are ahead, at least one of them when there is
\* one and the buffer has room.
LEMMA ReadKeepsAhead ==
    ASSUME NEW r \in Readers, NEW n \in Nat
    PROVE  /\ Bytes(r, n) \in Seq(Byte)
           /\ Rest(r, n) \in Readers
           /\ Rest(r, n).pipe.closed = r.pipe.closed
           /\ Ahead(r) = Bytes(r, n) \o Ahead(Rest(r, n))
           /\ n # 0 /\ Bytes(r, n) = <<>> => Ahead(r) = <<>>
<1>1. /\ r.pipe \in Inner(Byte) /\ r.look \in Seq(Byte) /\ r.pipe.buf \in Seq(Byte)
      /\ Capacity \in Nat \ {0}
  BY StreamsAssumption DEF Readers, Inner
<1>2. CASE r.look = <<>> /\ n >= Capacity
  <2>1. /\ Bytes(r, n) = Taken(r.pipe, n)
        /\ Rest(r, n) = [r EXCEPT !.pipe = ReadPipe(r.pipe, n)]
    BY <1>2 DEF Bytes, Rest
  <2>2. /\ Rest(r, n) \in Readers
        /\ Rest(r, n).pipe = ReadPipe(r.pipe, n) /\ Rest(r, n).look = <<>>
        /\ ReadPipe(r.pipe, n).closed = r.pipe.closed
        /\ ReadPipe(r.pipe, n).buf = AfterTaking(r.pipe, n)
    <3>1. /\ ReadPipe(r.pipe, n) \in Inner(Byte)
          /\ ReadPipe(r.pipe, n).closed = r.pipe.closed
      BY <1>1, ReadKeepsPipe
    <3>2. ReadPipe(r.pipe, n).buf = AfterTaking(r.pipe, n)
      BY <1>1 DEF ReadPipe, Inner
    <3> QED
      BY <1>2, <2>1, <3>1, <3>2 DEF Readers
  <2>3. /\ Taken(r.pipe, n) \in Seq(Byte)
        /\ AfterTaking(r.pipe, n) \in Seq(Byte)
        /\ Taken(r.pipe, n) \o AfterTaking(r.pipe, n) = r.pipe.buf
        /\ n # 0 /\ Taken(r.pipe, n) = <<>> => r.pipe.buf = <<>>
    BY <1>1, TakenSplitsBuffer
  <2>4. Ahead(r) = r.pipe.buf /\ Ahead(Rest(r, n)) = AfterTaking(r.pipe, n)
    <3>1. /\ <<>> \o r.pipe.buf = r.pipe.buf
          /\ <<>> \o AfterTaking(r.pipe, n) = AfterTaking(r.pipe, n)
      BY <1>1, <2>3, ConcatEmptySeq
    <3> QED
      BY <1>2, <2>2, <3>1 DEF Ahead
  <2> QED
    BY <2>1, <2>2, <2>3, <2>4
<1>3. CASE ~(r.look = <<>> /\ n >= Capacity)
  <2>1. PICK f : f = Fill(r)
    OBVIOUS
  <2>2. /\ f \in Readers /\ f.pipe.closed = r.pipe.closed
        /\ f.look \o f.pipe.buf = Ahead(r)
        /\ f.look = <<>> => Ahead(r) = <<>>
        /\ f.look \in Seq(Byte) /\ f.pipe.buf \in Seq(Byte)
        /\ Len(f.look) \in Nat /\ Len(f.look) =< Capacity
    BY <2>1, FillKeepsBytes, LenProperties DEF Readers, Inner, Ahead
  <2>3. PICK m : m = IF n < Len(f.look) THEN n ELSE Len(f.look)
    OBVIOUS
  <2>4. m \in 0 .. Len(f.look) /\ (n # 0 /\ m = 0 => Len(f.look) = 0)
    BY <2>2, <2>3
  <2>5. /\ SubSeq(f.look, 1, m) \in Seq(Byte)
        /\ Len(SubSeq(f.look, 1, m)) = m
        /\ SubSeq(f.look, m + 1, Len(f.look)) \in Seq(Byte)
        /\ Len(SubSeq(f.look, m + 1, Len(f.look))) =< Capacity
        /\ SubSeq(f.look, 1, m) \o SubSeq(f.look, m + 1, Len(f.look)) = f.look
    <3>1. /\ SubSeq(f.look, 1, m) \in Seq(Byte)
          /\ Len(SubSeq(f.look, 1, m)) = m
          /\ SubSeq(f.look, m + 1, Len(f.look)) \in Seq(Byte)
          /\ Len(SubSeq(f.look, m + 1, Len(f.look))) = Len(f.look) - m
          /\ SubSeq(f.look, 1, m) \o SubSeq(f.look, m + 1, Len(f.look)) = f.look
      BY <2>2, <2>4, CutInTwo, ZenonT(40)
    <3>2. Len(f.look) - m =< Capacity
      BY <1>1, <2>2, <2>4
    <3> QED
      BY <3>1, <3>2
  <2>6. Bytes(r, n) = SubSeq(f.look, 1, m)
    BY <1>3, <2>1, <2>3 DEF Bytes
  <2>7. Rest(r, n) = [f EXCEPT !.look = SubSeq(f.look, m + 1, Len(f.look))]
    BY <1>3, <2>1, <2>5, <2>6 DEF Rest
  <2>8. /\ Rest(r, n) \in Readers
        /\ Rest(r, n).pipe = f.pipe
        /\ Rest(r, n).look = SubSeq(f.look, m + 1, Len(f.look))
    BY <2>2, <2>5, <2>7 DEF Readers
  <2>9. Bytes(r, n) \o Ahead(Rest(r, n)) = Ahead(r)
    <3>1. PICK a, b, c : /\ a = SubSeq(f.look, 1, m)
                         /\ b = SubSeq(f.look, m + 1, Len(f.look))
                         /\ c = f.pipe.buf
      OBVIOUS
    <3>2. a \in Seq(Byte) /\ b \in Seq(Byte) /\ c \in Seq(Byte)
      BY <2>2, <2>5, <3>1
    <3>3. (a \o b) \o c = a \o (b \o c)
      BY <3>2, ConcatAssociative
    <3>4. a \o b = f.look /\ Ahead(Rest(r, n)) = b \o c
      BY <2>5, <2>8, <3>1 DEF Ahead
    <3> QED
      BY <2>2, <2>6, <3>1, <3>3, <3>4
  <2>10. n # 0 /\ Bytes(r, n) = <<>> => f.look = <<>>
    BY <2>2, <2>4, <2>5, <2>6, EmptySeq
  <2> QED
    BY <2>2, <2>5, <2>6, <2>8, <2>9, <2>10
<1> QED
  BY <1>2, <1>3

(***************************************************************************)
(* The loop of fd_read.  FoldLeft is evaluated from the last buffer down,  *)
(* by a local function on the sets of places.                              *)
(***************************************************************************)
PlaceSets(n) == SUBSET (1 .. n)

\* f gives what the loop comes to with the buffers at the places of a set.
LoopValue(f, start, lengths, s) ==
    IF s = {} THEN start ELSE ReadBuffer(f[s \ {Max(s)}], lengths[Max(s)])

Loops(f, start, lengths, n) ==
    f = [s \in PlaceSets(n) |-> LoopValue(f, start, lengths, s)]

\* The fold of FoldLeft takes the greatest place of a set first: it is in the set
\* and no other is greater.
LEMMA MaxOfPlaces ==
    ASSUME NEW n \in Nat, NEW s \in SUBSET (1 .. n), s # {}
    PROVE  Max(s) \in s /\ \A i \in s : i =< Max(s)
<1> DEFINE T == {n - i : i \in s}
<1>1. T \subseteq Nat /\ T # {}
  <2>1. \A i \in s : n - i \in Nat
    OBVIOUS
  <2> QED
    BY <2>1
<1>2. PICK m \in T : \A k \in T : m =< k
  BY <1>1, LeastNatural
<1>3. PICK i \in s : m = n - i
  BY <1>2
<1>4. \A j \in s : i >= j
  <2> TAKE j \in s
  <2>1. m =< n - j
    BY <1>2
  <2> QED
    BY <1>3, <2>1
<1>5. \E x \in s : \A y \in s : x >= y
  BY <1>4
<1>6. Max(s) \in s /\ \A y \in s : Max(s) >= y
  BY <1>5 DEF Max
<1> QED
  BY <1>6

\* It is n + 1 when that is a place.
LEMMA MaxIsLast ==
    ASSUME NEW n \in Nat, NEW s \in SUBSET (1 .. n + 1), n + 1 \in s
    PROVE  Max(s) = n + 1 /\ s \ {n + 1} \in SUBSET (1 .. n)
<1>1. n + 1 \in Nat /\ s # {}
  OBVIOUS
<1>2. Max(s) \in s /\ \A i \in s : i =< Max(s)
  BY <1>1, MaxOfPlaces
<1>3. Max(s) \in 1 .. n + 1 /\ n + 1 =< Max(s)
  BY <1>2
<1> QED
  BY <1>3

\* What the function behind FoldLeft is at one set of places.
LEMMA LoopAt ==
    ASSUME NEW start, NEW lengths, NEW n, NEW f, Loops(f, start, lengths, n)
    PROVE  \A s \in PlaceSets(n) : f[s] = LoopValue(f, start, lengths, s)
BY DEF Loops

\* It exists for every number of places.
LEMMA LoopExists ==
    ASSUME NEW start, NEW lengths, NEW k \in Nat
    PROVE  \E f : Loops(f, start, lengths, k)
<1> DEFINE A == {n \in Nat : \E f : Loops(f, start, lengths, n)}
<1>1. 0 \in A
  <2> DEFINE e == [s \in PlaceSets(0) |-> start]
  <2>1. \A s \in PlaceSets(0) : s = {}
    BY DEF PlaceSets
  <2>2. \A s \in PlaceSets(0) : LoopValue(e, start, lengths, s) = start
    BY <2>1 DEF LoopValue
  <2>3. e = [s \in PlaceSets(0) |-> LoopValue(e, start, lengths, s)]
    BY <2>2
  <2> HIDE DEF e
  <2>4. \E f : Loops(f, start, lengths, 0)
    BY <2>3 DEF Loops
  <2> QED
    BY <2>4
<1>2. ASSUME NEW n \in Nat, n \in A
      PROVE  n + 1 \in A
  <2>1. PICK f : Loops(f, start, lengths, n)
    BY <1>2
  <2> DEFINE g == [s \in SUBSET (1 .. n + 1) |->
                     IF n + 1 \in s
                     THEN ReadBuffer(f[s \ {n + 1}], lengths[n + 1])
                     ELSE f[s]]
  <2>2. \A s \in SUBSET (1 .. n) : g[s] = f[s]
    OBVIOUS
  <2>3. ASSUME NEW s \in SUBSET (1 .. n + 1)
        PROVE  g[s] = LoopValue(g, start, lengths, s)
    <3>1. CASE n + 1 \in s
      <4>1. Max(s) = n + 1 /\ s \ {n + 1} \in SUBSET (1 .. n) /\ s # {}
        BY <3>1, MaxIsLast
      <4>2. g[s] = ReadBuffer(f[s \ {n + 1}], lengths[n + 1])
        BY <3>1
      <4>3. g[s \ {n + 1}] = f[s \ {n + 1}]
        BY <2>2, <4>1
      <4> HIDE DEF g
      <4> QED
        BY <4>1, <4>2, <4>3 DEF LoopValue
    <3>2. CASE n + 1 \notin s
      <4>1. s \in SUBSET (1 .. n) /\ s \in PlaceSets(n)
        BY <3>2 DEF PlaceSets
      <4>2. g[s] = f[s]
        BY <2>2, <4>1
      <4>3. f[s] = LoopValue(f, start, lengths, s)
        <5>1. \A t \in PlaceSets(n) : f[t] = LoopValue(f, start, lengths, t)
          BY <2>1, LoopAt
        <5> QED
          BY <4>1, <5>1
      <4>4. s # {} => g[s \ {Max(s)}] = f[s \ {Max(s)}]
        BY <2>2, <4>1
      <4> HIDE DEF g
      <4> QED
        BY <4>2, <4>3, <4>4 DEF LoopValue
    <3> QED
      BY <3>1, <3>2
  <2>4. g = [s \in SUBSET (1 .. n + 1) |-> LoopValue(g, start, lengths, s)]
    BY <2>3
  <2>5. Loops(g, start, lengths, n + 1)
    <3> HIDE DEF g
    <3> QED
      BY <2>4 DEF Loops, PlaceSets
  <2> HIDE DEF g
  <2>6. \E h : Loops(h, start, lengths, n + 1)
    BY <2>5
  <2> QED
    BY <2>6
<1> HIDE DEF A
<1>3. Nat \subseteq A
  BY <1>1, <1>2, Induction
<1> QED
  BY <1>3 DEF A

\* FoldLeft is its value at all places.
LEMMA FoldIsLoop ==
    ASSUME NEW start, NEW S, NEW lengths \in Seq(S)
    PROVE  \E f : /\ Loops(f, start, lengths, Len(lengths))
                  /\ FoldLeft(ReadBuffer, start, lengths) = f[1 .. Len(lengths)]
<1> DEFINE f == CHOOSE g : Loops(g, start, lengths, Len(lengths))
<1>1. Len(lengths) \in Nat /\ DOMAIN lengths = 1 .. Len(lengths)
  BY LenProperties
<1>2. Loops(f, start, lengths, Len(lengths))
  BY <1>1, LoopExists
<1>3. FoldLeft(ReadBuffer, start, lengths) = f[1 .. Len(lengths)]
  BY <1>1 DEF FoldLeft, MapThenFoldSet, Loops, LoopValue, PlaceSets
<1> HIDE DEF f
<1> QED
  BY <1>2, <1>3

(***************************************************************************)
(* What the loop has done after some of its buffers: the bytes it has      *)
(* gathered and those still ahead are those that were ahead.               *)
(***************************************************************************)
LoopStates == [reader : Readers, data : Seq(Byte), status : {"more", "again", "done"}]

Gathered(s) == s.data \o Ahead(s.reader)

\* What is ahead is a sequence of bytes.
LEMMA AheadType == ASSUME NEW r \in Readers PROVE Ahead(r) \in Seq(Byte)
BY ConcatProperties DEF Readers, Inner, Ahead

\* One turn of the loop loses no byte.
LEMMA BufferKeepsBytes ==
    ASSUME NEW s \in LoopStates, NEW n \in Nat
    PROVE  /\ ReadBuffer(s, n) \in LoopStates
           /\ ReadBuffer(s, n).reader.pipe.closed = s.reader.pipe.closed
           /\ Gathered(ReadBuffer(s, n)) = Gathered(s)
<1>1. s.reader \in Readers /\ s.data \in Seq(Byte)
  BY DEF LoopStates
<1>2. CASE s.status # "more"
  BY <1>2 DEF ReadBuffer
<1>3. CASE s.status = "more" /\ WouldBlock(s.reader)
  BY <1>3 DEF ReadBuffer, LoopStates, Gathered
<1>4. CASE s.status = "more" /\ ~WouldBlock(s.reader)
  <2>1. PICK rest, bytes : rest = Rest(s.reader, n) /\ bytes = Bytes(s.reader, n)
    OBVIOUS
  <2>2. /\ rest \in Readers /\ bytes \in Seq(Byte)
        /\ rest.pipe.closed = s.reader.pipe.closed
        /\ Ahead(s.reader) = bytes \o Ahead(rest)
    BY <1>1, <2>1, ReadKeepsAhead
  <2>3. ReadBuffer(s, n)
          = [reader |-> rest, data |-> s.data \o bytes,
             status |-> IF Len(bytes) < n \/ n = 0 THEN "done" ELSE "more"]
    BY <1>4, <2>1 DEF ReadBuffer
  <2>4. s.data \o bytes \in Seq(Byte) /\ Ahead(rest) \in Seq(Byte)
    BY <1>1, <2>2, AheadType, ConcatProperties
  <2>5. (s.data \o bytes) \o Ahead(rest) = s.data \o (bytes \o Ahead(rest))
    <3>1. PICK a, b, c : a = s.data /\ b = bytes /\ c = Ahead(rest)
      OBVIOUS
    <3>2. a \in Seq(Byte) /\ b \in Seq(Byte) /\ c \in Seq(Byte)
      BY <1>1, <2>2, <2>4, <3>1
    <3>3. (a \o b) \o c = a \o (b \o c)
      BY <3>2, ConcatAssociative
    <3> QED
      BY <3>1, <3>3
  <2> QED
    BY <2>2, <2>3, <2>4, <2>5, SMTT(30) DEF LoopStates, Gathered
<1> QED
  BY <1>1, <1>2, <1>3, <1>4

\* The loop as a sequence of turns.
Turns(r, start, lengths, n) ==
    /\ r[0] = start
    /\ \A k \in 0 .. n - 1 : r[k + 1] = ReadBuffer(r[k], lengths[k + 1])

\* FoldLeft is the last turn.
LEMMA FoldIsTurns ==
    ASSUME NEW start, NEW S, NEW lengths \in Seq(S)
    PROVE  \E r : /\ Turns(r, start, lengths, Len(lengths))
                  /\ FoldLeft(ReadBuffer, start, lengths) = r[Len(lengths)]
<1>1. PICK f : /\ Loops(f, start, lengths, Len(lengths))
               /\ FoldLeft(ReadBuffer, start, lengths) = f[1 .. Len(lengths)]
  BY FoldIsLoop
<1>2. PICK n \in Nat : n = Len(lengths) /\ Loops(f, start, lengths, n)
  BY <1>1, LenProperties
<1>3. Loops(f, start, lengths, n)
  BY <1>2
<1>4. \A s \in PlaceSets(n) : f[s] = LoopValue(f, start, lengths, s)
  BY <1>3, LoopAt
<1> DEFINE r == [k \in 0 .. n |-> f[1 .. k]]
<1>5. r[0] = start
  <2>1. 1 .. 0 = {} /\ 1 .. 0 \in PlaceSets(n)
    BY DEF PlaceSets
  <2>2. f[1 .. 0] = LoopValue(f, start, lengths, 1 .. 0)
    BY <1>4, <2>1
  <2> QED
    BY <2>1, <2>2 DEF LoopValue
<1>6. ASSUME NEW k \in 0 .. n - 1
      PROVE  r[k + 1] = ReadBuffer(r[k], lengths[k + 1])
  <2>1. PICK s, m : s = 1 .. k + 1 /\ m = k + 1
    OBVIOUS
  <2>2. s \in PlaceSets(n) /\ s \in SUBSET (1 .. k + 1) /\ k + 1 \in s
    BY <2>1 DEF PlaceSets
  <2>3. Max(s) = m /\ s # {}
    BY <2>1, <2>2, MaxIsLast
  <2>4. s \ {m} = 1 .. k
    BY <2>1
  <2>5. f[s] = LoopValue(f, start, lengths, s)
    BY <1>4, <2>2
  <2>6. r[k + 1] = f[s] /\ r[k] = f[1 .. k]
    BY <2>1
  <2> HIDE DEF r
  <2> QED
    BY <2>1, <2>3, <2>4, <2>5, <2>6 DEF LoopValue
<1>7. FoldLeft(ReadBuffer, start, lengths) = r[Len(lengths)]
  BY <1>1, <1>2
<1> HIDE DEF r
<1>8. Turns(r, start, lengths, Len(lengths))
  BY <1>2, <1>5, <1>6 DEF Turns
<1> QED
  BY <1>7, <1>8

\* The whole loop loses no byte, for any number of buffers.
LEMMA LoopKeepsBytes ==
    ASSUME NEW start \in LoopStates, NEW lengths \in Seq(Nat)
    PROVE  LET s == FoldLeft(ReadBuffer, start, lengths) IN
           /\ s \in LoopStates
           /\ s.reader.pipe.closed = start.reader.pipe.closed
           /\ Gathered(s) = Gathered(start)
<1>1. PICK r : /\ Turns(r, start, lengths, Len(lengths))
               /\ FoldLeft(ReadBuffer, start, lengths) = r[Len(lengths)]
  BY FoldIsTurns
<1>2. PICK n \in Nat : n = Len(lengths)
  BY LenProperties
<1> DEFINE Fine(s) == /\ s \in LoopStates
                      /\ s.reader.pipe.closed = start.reader.pipe.closed
                      /\ Gathered(s) = Gathered(start)
           A == {k \in Nat : k =< n => Fine(r[k])}
<1>3. 0 \in A
  BY <1>1 DEF Turns
<1>4. ASSUME NEW k \in Nat, k \in A
      PROVE  k + 1 \in A
  <2> SUFFICES ASSUME k + 1 =< n
               PROVE  Fine(r[k + 1])
    OBVIOUS
  <2>1. Fine(r[k])
    BY <1>4
  <2>2. PICK s, m : s = r[k] /\ m = lengths[k + 1]
    OBVIOUS
  <2>3. r[k + 1] = ReadBuffer(s, m)
    BY <1>1, <1>2, <2>2 DEF Turns
  <2>4. m \in Nat
    <3>1. k + 1 \in 1 .. Len(lengths)
      BY <1>2
    <3> QED
      BY <2>2, <3>1, ElementOfSeq
  <2>5. /\ ReadBuffer(s, m) \in LoopStates
        /\ ReadBuffer(s, m).reader.pipe.closed = s.reader.pipe.closed
        /\ Gathered(ReadBuffer(s, m)) = Gathered(s)
    BY <2>1, <2>2, <2>4, BufferKeepsBytes
  <2> QED
    BY <2>1, <2>2, <2>3, <2>5
<1> HIDE DEF A
<1>5. n \in A
  BY <1>3, <1>4, Induction
<1>6. Fine(r[n])
  BY <1>5 DEF A
<1> QED
  BY <1>1, <1>2, <1>6

\* With one buffer the loop is one turn.
LEMMA LoopOfOne ==
    ASSUME NEW start, NEW lengths \in Seq(Nat), Len(lengths) = 1
    PROVE  FoldLeft(ReadBuffer, start, lengths) = ReadBuffer(start, lengths[1])
<1>1. PICK r : /\ Turns(r, start, lengths, 1)
               /\ FoldLeft(ReadBuffer, start, lengths) = r[1]
  BY FoldIsTurns
<1>2. 0 \in 0 .. 1 - 1 /\ 0 + 1 = 1
  OBVIOUS
<1>3. r[0 + 1] = ReadBuffer(r[0], lengths[0 + 1])
  BY <1>1, <1>2 DEF Turns
<1> QED
  BY <1>1, <1>2, <1>3 DEF Turns

\* A reader that would block has nothing ahead and its writer still exists; one
\* that gives nothing for a buffer with room is at the end.
LEMMA BlocksWhenEmpty ==
    ASSUME NEW r \in Readers
    PROVE  WouldBlock(r) <=> Ahead(r) = <<>> /\ ~r.pipe.closed
<1>1. /\ r.pipe \in Inner(Byte) /\ r.look \in Seq(Byte) /\ r.pipe.buf \in Seq(Byte)
      /\ Capacity \in Nat \ {0}
  BY StreamsAssumption DEF Readers, Inner
<1>2. Ahead(r) = <<>> <=> r.look = <<>> /\ r.pipe.buf = <<>>
  BY <1>1, ConcatEqualIffEmpty DEF Ahead
<1>3. Taken(r.pipe, Capacity) = <<>> <=> r.pipe.buf = <<>>
  <2>1. /\ Taken(r.pipe, Capacity) = <<>> => r.pipe.buf = <<>>
        /\ Taken(r.pipe, Capacity) \in Seq(Byte)
        /\ AfterTaking(r.pipe, Capacity) \in Seq(Byte)
        /\ Taken(r.pipe, Capacity) \o AfterTaking(r.pipe, Capacity) = r.pipe.buf
    BY <1>1, TakenSplitsBuffer
  <2> QED
    BY <2>1, ConcatEqualIffEmpty
<1> QED
  BY <1>2, <1>3 DEF WouldBlock, Outcome

(***************************************************************************)
(* What is passed to a call.                                               *)
(***************************************************************************)
LEMMA ArraysAreSequences ==
    ASSUME NEW n \in Nat, NEW S, NEW T, S \subseteq T, NEW a \in UpTo(n, S)
    PROVE  a \in Seq(T) /\ Len(a) \in 1 .. n /\ \A i \in DOMAIN a : a[i] \in S
<1>1. PICK k \in 1 .. n : a \in [1 .. k -> S]
  BY DEF UpTo
<1>2. k \in Nat
  OBVIOUS
<1>3. a \in Seq(S)
  BY <1>1, <1>2, SeqDef
<1>4. Len(a) = k
  <2>1. DOMAIN a = 1 .. k /\ DOMAIN a = 1 .. Len(a) /\ Len(a) \in Nat
    BY <1>1, <1>3, LenProperties
  <2> QED
    BY <1>2, <2>1
<1>5. a \in Seq(T)
  BY <1>3, SeqMonotonic
<1> QED
  BY <1>1, <1>4, <1>5

\* What fd_read is given.
LEMMA LengthsOfReads ==
    ASSUME NEW lengths \in UpTo(MaxReads, Lengths)
    PROVE  /\ lengths \in Seq(Nat)
           /\ Len(lengths) \in 1 .. MaxReads
           /\ \A i \in DOMAIN lengths : lengths[i] \in Nat
BY ArraysAreSequences, StreamsAssumption

\* What fd_write is given, put together, is a sequence of bytes.
LEMMA BuffersOfWrites ==
    ASSUME NEW bufs \in UpTo(MaxWrites, Chunks)
    PROVE  FlattenSeq(bufs) \in Seq(Byte)
<1>1. bufs \in Seq(Seq(Byte))
  BY ArraysAreSequences, StreamsAssumption
<1> QED
  BY <1>1, FlattenType

(***************************************************************************)
(* The bytes up to the first newline.                                      *)
(***************************************************************************)
\* Without a newline; without one before the last place; with one there.
Plain(s) == \A i \in 1 .. Len(s) : s[i] # Newline
PlainFront(s) == \A i \in 1 .. Len(s) - 1 : s[i] # Newline
Ended(s) == s # <<>> /\ s[Len(s)] = Newline

\* SelectInSeq finds the first newline, or none.
LEMMA FirstNewline ==
    ASSUME NEW s \in Seq(Byte)
    PROVE  LET k == SelectInSeq(s, LAMBDA b : b = Newline) IN
           /\ k \in 0 .. Len(s)
           /\ \A i \in 1 .. Len(s) : i < k \/ k = 0 => s[i] # Newline
           /\ k # 0 => s[k] = Newline
<1> DEFINE I == {i \in 1 .. Len(s) : s[i] = Newline}
<1>1. PICK k : k = SelectInSeq(s, LAMBDA b : b = Newline)
  OBVIOUS
<1> SUFFICES /\ k \in 0 .. Len(s)
             /\ \A i \in 1 .. Len(s) : i < k \/ k = 0 => s[i] # Newline
             /\ k # 0 => s[k] = Newline
  BY <1>1
<1>5. k = IF I # {} THEN Min(I) ELSE 0
  BY <1>1 DEF SelectInSeq
<1>2. Len(s) \in Nat /\ I \subseteq Nat
  BY LenProperties
<1>3. CASE I = {}
  BY <1>2, <1>3, <1>5
<1>4. CASE I # {}
  <2>1. PICK m \in I : \A j \in I : m =< j
    BY <1>2, <1>4, LeastNatural
  <2>2. Min(I) \in I /\ \A j \in I : Min(I) =< j
    <3> HIDE DEF I
    <3> QED
      BY <2>1 DEF Min
  <2>3. k \in I /\ \A j \in I : k =< j
    BY <1>4, <1>5, <2>2
  <2>4. k \in 1 .. Len(s) /\ s[k] = Newline
    BY <2>3
  <2>5. ASSUME NEW i \in 1 .. Len(s), i < k
        PROVE  s[i] # Newline
    BY <1>2, <2>3, <2>4, <2>5
  <2> QED
    BY <1>2, <2>4, <2>5
<1> QED
  BY <1>3, <1>4

\* A line is taken whole from the buffer: up to and with its newline, or all
\* there is.
LEMMA LineTaken ==
    ASSUME NEW p \in Inner(Byte)
    PROVE  LET taken == UpToNewline(p) IN
           /\ taken \in Seq(Byte) /\ Len(taken) \in Nat
           /\ Taken(p, Len(taken)) = taken
           /\ PlainFront(taken)
           /\ taken = <<>> <=> p.buf = <<>>
           /\ IF Newline \in ToSet(p.buf)
              THEN Ended(taken)
              ELSE taken = p.buf /\ AfterTaking(p, Len(taken)) = <<>> /\ Plain(taken)
<1>1. p.buf \in Seq(Byte) /\ Len(p.buf) \in Nat
  BY LenProperties DEF Inner
<1>2. PICK k : k = SelectInSeq(p.buf, LAMBDA b : b = Newline)
  OBVIOUS
<1>3. /\ k \in 0 .. Len(p.buf)
      /\ \A i \in 1 .. Len(p.buf) : i < k \/ k = 0 => p.buf[i] # Newline
      /\ k # 0 => p.buf[k] = Newline
  BY <1>1, <1>2, FirstNewline
<1>4. ToSet(p.buf) = {p.buf[i] : i \in 1 .. Len(p.buf)}
  BY <1>1, LenProperties DEF ToSet
<1>5. UpToNewline(p) = IF k = 0 THEN p.buf ELSE SubSeq(p.buf, 1, k)
  BY <1>2 DEF UpToNewline
<1>6. CASE k = 0
  <2>1. UpToNewline(p) = p.buf /\ Newline \notin ToSet(p.buf)
    BY <1>3, <1>4, <1>5, <1>6
  <2>2. Taken(p, Len(p.buf)) = p.buf /\ AfterTaking(p, Len(p.buf)) = <<>>
    BY <1>1 DEF Taken, AfterTaking
  <2> QED
    BY <1>1, <1>3, <1>6, <2>1, <2>2 DEF Plain, PlainFront
<1>7. CASE k # 0
  <2>1. PICK taken : taken = SubSeq(p.buf, 1, k)
    OBVIOUS
  <2>2. /\ taken \in Seq(Byte) /\ Len(taken) = k
        /\ \A i \in 1 .. k : taken[i] = p.buf[i]
    BY <1>1, <1>3, <2>1, CutInTwo
  <2>3. k \in 1 .. Len(p.buf) /\ Newline \in ToSet(p.buf)
    BY <1>3, <1>4, <1>7
  <2>4. Taken(p, k) = taken
    <3>1. k = Len(p.buf) => SubSeq(p.buf, 1, k) = p.buf
      BY <1>1, SubSeqFull
    <3> QED
      BY <1>1, <2>1, <2>3, <3>1 DEF Taken
  <2>5. taken # <<>> /\ p.buf # <<>>
    BY <1>1, <2>2, <2>3, EmptySeq
  <2>6. UpToNewline(p) = taken
    BY <1>5, <1>7, <2>1
  <2> QED
    BY <1>1, <1>3, <2>2, <2>3, <2>4, <2>5, <2>6 DEF PlainFront, Ended
<1> QED
  BY <1>6, <1>7

\* What follows a text without a newline decides where the whole has one.
LEMMA EndOfConcat ==
    ASSUME NEW s \in Seq(Byte), NEW t \in Seq(Byte), Plain(s)
    PROVE  /\ Plain(t) => Plain(s \o t)
           /\ PlainFront(t) => PlainFront(s \o t)
           /\ Ended(t) => Ended(s \o t)
<1>1. PICK st, m, n : st = s \o t /\ m = Len(s) /\ n = Len(t)
  OBVIOUS
<1>2. /\ m \in Nat /\ n \in Nat /\ Len(st) = m + n /\ st \in Seq(Byte)
      /\ \A i \in 1 .. m + n : st[i] = IF i =< m THEN s[i] ELSE t[i - m]
  BY <1>1, ConcatProperties, LenProperties
<1>3. \A i \in 1 .. m : s[i] # Newline
  BY <1>1 DEF Plain
<1>4. ASSUME Plain(t)
      PROVE  Plain(st)
  <2>1. \A i \in 1 .. n : t[i] # Newline
    BY <1>1, <1>4 DEF Plain
  <2>2. \A i \in 1 .. m + n : i > m => i - m \in 1 .. n
    BY <1>2
  <2> QED
    BY <1>2, <1>3, <2>1, <2>2, SMTT(30) DEF Plain
<1>5. ASSUME PlainFront(t)
      PROVE  PlainFront(st)
  <2>1. \A i \in 1 .. n - 1 : t[i] # Newline
    BY <1>1, <1>5 DEF PlainFront
  <2>2. ASSUME NEW i \in 1 .. (m + n) - 1
        PROVE  st[i] # Newline
    <3>1. i \in 1 .. m + n
      BY <1>2
    <3>2. i > m => i - m \in 1 .. n - 1
      BY <1>2
    <3> QED
      BY <1>2, <1>3, <2>1, <3>1, <3>2, SMTT(30)
  <2> QED
    BY <1>2, <2>2 DEF PlainFront
<1>6. ASSUME Ended(t)
      PROVE  Ended(st)
  <2>1. n # 0 /\ t[n] = Newline
    BY <1>1, <1>6, EmptySeq DEF Ended
  <2>2. m + n \in 1 .. m + n /\ ~(m + n =< m) /\ (m + n) - m = n
    BY <1>2, <2>1
  <2>3. st[m + n] = Newline
    BY <1>2, <2>1, <2>2
  <2>4. st # <<>>
    BY <1>2, <2>2, EmptySeq
  <2> QED
    BY <1>2, <2>3, <2>4 DEF Ended
<1> QED
  BY <1>1, <1>4, <1>5, <1>6

\* What ends with a newline does so after any text.
LEMMA EndedConcat ==
    ASSUME NEW s \in Seq(Byte), NEW t \in Seq(Byte), Ended(t)
    PROVE  Ended(s \o t)
<1>1. PICK m, n, st : m = Len(s) /\ n = Len(t) /\ st = s \o t
  OBVIOUS
<1>2. /\ m \in Nat /\ n \in Nat /\ Len(st) = m + n
      /\ \A i \in 1 .. m + n : st[i] = IF i =< m THEN s[i] ELSE t[i - m]
  BY <1>1, ConcatProperties, LenProperties
<1>3. n # 0 /\ t[n] = Newline
  BY <1>1, EmptySeq DEF Ended
<1>4. st[m + n] = t[n]
  BY <1>2, <1>3
<1>5. st # <<>>
  BY <1>2, <1>3, EmptySeq
<1> QED
  BY <1>1, <1>2, <1>3, <1>4, <1>5 DEF Ended

(***************************************************************************)
(* Texts.  Two texts in a row are a text; what follows a text in a text is *)
(* one; and a text that is cut elsewhere than within a character leaves    *)
(* one.                                                                    *)
(***************************************************************************)
LEMMA ThreeDistinctBytes ==
    /\ Newline \in Byte /\ Lead \in Byte /\ Continuation \in Byte
    /\ Newline # Lead /\ Newline # Continuation /\ Lead # Continuation
<1> DEFINE three == {Newline, Lead, Continuation}
<1>1. ASSUME NEW a, NEW b, three = {a} \cup {b}
      PROVE  FALSE
  <2>1. IsFiniteSet({a}) /\ Cardinality({a}) = 1
    BY FS_Singleton
  <2>2. Cardinality({a} \cup {b}) = IF b \in {a} THEN 1 ELSE 1 + 1
    BY <2>1, FS_AddElement
  <2> QED
    BY <1>1, <2>2, LinesAssumption
<1>2. Newline = Lead => three = {Lead} \cup {Continuation}
  OBVIOUS
<1>3. Newline = Continuation => three = {Lead} \cup {Continuation}
  OBVIOUS
<1>4. Lead = Continuation => three = {Newline} \cup {Lead}
  OBVIOUS
<1> HIDE DEF three
<1> QED
  BY <1>1, <1>2, <1>3, <1>4, LinesAssumption

\* Nothing is text.
LEMMA NothingIsValid == Valid(<<>>)
BY EmptySeq DEF Valid

\* Two texts make a text.
LEMMA ValidConcat ==
    ASSUME NEW s \in Seq(Byte), NEW t \in Seq(Byte), Valid(s), Valid(t)
    PROVE  Valid(s \o t)
<1>1. PICK st, m, n : st = s \o t /\ m = Len(s) /\ n = Len(t)
  OBVIOUS
<1>2. /\ m \in Nat /\ n \in Nat /\ Len(st) = m + n
      /\ \A i \in 1 .. m + n : st[i] = IF i =< m THEN s[i] ELSE t[i - m]
  BY <1>1, ConcatProperties, LenProperties
<1>3. \A i \in 1 .. m : /\ s[i] = Lead => i < m /\ s[i + 1] = Continuation
                        /\ s[i] = Continuation => i > 1 /\ s[i - 1] = Lead
  BY <1>1 DEF Valid
<1>4. \A i \in 1 .. n : /\ t[i] = Lead => i < n /\ t[i + 1] = Continuation
                        /\ t[i] = Continuation => i > 1 /\ t[i - 1] = Lead
  BY <1>1 DEF Valid
<1>5. ASSUME NEW i \in 1 .. m + n
      PROVE  /\ st[i] = Lead => i < m + n /\ st[i + 1] = Continuation
             /\ st[i] = Continuation => i > 1 /\ st[i - 1] = Lead
  <2>1. CASE i =< m
    <3>1. st[i] = s[i] /\ i \in 1 .. m
      BY <1>2, <2>1
    <3>2. i < m => i + 1 \in 1 .. m /\ i + 1 \in 1 .. m + n /\ st[i + 1] = s[i + 1]
      BY <1>2, <2>1
    <3>3. i > 1 => i - 1 \in 1 .. m + n /\ st[i - 1] = s[i - 1]
      BY <1>2, <2>1
    <3> QED
      BY <1>2, <1>3, <3>1, <3>2, <3>3
  <2>2. CASE i > m
    <3>1. PICK j : j = i - m
      OBVIOUS
    <3>2. j \in 1 .. n /\ st[i] = t[j]
      BY <1>2, <2>2, <3>1
    <3>3. j < n => i + 1 \in 1 .. m + n /\ st[i + 1] = t[j + 1]
      <4>1. (i + 1) - m = j + 1
        BY <1>2, <3>1
      <4> QED
        BY <1>2, <2>2, <3>1, <3>2, <4>1
    <3>4. j > 1 => i - 1 \in 1 .. m + n /\ st[i - 1] = t[j - 1] /\ i > 1
      <4>1. (i - 1) - m = j - 1
        BY <1>2, <3>1
      <4> QED
        BY <1>2, <2>2, <3>1, <3>2, <4>1
    <3> QED
      BY <1>2, <1>4, <2>2, <3>1, <3>2, <3>3, <3>4
  <2> QED
    BY <1>2, <2>1, <2>2
<1> QED
  BY <1>1, <1>2, <1>5 DEF Valid

\* A text that is cut, but not within a character, leaves a text before the cut ...
LEMMA ValidPrefix ==
    ASSUME NEW s \in Seq(Byte), NEW t \in Seq(Byte), Valid(s \o t),
           s = <<>> \/ s[Len(s)] # Lead
    PROVE  Valid(s)
<1>1. PICK st, m, n : st = s \o t /\ m = Len(s) /\ n = Len(t)
  OBVIOUS
<1>2. /\ m \in Nat /\ n \in Nat /\ Len(st) = m + n
      /\ \A i \in 1 .. m + n : st[i] = IF i =< m THEN s[i] ELSE t[i - m]
  BY <1>1, ConcatProperties, LenProperties
<1>3. \A i \in 1 .. m + n : /\ st[i] = Lead => i < m + n /\ st[i + 1] = Continuation
                            /\ st[i] = Continuation => i > 1 /\ st[i - 1] = Lead
  BY <1>1, <1>2 DEF Valid
<1>4. m = 0 \/ s[m] # Lead
  BY <1>1, EmptySeq
<1>5. ASSUME NEW i \in 1 .. m
      PROVE  /\ s[i] = Lead => i < m /\ s[i + 1] = Continuation
             /\ s[i] = Continuation => i > 1 /\ s[i - 1] = Lead
  <2>1. i \in 1 .. m + n /\ st[i] = s[i]
    BY <1>2
  <2>2. s[i] = Lead => i < m
    BY <1>2, <1>4
  <2>3. i < m => i + 1 \in 1 .. m + n /\ st[i + 1] = s[i + 1]
    BY <1>2
  <2>4. i > 1 => i - 1 \in 1 .. m + n /\ st[i - 1] = s[i - 1]
    BY <1>2
  <2> QED
    BY <1>3, <2>1, <2>2, <2>3, <2>4
<1> QED
  BY <1>1, <1>5 DEF Valid

\* ... and one after it.
LEMMA ValidSuffix ==
    ASSUME NEW s \in Seq(Byte), NEW t \in Seq(Byte), Valid(s), Valid(s \o t)
    PROVE  Valid(t)
<1>1. PICK st, m, n : st = s \o t /\ m = Len(s) /\ n = Len(t)
  OBVIOUS
<1>2. /\ m \in Nat /\ n \in Nat /\ Len(st) = m + n
      /\ \A i \in 1 .. m + n : st[i] = IF i =< m THEN s[i] ELSE t[i - m]
  BY <1>1, ConcatProperties, LenProperties
<1>3. \A i \in 1 .. m + n : /\ st[i] = Lead => i < m + n /\ st[i + 1] = Continuation
                            /\ st[i] = Continuation => i > 1 /\ st[i - 1] = Lead
  BY <1>1, <1>2 DEF Valid
<1>4. m # 0 => s[m] # Lead
  BY <1>1, <1>2 DEF Valid
<1>5. ASSUME NEW i \in 1 .. n
      PROVE  /\ t[i] = Lead => i < n /\ t[i + 1] = Continuation
             /\ t[i] = Continuation => i > 1 /\ t[i - 1] = Lead
  <2>1. PICK j : j = m + i
    OBVIOUS
  <2>2. j \in 1 .. m + n /\ j - m = i /\ j > m /\ st[j] = t[i]
    BY <1>2, <2>1
  <2>3. i < n <=> j < m + n
    BY <1>2, <2>1
  <2>4. i < n => j + 1 \in 1 .. m + n /\ st[j + 1] = t[i + 1]
    <3>1. (j + 1) - m = i + 1
      BY <1>2, <2>1
    <3> QED
      BY <1>2, <2>1, <3>1
  <2>5. i > 1 => j - 1 \in 1 .. m + n /\ st[j - 1] = t[i - 1]
    <3>1. (j - 1) - m = i - 1
      BY <1>2, <2>1
    <3> QED
      BY <1>2, <2>1, <3>1
  <2>6. t[i] = Continuation => i > 1
    <3> SUFFICES ASSUME t[i] = Continuation, i = 1
                 PROVE  FALSE
      OBVIOUS
    <3>1. j > 1 /\ st[j - 1] = Lead
      BY <1>3, <2>2
    <3>2. j - 1 = m /\ m # 0 /\ m \in 1 .. m + n
      BY <1>2, <2>1, <3>1
    <3>3. st[m] = s[m]
      BY <1>2, <3>2
    <3> QED
      BY <1>4, <3>1, <3>2, <3>3
  <2> QED
    BY <1>3, <2>2, <2>3, <2>4, <2>5, <2>6
<1> QED
  BY <1>1, <1>5 DEF Valid

(***************************************************************************)
(* The invariant.                                                          *)
(***************************************************************************)
\* The guest was told of what the host has read and of what the pipe holds,
\* whose writer exists until the guest closes it.
Delivered(fd) == /\ wrote[fd] = seen[fd] \o out[fd].buf
                 /\ out[fd].closed <=> fd \notin opened

\* Nothing more comes out of the pipe.
Finished(fd) == fd \notin opened /\ out[fd].buf = <<>>

OutputInv == \A fd \in Outputs : /\ Delivered(fd)
                                 /\ fd \in seenEof => Finished(fd)

\* What is true of the input of a guest that reads into one buffer at a time.
InputInv == /\ stdin.closed \/ ~gotEof
            /\ 0 \in opened => /\ sent = got \o Ahead(Reader)
                               /\ gotEof => Ahead(Reader) = <<>>

\* A line without a newline is the last of an output that has nothing more.
IsLine(fd, i) ==
    LET line == lines[fd][i] IN
    /\ line # <<>> /\ Valid(line)
    /\ PlainFront(line)
    /\ \/ Ended(line)
       \/ i = Len(lines[fd]) /\ Finished(fd) /\ part[fd] = <<>>

LinesInv(fd) ==
    /\ \A i \in 1 .. Len(lines[fd]) : IsLine(fd, i)
    /\ Plain(part[fd])
    /\ reading[fd] = "eof" => Finished(fd)

\* The lines and the part of the next one are what was read.
InOrder(fd) == FlattenSeq(lines[fd]) \o part[fd] = seen[fd]

StdoutInv ==
    /\ Valid(part[1])
    /\ ~torn => /\ Valid(wrote[1]) /\ Valid(seen[1])
                /\ reading[1] # "failed"
                /\ InOrder(1)

\* The logger fails at a line that is no text, and nothing that is written
\* later makes a text of it.
LogInv ==
    /\ Valid(FlattenSeq(lines[2]))
    /\ reading[2] # "failed" => InOrder(2)
    /\ reading[2] = "eof" => part[2] = <<>>
    /\ reading[2] = "failed" =>
         /\ ~Valid(seen[2])
         /\ Finished(2) \/ Ended(seen[2])

OutInv == LinesTypeOK /\ OutputInv
LineInv == OutInv /\ LinesInv(1) /\ LinesInv(2) /\ StdoutInv /\ LogInv

\* The outputs are stdout and stderr.
LEMMA OutputsAreTwo == 1 \in Outputs /\ 2 \in Outputs /\ 0 \notin Outputs
BY DEF Outputs

\* Every stream begins with an empty pipe that is open.
LEMMA NewPipeIsEmpty == NewPipe \in Inner(Byte) /\ NewPipe.buf = <<>> /\ ~NewPipe.closed
BY EmptySeq DEF NewPipe, Inner

\* The types at the start.
LEMMA InitTypeOK == LinesInit => LinesTypeOK
<1> SUFFICES ASSUME LinesInit
             PROVE  LinesTypeOK
  OBVIOUS
<1>1. <<>> \in Seq(Byte) /\ <<>> \in Seq(Seq(Byte)) /\ Len(<<>>) =< Capacity
  BY EmptySeq, StreamsAssumption
<1>2. TypeOK
  BY <1>1, NewPipeIsEmpty DEF LinesInit, Init, TypeOK
<1> QED
  BY <1>1, <1>2 DEF LinesInit, LinesTypeOK

\* The parts of the invariant at the start.
LEMMA InitLineInv == LinesInit => LineInv
<1> SUFFICES ASSUME LinesInit
             PROVE  LineInv
  OBVIOUS
<1> USE DEF LinesInit, Init
<1>1. <<>> \in Seq(Byte) /\ Len(<<>>) = 0 /\ <<>> \o <<>> = <<>>
  <2>1. <<>> \in Seq(Byte) /\ Len(<<>>) = 0
    BY EmptySeq
  <2> QED
    BY <2>1, ConcatEmptySeq
<1>2. OutputInv
  BY <1>1, NewPipeIsEmpty DEF OutputInv, Delivered
<1>3. FlattenSeq(<<>>) = <<>>
  BY <1>1 DEF FlattenSeq
<1>4. LinesInv(1) /\ LinesInv(2)
  BY <1>1, OutputsAreTwo DEF LinesInv, Plain
<1>5. StdoutInv /\ LogInv
  BY <1>1, <1>3, OutputsAreTwo, NothingIsValid DEF StdoutInv, LogInv, InOrder
<1> QED
  BY <1>2, <1>4, <1>5, InitTypeOK DEF LineInv, OutInv

\* The invariant of the input at the start.
LEMMA InitInputInv == LinesInit => InputInv
<1> SUFFICES ASSUME LinesInit
             PROVE  InputInv
  OBVIOUS
<1> USE DEF LinesInit, Init
<1>1. <<>> \o (<<>> \o <<>>) = <<>>
  BY EmptySeq, ConcatEmptySeq
<1> QED
  BY <1>1, NewPipeIsEmpty DEF InputInv, Ahead, Reader

(***************************************************************************)
(* The calls and the host's writes.                                        *)
(***************************************************************************)
LEMMA ReaderType == TypeOK => Reader \in Readers
BY DEF TypeOK, Reader, Readers

\* What fd_read starts with.
Before == [reader |-> Reader, data |-> <<>>, status |-> "more"]

\* Nothing has been gathered then.
LEMMA BeforeType ==
    TypeOK => Before \in LoopStates /\ Gathered(Before) = Ahead(Reader)
<1> SUFFICES ASSUME TypeOK
             PROVE  Before \in LoopStates /\ Gathered(Before) = Ahead(Reader)
  OBVIOUS
<1>1. Reader \in Readers /\ Ahead(Reader) \in Seq(Byte)
  BY ReaderType, AheadType
<1>2. <<>> \o Ahead(Reader) = Ahead(Reader) /\ <<>> \in Seq(Byte)
  BY <1>1, ConcatEmptySeq, EmptySeq
<1> QED
  BY <1>1, <1>2 DEF Before, LoopStates, Gathered

\* fd_read, with what its loop keeps.
LEMMA ReadEffect ==
    ASSUME TypeOK, NEW lengths \in UpTo(MaxReads, Lengths), FdRead(lengths)
    PROVE  \E s \in LoopStates :
             /\ s = FoldLeft(ReadBuffer, Before, lengths)
             /\ s.reader.pipe.closed = stdin.closed
             /\ Ahead(Reader) = s.data \o Ahead(s.reader)
             /\ stdin' = s.reader.pipe /\ lookahead' = s.reader.look
             /\ \/ /\ s.status = "again"
                   /\ UNCHANGED <<got, gotEof>>
                \/ /\ s.status # "again"
                   /\ got' = got \o s.data
                   /\ gotEof' = \/ gotEof
                                \/ /\ s.data = <<>>
                                   /\ \E i \in DOMAIN lengths : lengths[i] > 0
<1>1. PICK s : s = FoldLeft(ReadBuffer, Before, lengths)
  OBVIOUS
<1>2. /\ stdin' = s.reader.pipe /\ lookahead' = s.reader.look
      /\ \/ /\ s.status = "again"
            /\ UNCHANGED <<got, gotEof>>
         \/ /\ s.status # "again"
            /\ got' = got \o s.data
            /\ gotEof' = \/ gotEof
                         \/ s.data = <<>> /\ \E i \in DOMAIN lengths : lengths[i] > 0
  BY <1>1 DEF FdRead, Before
<1>3. Before \in LoopStates /\ lengths \in Seq(Nat)
  BY BeforeType, LengthsOfReads
<1>4. /\ s \in LoopStates
      /\ s.reader.pipe.closed = Before.reader.pipe.closed
      /\ Gathered(s) = Gathered(Before)
  BY <1>1, <1>3, LoopKeepsBytes
<1>5. Before.reader.pipe.closed = stdin.closed
  BY DEF Before, Reader
<1>6. Ahead(Reader) = s.data \o Ahead(s.reader)
  BY <1>4, BeforeType DEF Gathered
<1> QED
  BY <1>1, <1>2, <1>4, <1>5, <1>6

\* Every call of the guest and every write of the host keeps the types.
LEMMA CallsKeepTypes ==
    ASSUME TypeOK, CallOrWrite
    PROVE  TypeOK'
<1>1. ASSUME NEW lengths \in UpTo(MaxReads, Lengths), FdRead(lengths)
      PROVE  TypeOK'
  <2>1. PICK s \in LoopStates :
             /\ stdin' = s.reader.pipe /\ lookahead' = s.reader.look
             /\ got' = got \/ got' = got \o s.data
             /\ gotEof' \in BOOLEAN
    BY <1>1, ReadEffect DEF TypeOK
  <2>2. /\ stdin' \in Inner(Byte)
        /\ lookahead' \in Seq(Byte) /\ Len(lookahead') =< Capacity
    BY <2>1 DEF LoopStates, Readers
  <2>3. got' \in Seq(Byte)
    <3>1. got \in Seq(Byte) /\ s.data \in Seq(Byte)
      BY DEF LoopStates, TypeOK
    <3>2. got \o s.data \in Seq(Byte)
      BY <3>1, ConcatProperties
    <3> QED
      BY <2>1, <3>1, <3>2
  <2>4. UNCHANGED <<sent, outVars, opened>>
    BY <1>1 DEF FdRead
  <2> QED
    BY <2>1, <2>2, <2>3, <2>4 DEF TypeOK, outVars
<1>2. CASE StdinAvailable
  <2>1. Fill(Reader) \in Readers
    BY ReaderType, FillKeepsBytes
  <2> QED
    BY <1>2, <2>1 DEF StdinAvailable, Readers, TypeOK, outVars
<1>3. ASSUME NEW fd \in Outputs, NEW bufs \in UpTo(MaxWrites, Chunks), FdWrite(fd, bufs)
      PROVE  TypeOK'
  <2>1. FlattenSeq(bufs) \in Seq(Byte) /\ out[fd] \in Inner(Byte) /\ wrote[fd] \in Seq(Byte)
    BY BuffersOfWrites DEF TypeOK
  <2>2. WritePipe(out[fd], Written(bufs)).pipe \in Inner(Byte)
    BY <2>1, WriteKeepsPipe DEF Written
  <2>3. wrote[fd] \o FlattenSeq(bufs) \in Seq(Byte)
    BY <2>1, ConcatProperties
  <2> QED
    BY <1>3, <2>2, <2>3 DEF FdWrite, TypeOK, inVars
<1>4. ASSUME NEW fd \in {0} \cup Outputs, FdClose(fd)
      PROVE  TypeOK'
  <2>1. \A f \in Outputs : DropPipe(out[f]).pipe \in Inner(Byte)
    BY DropClosesPipe DEF TypeOK
  <2> QED
    BY <1>4, <2>1 DEF FdClose, TypeOK, inVars
<1>5. ASSUME NEW items \in Chunks, HostWrites(items)
      PROVE  TypeOK'
  <2>1. items \in Seq(Byte) /\ stdin \in Inner(Byte) /\ sent \in Seq(Byte)
    BY StreamsAssumption DEF TypeOK
  <2>2. WritePipe(stdin, items).pipe \in Inner(Byte) /\ sent \o items \in Seq(Byte)
    BY <2>1, WriteKeepsPipe, ConcatProperties
  <2> QED
    BY <1>5, <2>2 DEF HostWrites, TypeOK, outVars
<1>6. CASE HostDropsStdin
  <2>1. DropPipe(stdin).pipe \in Inner(Byte)
    BY DropClosesPipe DEF TypeOK
  <2> QED
    BY <1>6, <2>1 DEF HostDropsStdin, TypeOK, outVars
<1> QED
  BY <1>1, <1>2, <1>3, <1>4, <1>5, <1>6 DEF CallOrWrite

\* What a call or the host does to an output it does not read: the bytes it
\* adds are all in the pipe, and an output that is finished stays so.
LEMMA CallsKeepOutputs ==
    ASSUME TypeOK, OutputInv, CallOrWrite
    PROVE  /\ OutputInv'
           /\ UNCHANGED <<seen, seenEof>>
           /\ \A fd \in Outputs : Finished(fd) => Finished(fd)'
<1>1. CASE UNCHANGED <<outVars, opened>>
  BY <1>1 DEF outVars, OutputInv, Delivered, Finished
<1>2. ASSUME NEW f \in Outputs, NEW bufs \in UpTo(MaxWrites, Chunks), FdWrite(f, bufs)
      PROVE  /\ OutputInv'
             /\ UNCHANGED <<seen, seenEof>>
             /\ \A fd \in Outputs : Finished(fd) => Finished(fd)'
  <2>1. PICK items : items = FlattenSeq(bufs)
    OBVIOUS
  <2>2. /\ items \in Seq(Byte)
        /\ f \in opened /\ UNCHANGED <<opened, seen, seenEof>>
        /\ out' = [out EXCEPT ![f] = WritePipe(@, items).pipe]
        /\ wrote' = [wrote EXCEPT ![f] = @ \o items]
    BY <1>2, <2>1, BuffersOfWrites DEF FdWrite, Written
  <2>3. /\ out[f] \in Inner(Byte) /\ out[f].buf \in Seq(Byte) /\ seen[f] \in Seq(Byte)
        /\ out \in [Outputs -> Inner(Byte)] /\ wrote \in [Outputs -> Seq(Byte)]
    BY DEF TypeOK, Inner
  <2>4. /\ out'[f].buf = out[f].buf \o items
        /\ out'[f].closed = out[f].closed
        /\ wrote'[f] = wrote[f] \o items
    BY <2>2, <2>3 DEF WritePipe, Inner
  <2>5. (seen[f] \o out[f].buf) \o items = seen[f] \o (out[f].buf \o items)
    <3>1. PICK a, b : a = seen[f] /\ b = out[f].buf
      OBVIOUS
    <3>2. a \in Seq(Byte) /\ b \in Seq(Byte) /\ items \in Seq(Byte)
      BY <2>2, <2>3, <3>1
    <3>3. (a \o b) \o items = a \o (b \o items)
      BY <3>2, ConcatAssociative
    <3> QED
      BY <3>1, <3>3
  <2>6. ASSUME NEW fd \in Outputs
        PROVE  /\ Delivered(fd)'
               /\ (fd \in seenEof => Finished(fd))'
               /\ Finished(fd) => Finished(fd)'
    <3>1. Delivered(fd) /\ (fd \in seenEof => Finished(fd))
      BY DEF OutputInv
    <3>2. CASE fd = f
      BY <2>2, <2>4, <2>5, <3>1, <3>2 DEF Delivered, Finished
    <3>3. CASE fd # f
      <4>1. out'[fd] = out[fd] /\ wrote'[fd] = wrote[fd]
        BY <2>2, <2>3, <3>3
      <4> QED
        BY <2>2, <3>1, <4>1 DEF Delivered, Finished
    <3> QED
      BY <3>2, <3>3
  <2> QED
    BY <2>2, <2>6 DEF OutputInv
<1>3. ASSUME NEW f \in {0} \cup Outputs, FdClose(f)
      PROVE  /\ OutputInv'
             /\ UNCHANGED <<seen, seenEof>>
             /\ \A fd \in Outputs : Finished(fd) => Finished(fd)'
  <2>1. /\ f \in opened /\ opened' = opened \ {f} /\ UNCHANGED <<wrote, seen, seenEof>>
        /\ out' = [fd \in Outputs |-> IF fd = f THEN DropPipe(out[fd]).pipe
                                                ELSE out[fd]]
    BY <1>3 DEF FdClose
  <2>2. ASSUME NEW fd \in Outputs
        PROVE  /\ Delivered(fd)'
               /\ (fd \in seenEof => Finished(fd))'
               /\ Finished(fd) => Finished(fd)'
    <3>1. Delivered(fd) /\ (fd \in seenEof => Finished(fd)) /\ out[fd] \in Inner(Byte)
      BY DEF OutputInv, TypeOK
    <3>2. CASE fd = f
      <4>1. out'[fd].buf = out[fd].buf /\ out'[fd].closed
        BY <2>1, <3>1, <3>2 DEF DropPipe, Inner
      <4> QED
        BY <2>1, <3>1, <3>2, <4>1 DEF Delivered, Finished
    <3>3. CASE fd # f
      <4>1. out'[fd] = out[fd]
        BY <2>1, <3>3
      <4> QED
        BY <2>1, <3>1, <3>3, <4>1 DEF Delivered, Finished
    <3> QED
      BY <3>2, <3>3
  <2> QED
    BY <2>1, <2>2 DEF OutputInv
<1>4. ASSUME NEW lengths \in UpTo(MaxReads, Lengths), FdRead(lengths)
      PROVE  UNCHANGED <<outVars, opened>>
  BY <1>4 DEF FdRead
<1>5. StdinAvailable => UNCHANGED <<outVars, opened>>
  BY DEF StdinAvailable
<1>6. ASSUME NEW items \in Chunks, HostWrites(items)
      PROVE  UNCHANGED <<outVars, opened>>
  BY <1>6 DEF HostWrites
<1>7. HostDropsStdin => UNCHANGED <<outVars, opened>>
  BY DEF HostDropsStdin
<1> QED
  BY <1>1, <1>2, <1>3, <1>4, <1>5, <1>6, <1>7 DEF CallOrWrite

(***************************************************************************)
(* The host reads.                                                         *)
(***************************************************************************)
TakesLine(fd, taken, rest) ==
    /\ taken = UpToNewline(out[fd])
    /\ out[fd].buf = taken \o rest /\ out'[fd].buf = rest
    /\ out'[fd].closed = out[fd].closed /\ out'[fd] \in Inner(Byte)
    /\ seen'[fd] = seen[fd] \o taken /\ seen'[fd] \in Seq(Byte)
    /\ PlainFront(taken)
    /\ taken = <<>> => out[fd].buf = <<>> /\ rest = <<>>
    /\ \/ Complete(out[fd]) /\ Ended(taken)
       \/ rest = <<>> /\ Plain(taken) /\ (Complete(out[fd]) => out[fd].closed)
    /\ seenEof' = IF taken = <<>> /\ out[fd].closed
                  THEN seenEof \cup {fd} ELSE seenEof
    /\ \A f \in Outputs : f # fd => out'[f] = out[f] /\ seen'[f] = seen[f]
    /\ UNCHANGED <<inVars, wrote, opened>>

\* read_line takes such a line.
LEMMA ReadLineTakes ==
    ASSUME LinesTypeOK, NEW fd \in Outputs, ReadLine(fd)
    PROVE  \E taken \in Seq(Byte), rest \in Seq(Byte) : TakesLine(fd, taken, rest)
<1>1. PICK p : p = out[fd]
  OBVIOUS
<1>2. /\ p \in Inner(Byte) /\ p.buf \in Seq(Byte) /\ seen[fd] \in Seq(Byte)
      /\ out \in [Outputs -> Inner(Byte)] /\ seen \in [Outputs -> Seq(Byte)]
  BY <1>1 DEF LinesTypeOK, TypeOK, Inner
<1>3. PICK taken, n : taken = UpToNewline(p) /\ n = Len(taken)
  OBVIOUS
<1>4. /\ taken \in Seq(Byte) /\ n \in Nat
      /\ Taken(p, n) = taken
      /\ PlainFront(taken)
      /\ taken = <<>> <=> p.buf = <<>>
      /\ IF Newline \in ToSet(p.buf)
         THEN Ended(taken)
         ELSE taken = p.buf /\ AfterTaking(p, n) = <<>> /\ Plain(taken)
  BY <1>2, <1>3, LineTaken
<1>5. PICK rest : rest = AfterTaking(p, n)
  OBVIOUS
<1>6. rest \in Seq(Byte) /\ taken \o rest = p.buf
  BY <1>2, <1>4, <1>5, TakenSplitsBuffer
<1>7. /\ out' = [out EXCEPT ![fd] = ReadPipe(@, n)]
      /\ seen' = [seen EXCEPT ![fd] = @ \o taken]
      /\ seenEof' = IF Outcome(p, n) = "eof" THEN seenEof \cup {fd} ELSE seenEof
      /\ UNCHANGED <<inVars, wrote, opened>>
  BY <1>1, <1>3, <1>4 DEF ReadLine, HostReads
<1>8. /\ out'[fd] = ReadPipe(p, n) /\ seen'[fd] = seen[fd] \o taken
      /\ \A f \in Outputs : f # fd => out'[f] = out[f] /\ seen'[f] = seen[f]
  BY <1>1, <1>2, <1>7
<1>9. /\ ReadPipe(p, n) \in Inner(Byte) /\ ReadPipe(p, n).closed = p.closed
      /\ ReadPipe(p, n).buf = rest
  <2>1. ReadPipe(p, n).buf = rest
    BY <1>2, <1>5 DEF ReadPipe, Inner
  <2> QED
    BY <1>2, <1>4, <2>1, ReadKeepsPipe
<1>10. seen[fd] \o taken \in Seq(Byte)
  BY <1>2, <1>4, ConcatProperties
<1>11. Outcome(p, n) = "eof" <=> taken = <<>> /\ p.closed
  BY <1>4 DEF Outcome
<1>12. taken = <<>> => p.buf = <<>> /\ rest = <<>>
  BY <1>4, <1>6, ConcatEqualIffEmpty
<1>13. /\ Newline \in ToSet(p.buf) => Complete(p)
       /\ Newline \notin ToSet(p.buf) => (Complete(p) => p.closed)
  BY DEF Complete
<1>14. \/ Complete(p) /\ Ended(taken)
       \/ rest = <<>> /\ Plain(taken) /\ (Complete(p) => p.closed)
  BY <1>3, <1>4, <1>5, <1>13
<1>15. TakesLine(fd, taken, rest)
  BY <1>1, <1>3, <1>4, <1>6, <1>7, <1>8, <1>9, <1>10, <1>11, <1>12, <1>14
     DEF TakesLine
<1> QED
  BY <1>4, <1>6, <1>15

\* It moves bytes from the pipe to what the host has seen.
LEMMA ReadLineKeepsOutputs ==
    ASSUME LinesTypeOK, OutputInv, NEW fd \in Outputs, ReadLine(fd)
    PROVE  /\ OutputInv'
           /\ \A f \in Outputs : Finished(f) => Finished(f)'
<1>1. PICK taken \in Seq(Byte), rest \in Seq(Byte) : TakesLine(fd, taken, rest)
  BY ReadLineTakes
<1>2. seen[fd] \in Seq(Byte)
  BY DEF LinesTypeOK, TypeOK
<1>3. (seen[fd] \o taken) \o rest = seen[fd] \o (taken \o rest)
  <2>1. PICK a : a = seen[fd]
    OBVIOUS
  <2>2. a \in Seq(Byte)
    BY <1>2, <2>1
  <2>3. (a \o taken) \o rest = a \o (taken \o rest)
    BY <2>2, ConcatAssociative
  <2> QED
    BY <2>1, <2>3
<1>4. out[fd].buf = <<>> => rest = <<>>
  <2>1. out[fd].buf = taken \o rest
    BY <1>1 DEF TakesLine
  <2>2. taken \o rest = <<>> => rest = <<>>
    BY ConcatEqualIffEmpty
  <2> QED
    BY <2>1, <2>2
<1>5. ASSUME NEW f \in Outputs
      PROVE  /\ Delivered(f)'
             /\ (f \in seenEof => Finished(f))'
             /\ Finished(f) => Finished(f)'
  <2>1. Delivered(f) /\ (f \in seenEof => Finished(f))
    BY DEF OutputInv
  <2>2. CASE f = fd
    BY <1>1, <1>3, <1>4, <2>1, <2>2 DEF Delivered, Finished, TakesLine
  <2>3. CASE f # fd
    BY <1>1, <2>1, <2>3 DEF Delivered, Finished, TakesLine
  <2> QED
    BY <2>2, <2>3
<1> QED
  BY <1>5 DEF OutputInv

(***************************************************************************)
(* The lines.                                                              *)
(***************************************************************************)
\* A step that leaves the lines alone and reopens nothing.
LEMMA LinesStay ==
    ASSUME NEW fd \in Outputs, LinesInv(fd), Finished(fd) => Finished(fd)',
           lines'[fd] = lines[fd], part'[fd] = part[fd], reading'[fd] = reading[fd]
    PROVE  LinesInv(fd)'
BY DEF LinesInv, IsLine

\* The steps that do not read an output keep what is said of its lines.
LEMMA CallsKeepLines ==
    ASSUME LineInv, CallOrWrite, UNCHANGED lineVars, torn' = (torn \/ ~Valid(wrote'[1]))
    PROVE  /\ LinesInv(1)' /\ LinesInv(2)'
           /\ StdoutInv' /\ LogInv'
<1> USE DEF LineInv
<1>1. UNCHANGED <<reading, part, lines>>
  BY DEF lineVars
<1>2. UNCHANGED seen /\ \A fd \in Outputs : Finished(fd) => Finished(fd)'
  BY CallsKeepOutputs DEF OutInv, LinesTypeOK
<1>3. LinesInv(1)' /\ LinesInv(2)'
  BY <1>1, <1>2, LinesStay, OutputsAreTwo
<1>4. StdoutInv'
  BY <1>1, <1>2 DEF StdoutInv, InOrder
<1>5. LogInv'
  BY <1>1, <1>2, OutputsAreTwo DEF LogInv, InOrder
<1> QED
  BY <1>3, <1>4, <1>5

\* What becomes of a line that was read: it is kept, the end is noted, it is no
\* text, or it is handed on.
LineRead(fd, taken, now, line) ==
    \/ /\ ~Complete(out[fd])
       /\ part'[fd] = Keeps(fd, taken)
       /\ reading'[fd] = "yes" /\ lines'[fd] = lines[fd]
    \/ /\ Complete(out[fd]) /\ now = <<>>
       /\ reading'[fd] = "eof" /\ part'[fd] = part[fd] /\ lines'[fd] = lines[fd]
    \/ /\ Complete(out[fd]) /\ ~Valid(now)
       /\ reading'[fd] = "failed" /\ part'[fd] = part[fd] /\ lines'[fd] = lines[fd]
    \/ /\ Complete(out[fd]) /\ now # <<>> /\ Valid(now)
       /\ lines'[fd] = Append(lines[fd], line) /\ part'[fd] = <<>>
       /\ reading'[fd] = "yes"

\* One call of read_line does one of the four.
LEMMA ReadLineReads ==
    ASSUME LinesTypeOK, NEW fd \in Outputs, ReadLine(fd),
           NEW taken, taken = UpToNewline(out[fd])
    PROVE  /\ reading[fd] = "yes"
           /\ LineRead(fd, taken, ReadNow(fd, taken), part[fd] \o taken)
           /\ \A f \in Outputs : f # fd => /\ lines'[f] = lines[f]
                                           /\ part'[f] = part[f]
                                           /\ reading'[f] = reading[f]
<1>1. /\ reading \in [Outputs -> {"yes", "eof", "failed"}]
      /\ part \in [Outputs -> Seq(Byte)]
      /\ lines \in [Outputs -> Seq(Seq(Byte))]
  BY DEF LinesTypeOK
<1>2. PICK now, line : now = ReadNow(fd, taken) /\ line = part[fd] \o taken
  OBVIOUS
<1>3. /\ reading[fd] = "yes"
      /\ \/ /\ ~Complete(out[fd])
            /\ part' = [part EXCEPT ![fd] = Keeps(fd, taken)]
            /\ UNCHANGED <<reading, lines>>
         \/ /\ Complete(out[fd]) /\ now = <<>>
            /\ reading' = [reading EXCEPT ![fd] = "eof"]
            /\ UNCHANGED <<part, lines>>
         \/ /\ Complete(out[fd]) /\ ~Valid(now)
            /\ reading' = [reading EXCEPT ![fd] = "failed"]
            /\ UNCHANGED <<part, lines>>
         \/ /\ Complete(out[fd]) /\ now # <<>> /\ Valid(now)
            /\ lines' = [lines EXCEPT ![fd] = Append(@, line)]
            /\ part' = [part EXCEPT ![fd] = <<>>]
            /\ UNCHANGED reading
  BY <1>2 DEF ReadLine, Cleared
<1>4. LineRead(fd, taken, now, line)
  BY <1>1, <1>3 DEF LineRead
<1>5. \A f \in Outputs : f # fd => /\ lines'[f] = lines[f]
                                   /\ part'[f] = part[f]
                                   /\ reading'[f] = reading[f]
  BY <1>1, <1>3
<1> QED
  BY <1>2, <1>3, <1>4, <1>5

\* The lines handed on stay lines: one is appended only while the others end
\* with a newline.
LEMMA ReadLineKeepsLines ==
    ASSUME LineInv, NEW fd \in Outputs, ReadLine(fd)
    PROVE  LinesInv(fd)'
<1> USE DEF LineInv, OutInv
<1>1. PICK taken \in Seq(Byte), rest \in Seq(Byte) : TakesLine(fd, taken, rest)
  BY ReadLineTakes
<1>2. PICK now, line : now = ReadNow(fd, taken) /\ line = part[fd] \o taken
  OBVIOUS
<1>3. reading[fd] = "yes" /\ LineRead(fd, taken, now, line)
  BY <1>1, <1>2, ReadLineReads DEF TakesLine
<1>4. /\ part[fd] \in Seq(Byte) /\ lines[fd] \in Seq(Seq(Byte))
      /\ Len(lines[fd]) \in Nat /\ line \in Seq(Byte)
  BY <1>2, LenProperties, ConcatProperties DEF LinesTypeOK
<1>5. LinesInv(fd)
  BY DEF Outputs
<1>6. Plain(part[fd]) /\ \A i \in 1 .. Len(lines[fd]) : IsLine(fd, i)
  BY <1>5 DEF LinesInv
<1>7. Finished(fd) => Finished(fd)'
  BY ReadLineKeepsOutputs
<1>8. Finished(fd) => Complete(out[fd]) /\ taken = <<>>
  <2>1. out[fd].closed <=> fd \notin opened
    BY DEF OutputInv, Delivered
  <2>2. taken \o rest = <<>> => taken = <<>>
    BY ConcatEqualIffEmpty
  <2> QED
    BY <1>1, <2>1, <2>2 DEF Finished, Complete, TakesLine
<1>9. /\ taken = <<>> => line = part[fd]
      /\ line = <<>> => taken = <<>> /\ part[fd] = <<>>
      /\ now = taken \/ now = line
  <2>1. /\ part[fd] \o <<>> = part[fd]
        /\ part[fd] \o taken = <<>> => taken = <<>> /\ part[fd] = <<>>
    BY <1>4, ConcatEmptySeq, ConcatEqualIffEmpty
  <2> QED
    BY <1>2, <2>1 DEF ReadNow
<1>10. CASE ~Complete(out[fd])
  <2>1. /\ reading'[fd] = "yes" /\ lines'[fd] = lines[fd]
        /\ part'[fd] = part[fd] \/ part'[fd] = line
    BY <1>2, <1>3, <1>10 DEF LineRead, Keeps
  <2>2. Plain(part'[fd])
    <3>1. Plain(taken)
      BY <1>1, <1>10 DEF TakesLine
    <3>2. Plain(line)
      BY <1>2, <1>4, <1>6, <3>1, EndOfConcat
    <3> QED
      BY <1>6, <2>1, <3>2
  <2>3. \A i \in 1 .. Len(lines[fd]) : Ended(lines[fd][i])
    BY <1>6, <1>8, <1>10 DEF IsLine
  <2> QED
    BY <1>6, <2>1, <2>2, <2>3 DEF LinesInv, IsLine
<1>11. CASE Complete(out[fd]) /\ now = <<>>
  <2>1. /\ lines'[fd] = lines[fd] /\ part'[fd] = part[fd]
    BY <1>3, <1>11, NothingIsValid DEF LineRead
  <2>2. taken = <<>>
    BY <1>9, <1>11
  <2>3. out[fd].closed /\ rest = <<>>
    BY <1>1, <1>11, <2>2 DEF TakesLine, Ended
  <2>4. Finished(fd)'
    BY <1>1, <2>3 DEF TakesLine, Finished, OutputInv, Delivered
  <2> QED
    BY <1>5, <2>1, <2>4 DEF LinesInv, IsLine
<1>12. CASE Complete(out[fd]) /\ ~Valid(now)
  <2>1. /\ lines'[fd] = lines[fd] /\ part'[fd] = part[fd] /\ reading'[fd] = "failed"
    BY <1>3, <1>12, NothingIsValid DEF LineRead
  <2> QED
    BY <1>5, <1>7, <2>1 DEF LinesInv, IsLine
<1>13. CASE Complete(out[fd]) /\ now # <<>> /\ Valid(now)
  <2>1. /\ lines'[fd] = Append(lines[fd], line) /\ part'[fd] = <<>>
        /\ reading'[fd] = "yes"
    BY <1>3, <1>13 DEF LineRead
  <2>2. PICK n : n = Len(lines[fd])
    OBVIOUS
  <2>3. /\ Len(lines'[fd]) = n + 1 /\ lines'[fd][n + 1] = line /\ n \in Nat
        /\ \A i \in 1 .. n : lines'[fd][i] = lines[fd][i]
    BY <1>4, <2>1, <2>2, AppendProperties
  <2>4. \A i \in 1 .. n : Ended(lines[fd][i])
    BY <1>6, <1>8, <1>9, <1>13, <2>2 DEF IsLine
  <2>5. \A i \in 1 .. n : IsLine(fd, i)'
    BY <1>6, <2>2, <2>3, <2>4 DEF IsLine
  <2>6. line # <<>> /\ PlainFront(line)
    <3>1. PlainFront(taken)
      BY <1>1 DEF TakesLine
    <3> QED
      BY <1>2, <1>4, <1>6, <1>9, <1>13, <3>1, EndOfConcat
  <2>7. Valid(line)
    <3>1. CASE fd = 1
      <4>1. Valid(part[fd]) /\ Valid(taken)
        BY <1>2, <1>13, <3>1 DEF StdoutInv, ReadNow
      <4> QED
        BY <1>2, <1>4, <4>1, ValidConcat
    <3>2. CASE fd # 1
      BY <1>2, <1>13, <3>2 DEF ReadNow
    <3> QED
      BY <3>1, <3>2
  <2>8. Ended(line) \/ Finished(fd)'
    <3>1. CASE Ended(taken)
      BY <1>2, <1>4, <1>6, <3>1, EndOfConcat
    <3>2. CASE ~Ended(taken)
      <4>1. out[fd].closed /\ rest = <<>>
        BY <1>1, <1>13, <3>2 DEF TakesLine
      <4> QED
        BY <1>1, <4>1 DEF TakesLine, Finished, OutputInv, Delivered
    <3> QED
      BY <3>1, <3>2
  <2>9. IsLine(fd, n + 1)'
    BY <2>1, <2>3, <2>6, <2>7, <2>8 DEF IsLine
  <2>10. \A i \in 1 .. n + 1 : IsLine(fd, i)'
    <3>1. \A i \in 1 .. n + 1 : i \in 1 .. n \/ i = n + 1
      BY <2>3
    <3> QED
      BY <2>5, <2>9, <3>1
  <2>11. Plain(<<>>)
    BY EmptySeq DEF Plain
  <2> QED
    BY <2>1, <2>3, <2>10, <2>11 DEF LinesInv
<1> QED
  BY <1>10, <1>11, <1>12, <1>13

\* A line of one output is nothing to the other.
LEMMA ReadLineKeepsOtherLines ==
    ASSUME LineInv, NEW fd \in Outputs, ReadLine(fd), NEW f \in Outputs, f # fd
    PROVE  LinesInv(f)'
<1>1. /\ lines'[f] = lines[f]
      /\ part'[f] = part[f]
      /\ reading'[f] = reading[f]
  BY ReadLineReads DEF LineInv, OutInv
<1>2. LinesInv(f)
  BY DEF LineInv, Outputs
<1>3. Finished(f) => Finished(f)'
  BY ReadLineKeepsOutputs DEF LineInv, OutInv
<1> QED
  BY <1>1, <1>2, <1>3, LinesStay

\* A line that is read keeps the types.
LEMMA ReadLineKeepsTypes ==
    ASSUME LinesTypeOK, NEW fd \in Outputs, ReadLine(fd),
           torn' = (torn \/ ~Valid(wrote'[1]))
    PROVE  LinesTypeOK'
<1>1. PICK taken \in Seq(Byte), rest \in Seq(Byte) : TakesLine(fd, taken, rest)
  BY ReadLineTakes
<1>2. PICK line : line = part[fd] \o taken
  OBVIOUS
<1>3. /\ taken = UpToNewline(out[fd])
      /\ out'[fd] \in Inner(Byte) /\ seen'[fd] \in Seq(Byte)
      /\ seenEof' = seenEof \/ seenEof' = seenEof \cup {fd}
      /\ UNCHANGED <<inVars, wrote, opened>>
  BY <1>1 DEF TakesLine
<1>4. \E x, y : out' = [out EXCEPT ![fd] = x] /\ seen' = [seen EXCEPT ![fd] = y]
  BY DEF ReadLine, HostReads
<1>5. TypeOK'
  BY <1>3, <1>4 DEF LinesTypeOK, TypeOK, inVars
<1>6. line \in Seq(Byte) /\ Keeps(fd, taken) \in Seq(Byte)
  BY <1>2, ConcatProperties DEF LinesTypeOK, Keeps
<1>7. \/ part' = part
      \/ part' = [part EXCEPT ![fd] = Keeps(fd, taken)]
      \/ part' = [part EXCEPT ![fd] = <<>>]
  BY <1>3 DEF ReadLine, Cleared
<1>8. lines' = lines \/ lines' = [lines EXCEPT ![fd] = Append(@, line)]
  BY <1>2, <1>3 DEF ReadLine
<1>9. \/ reading' = reading
      \/ reading' = [reading EXCEPT ![fd] = "eof"]
      \/ reading' = [reading EXCEPT ![fd] = "failed"]
  BY DEF ReadLine
<1>10. part' \in [Outputs -> Seq(Byte)]
  BY <1>6, <1>7, EmptySeq DEF LinesTypeOK
<1>11. lines' \in [Outputs -> Seq(Seq(Byte))]
  <2>1. Append(lines[fd], line) \in Seq(Seq(Byte))
    BY <1>6, AppendProperties DEF LinesTypeOK
  <2> QED
    BY <1>8, <2>1 DEF LinesTypeOK
<1>12. reading' \in [Outputs -> {"yes", "eof", "failed"}]
  BY <1>9 DEF LinesTypeOK
<1>13. torn' \in BOOLEAN
  BY DEF LinesTypeOK, Valid
<1> QED
  BY <1>5, <1>10, <1>11, <1>12, <1>13 DEF LinesTypeOK

\* What was read is the lines, the part kept before and what was taken now.
LEMMA TakenInOrder ==
    ASSUME LinesTypeOK, NEW fd \in Outputs, InOrder(fd),
           NEW taken \in Seq(Byte), NEW rest \in Seq(Byte), TakesLine(fd, taken, rest)
    PROVE  /\ seen'[fd] = FlattenSeq(lines[fd]) \o (part[fd] \o taken)
           /\ FlattenSeq(lines[fd]) \in Seq(Byte) /\ part[fd] \o taken \in Seq(Byte)
           /\ FlattenSeq(Append(lines[fd], part[fd] \o taken)) \o <<>> = seen'[fd]
<1>1. /\ part[fd] \in Seq(Byte) /\ lines[fd] \in Seq(Seq(Byte))
      /\ seen'[fd] = seen[fd] \o taken
  BY DEF LinesTypeOK, TakesLine
<1>2. PICK all, p : all = FlattenSeq(lines[fd]) /\ p = part[fd]
  OBVIOUS
<1>3. PICK line : line = p \o taken
  OBVIOUS
<1>4. all \in Seq(Byte) /\ p \in Seq(Byte) /\ line \in Seq(Byte)
  BY <1>1, <1>2, <1>3, FlattenType, ConcatProperties
<1>5. (all \o p) \o taken = all \o line
  BY <1>3, <1>4, ConcatAssociative
<1>6. seen'[fd] = all \o line
  BY <1>1, <1>2, <1>5 DEF InOrder
<1>7. FlattenSeq(Append(lines[fd], line)) = all \o line
  BY <1>1, <1>2, <1>4, FlattenAppend
<1>8. (all \o line) \o <<>> = all \o line
  <2>1. all \o line \in Seq(Byte)
    BY <1>4, ConcatProperties
  <2> QED
    BY <2>1, ConcatEmptySeq
<1> QED
  BY <1>2, <1>3, <1>4, <1>6, <1>7, <1>8

\* A line that does not fail keeps them in order.
LEMMA ReadLineInOrder ==
    ASSUME LinesTypeOK, NEW fd \in Outputs, InOrder(fd),
           NEW taken \in Seq(Byte), NEW rest \in Seq(Byte), TakesLine(fd, taken, rest),
           LineRead(fd, taken, ReadNow(fd, taken), part[fd] \o taken),
           Keeps(fd, taken) = part[fd] \o taken, reading'[fd] # "failed"
    PROVE  InOrder(fd)'
<1>1. /\ seen'[fd] = FlattenSeq(lines[fd]) \o (part[fd] \o taken)
      /\ FlattenSeq(Append(lines[fd], part[fd] \o taken)) \o <<>> = seen'[fd]
  BY TakenInOrder
<1>2. part[fd] \in Seq(Byte)
  BY DEF LinesTypeOK
<1>3. ReadNow(fd, taken) = <<>> => part[fd] \o taken = part[fd]
  <2>1. /\ part[fd] \o <<>> = part[fd]
        /\ part[fd] \o taken = <<>> => taken = <<>>
    BY <1>2, ConcatEmptySeq, ConcatEqualIffEmpty
  <2> QED
    BY <2>1 DEF ReadNow
<1>4. \/ part'[fd] = part[fd] \o taken /\ lines'[fd] = lines[fd]
      \/ /\ ReadNow(fd, taken) = <<>>
         /\ part'[fd] = part[fd] /\ lines'[fd] = lines[fd]
      \/ lines'[fd] = Append(lines[fd], part[fd] \o taken) /\ part'[fd] = <<>>
  BY DEF LineRead
<1> QED
  BY <1>1, <1>3, <1>4 DEF InOrder

\* stdout: as long as no call has cut a character, what is taken is text, so that
\* next_line neither fails nor forgets it.
LEMMA ReadLineKeepsStdout ==
    ASSUME LineInv, ReadLine(1), torn' = (torn \/ ~Valid(wrote'[1]))
    PROVE  StdoutInv'
<1> USE DEF LineInv, OutInv
<1>1. PICK taken \in Seq(Byte), rest \in Seq(Byte) : TakesLine(1, taken, rest)
  BY ReadLineTakes, OutputsAreTwo
<1>2. LineRead(1, taken, ReadNow(1, taken), part[1] \o taken)
  BY <1>1, ReadLineReads, OutputsAreTwo DEF TakesLine
<1>3. part[1] \in Seq(Byte) /\ seen[1] \in Seq(Byte) /\ Valid(part[1])
  BY OutputsAreTwo DEF LinesTypeOK, TypeOK, StdoutInv
<1>4. Valid(part'[1])
  <2>1. Valid(taken) => Valid(part[1] \o taken)
    BY <1>3, ValidConcat
  <2>2. Valid(Keeps(1, taken))
    BY <1>3, <2>1 DEF Keeps
  <2>3. part'[1] = Keeps(1, taken) \/ part'[1] = part[1] \/ part'[1] = <<>>
    BY <1>2 DEF LineRead
  <2> QED
    BY <1>3, <2>2, <2>3, NothingIsValid
<1>5. ASSUME ~torn'
      PROVE  /\ Valid(wrote'[1]) /\ Valid(seen'[1])
             /\ reading'[1] # "failed"
             /\ InOrder(1)'
  <2>1. /\ Valid(wrote[1]) /\ Valid(seen[1]) /\ InOrder(1) /\ wrote' = wrote
    BY <1>1, <1>5 DEF StdoutInv, TakesLine
  <2>2. wrote[1] = seen[1] \o (taken \o rest) /\ taken \o rest \in Seq(Byte)
    <3>1. taken \o rest \in Seq(Byte)
      BY ConcatProperties
    <3> QED
      BY <1>1, <3>1, OutputsAreTwo DEF OutputInv, Delivered, TakesLine
  <2>3. Valid(taken \o rest)
    BY <1>3, <2>1, <2>2, ValidSuffix
  <2>4. Valid(taken)
    <3>1. CASE Ended(taken)
      <4>1. taken[Len(taken)] # Lead
        BY <3>1, ThreeDistinctBytes DEF Ended
      <4> QED
        BY <2>3, <4>1, ValidPrefix
    <3>2. CASE ~Ended(taken)
      <4>1. rest = <<>>
        BY <1>1, <3>2 DEF TakesLine
      <4>2. taken \o <<>> = taken
        BY ConcatEmptySeq
      <4> QED
        BY <2>3, <4>1, <4>2
    <3> QED
      BY <3>1, <3>2
  <2>5. reading'[1] # "failed" /\ Keeps(1, taken) = part[1] \o taken
    BY <1>2, <2>4 DEF LineRead, ReadNow, Keeps
  <2>6. Valid(seen'[1])
    <3>1. Valid(seen[1] \o taken)
      BY <1>3, <2>1, <2>4, ValidConcat
    <3> QED
      BY <1>1, <3>1 DEF TakesLine
  <2>7. InOrder(1)'
    BY <1>1, <1>2, <2>1, <2>5, ReadLineInOrder, OutputsAreTwo
  <2> QED
    BY <2>1, <2>5, <2>6, <2>7
<1> QED
  BY <1>4, <1>5 DEF StdoutInv

\* stderr: nothing that was taken is forgotten before the logger fails.
LEMMA ReadLineKeepsLog ==
    ASSUME LineInv, ReadLine(2)
    PROVE  LogInv'
<1> USE DEF LineInv, OutInv
<1>1. PICK taken \in Seq(Byte), rest \in Seq(Byte) : TakesLine(2, taken, rest)
  BY ReadLineTakes, OutputsAreTwo
<1>2. PICK now, line : now = ReadNow(2, taken) /\ line = part[2] \o taken
  OBVIOUS
<1>3. reading[2] = "yes" /\ LineRead(2, taken, now, line) /\ now = line
  BY <1>1, <1>2, ReadLineReads, OutputsAreTwo DEF TakesLine, ReadNow
<1>4. /\ part[2] \in Seq(Byte) /\ seen[2] \in Seq(Byte) /\ lines[2] \in Seq(Seq(Byte))
      /\ line \in Seq(Byte)
  BY <1>2, OutputsAreTwo, ConcatProperties DEF LinesTypeOK, TypeOK
<1>5. PICK all : all = FlattenSeq(lines[2])
  OBVIOUS
<1>6. all \in Seq(Byte) /\ Valid(all) /\ InOrder(2) /\ seen'[2] = all \o line
  <2>1. InOrder(2)
    BY <1>3 DEF LogInv
  <2> QED
    BY <1>1, <1>2, <1>5, <2>1, TakenInOrder, OutputsAreTwo DEF LogInv
<1>7. Valid(FlattenSeq(lines'[2]))
  <2>1. \/ lines'[2] = lines[2]
        \/ lines'[2] = Append(lines[2], line) /\ Valid(line)
    BY <1>3 DEF LineRead
  <2>2. FlattenSeq(Append(lines[2], line)) = all \o line
    BY <1>4, <1>5, FlattenAppend
  <2>3. Valid(line) => Valid(all \o line)
    BY <1>4, <1>6, ValidConcat
  <2> QED
    BY <1>5, <1>6, <2>1, <2>2, <2>3
<1>8. reading'[2] # "failed" => InOrder(2)'
  <2>1. Keeps(2, taken) = part[2] \o taken
    BY DEF Keeps
  <2> QED
    BY <1>1, <1>2, <1>3, <1>6, <2>1, ReadLineInOrder, OutputsAreTwo
<1>9. reading'[2] = "eof" => part'[2] = <<>>
  <2>1. part[2] \o taken = <<>> => part[2] = <<>>
    BY <1>4, ConcatEqualIffEmpty
  <2> QED
    BY <1>2, <1>3, <2>1 DEF LineRead
<1>10. ASSUME reading'[2] = "failed"
       PROVE  /\ ~Valid(seen'[2])
              /\ Finished(2)' \/ Ended(seen'[2])
  <2>1. Complete(out[2]) /\ ~Valid(line)
    BY <1>3, <1>10 DEF LineRead
  <2>2. ~Valid(seen'[2])
    BY <1>4, <1>6, <2>1, ValidSuffix
  <2>3. Finished(2)' \/ Ended(seen'[2])
    <3>1. CASE Ended(taken)
      <4>1. Ended(seen[2] \o taken)
        BY <1>4, <3>1, EndedConcat
      <4> QED
        BY <1>1, <4>1 DEF TakesLine
    <3>2. CASE ~Ended(taken)
      <4>1. out[2].closed /\ rest = <<>>
        BY <1>1, <2>1, <3>2 DEF TakesLine
      <4> QED
        BY <1>1, <4>1, OutputsAreTwo DEF TakesLine, Finished, OutputInv, Delivered
    <3> QED
      BY <3>1, <3>2
  <2> QED
    BY <2>2, <2>3
<1> QED
  BY <1>7, <1>8, <1>9, <1>10 DEF LogInv

\* Every step keeps the invariant.
LEMMA StepLineInv ==
    LineInv /\ [LinesNext]_<<vars, lineVars, torn>> => LineInv'
<1> SUFFICES ASSUME LineInv, [LinesNext]_<<vars, lineVars, torn>>
             PROVE  LineInv'
  OBVIOUS
<1>1. LinesTypeOK /\ TypeOK /\ OutputInv
  BY DEF LineInv, OutInv, LinesTypeOK
<1>2. CASE UNCHANGED <<vars, lineVars, torn>>
  <2>1. UNCHANGED <<stdin, lookahead, sent, got, gotEof, out, wrote, seen, seenEof,
                    opened, reading, part, lines, torn>>
    BY <1>2 DEF vars, inVars, outVars, lineVars
  <2>2. LinesTypeOK' /\ OutputInv'
    BY <1>1, <2>1 DEF LinesTypeOK, TypeOK, OutputInv, Delivered, Finished
  <2>3. LinesInv(1)' /\ LinesInv(2)'
    BY <2>1 DEF LineInv, LinesInv, IsLine, Finished
  <2>4. StdoutInv' /\ LogInv'
    BY <2>1 DEF LineInv, StdoutInv, LogInv, InOrder, Finished
  <2> QED
    BY <2>2, <2>3, <2>4 DEF LineInv, OutInv
<1>3. ASSUME CallOrWrite, UNCHANGED lineVars, torn' = (torn \/ ~Valid(wrote'[1]))
      PROVE  LineInv'
  <2>1. TypeOK'
    BY <1>1, <1>3, CallsKeepTypes
  <2>2. LinesTypeOK'
    BY <1>1, <1>3, <2>1 DEF LinesTypeOK, lineVars, Valid
  <2>3. OutputInv'
    BY <1>1, <1>3, CallsKeepOutputs
  <2> QED
    BY <1>3, <2>2, <2>3, CallsKeepLines DEF LineInv, OutInv
<1>4. ASSUME NEW fd \in Outputs, ReadLine(fd), torn' = (torn \/ ~Valid(wrote'[1]))
      PROVE  LineInv'
  <2>1. LinesTypeOK' /\ OutputInv'
    BY <1>1, <1>4, ReadLineKeepsTypes, ReadLineKeepsOutputs
  <2>2. LinesInv(1)' /\ LinesInv(2)'
    BY <1>4, ReadLineKeepsLines, ReadLineKeepsOtherLines DEF Outputs
  <2>3. /\ UNCHANGED wrote
        /\ \A f \in Outputs : f # fd => /\ seen'[f] = seen[f]
                                        /\ lines'[f] = lines[f]
                                        /\ part'[f] = part[f]
                                        /\ reading'[f] = reading[f]
                                        /\ Finished(f) => Finished(f)'
    <3>1. PICK taken \in Seq(Byte), rest \in Seq(Byte) : TakesLine(fd, taken, rest)
      BY <1>1, <1>4, ReadLineTakes
    <3>2. \A f \in Outputs : f # fd => /\ lines'[f] = lines[f]
                                       /\ part'[f] = part[f]
                                       /\ reading'[f] = reading[f]
      BY <1>1, <1>4, ReadLineReads
    <3>3. \A f \in Outputs : Finished(f) => Finished(f)'
      BY <1>1, <1>4, ReadLineKeepsOutputs
    <3> QED
      BY <3>1, <3>2, <3>3 DEF TakesLine
  <2>4. StdoutInv'
    <3>1. CASE fd = 1
      BY <1>4, <3>1, ReadLineKeepsStdout
    <3>2. CASE fd # 1
      BY <1>4, <2>3, <3>2, OutputsAreTwo DEF LineInv, StdoutInv, InOrder
    <3> QED
      BY <3>1, <3>2
  <2>5. LogInv'
    <3>1. CASE fd = 2
      BY <1>4, <3>1, ReadLineKeepsLog
    <3>2. CASE fd # 2
      BY <2>3, <3>2, OutputsAreTwo DEF LineInv, LogInv, InOrder
    <3> QED
      BY <3>1, <3>2
  <2> QED
    BY <2>1, <2>2, <2>4, <2>5 DEF LineInv, OutInv
<1> QED
  BY <1>2, <1>3, <1>4 DEF LinesNext

\* The properties' words for where newlines are, in those of the invariant.
LEMMA TextOfLine ==
    ASSUME NEW s \in Seq(Byte)
    PROVE  /\ Plain(s) => Newline \notin ToSet(s)
           /\ s # <<>> /\ PlainFront(s) => Newline \notin ToSet(Front(s))
           /\ s # <<>> /\ Last(s) # Newline => ~Ended(s)
<1>1. PICK n : n = Len(s) /\ n \in Nat
  BY LenProperties
<1>2. Plain(s) => Newline \notin ToSet(s)
  BY <1>1 DEF Plain, ToSet
<1>3. ASSUME s # <<>>, PlainFront(s)
      PROVE  Newline \notin ToSet(Front(s))
  <2>1. n # 0 /\ \A i \in 1 .. n - 1 : s[i] # Newline
    BY <1>1, <1>3, EmptySeq DEF PlainFront
  <2>2. Front(s) = [i \in 1 .. n - 1 |-> s[i]]
    <3>1. SubSeq(s, 1, n - 1) = [i \in 1 .. n - 1 |-> s[i]]
      BY <1>1, <2>1, SubSeqProperties
    <3> QED
      BY <1>1, <3>1 DEF Front
  <2>3. Len(Front(s)) = n - 1
    BY <1>1, <2>1, <2>2
  <2> QED
    BY <2>1, <2>2, <2>3 DEF ToSet
<1>4. s # <<>> /\ Last(s) # Newline => ~Ended(s)
  BY DEF Last, Ended
<1> QED
  BY <1>2, <1>3, <1>4

\* The invariant of the lines gives AreLines.
LEMMA LinesAreLines ==
    ASSUME LinesTypeOK, NEW fd \in Outputs, LinesInv(fd)
    PROVE  AreLines(fd)
<1> SUFFICES ASSUME NEW i \in DOMAIN lines[fd]
             PROVE  LET line == lines[fd][i] IN
                    /\ line # <<>> /\ Valid(line)
                    /\ Newline \notin ToSet(Front(line))
                    /\ Last(line) # Newline => i = Len(lines[fd]) /\ fd \notin opened
  BY DEF AreLines
<1>1. PICK line : line = lines[fd][i]
  OBVIOUS
<1>2. lines[fd] \in Seq(Seq(Byte)) /\ i \in 1 .. Len(lines[fd])
  BY LenProperties DEF LinesTypeOK
<1>3. line \in Seq(Byte)
  BY <1>1, <1>2, ElementOfSeq
<1>4. /\ line # <<>> /\ Valid(line) /\ PlainFront(line)
      /\ \/ Ended(line)
         \/ i = Len(lines[fd]) /\ Finished(fd) /\ part[fd] = <<>>
  BY <1>1, <1>2 DEF LinesInv, IsLine
<1> QED
  BY <1>1, <1>3, <1>4, TextOfLine DEF Finished

\* The host has read all of an output that has nothing more.
LEMMA FinishedIsRead ==
    ASSUME TypeOK, OutputInv, NEW fd \in Outputs, Finished(fd)
    PROVE  seen[fd] = wrote[fd]
<1>1. wrote[fd] = seen[fd] \o <<>> /\ seen[fd] \in Seq(Byte)
  BY DEF OutputInv, Delivered, Finished, TypeOK
<1> QED
  BY <1>1, ConcatEmptySeq

\* StdoutLines follows.
LEMMA LineInvStdout == LineInv => StdoutLines
<1> SUFFICES ASSUME LineInv
             PROVE  StdoutLines
  OBVIOUS
<1> USE DEF LineInv, OutInv
<1>1. AreLines(1)
  BY LinesAreLines, OutputsAreTwo
<1>2. Newline \notin ToSet(part[1])
  BY TextOfLine, OutputsAreTwo DEF LinesTypeOK, LinesInv
<1>3. reading[1] = "eof" => seen[1] = wrote[1]
  BY FinishedIsRead, OutputsAreTwo DEF LinesInv, LinesTypeOK
<1> QED
  BY <1>1, <1>2, <1>3 DEF StdoutInv, InOrder, StdoutLines

\* LogLines follows: what is written after a line that is no text does not make
\* a text of it.
LEMMA LineInvLog == LineInv => LogLines
<1> SUFFICES ASSUME LineInv
             PROVE  LogLines
  OBVIOUS
<1> USE DEF LineInv, OutInv
<1>1. AreLines(2)
  BY LinesAreLines, OutputsAreTwo
<1>2. Finished(2) => seen[2] = wrote[2]
  BY FinishedIsRead, OutputsAreTwo DEF LinesTypeOK
<1>3. ASSUME reading[2] = "failed"
      PROVE  ~Valid(wrote[2])
  <2>1. ~Valid(seen[2]) /\ (Finished(2) \/ Ended(seen[2]))
    BY <1>3 DEF LogInv
  <2>2. CASE Finished(2)
    BY <1>2, <2>1, <2>2
  <2>3. CASE Ended(seen[2])
    <3>1. PICK s, t : s = seen[2] /\ t = out[2].buf
      OBVIOUS
    <3>2. s \in Seq(Byte) /\ t \in Seq(Byte) /\ wrote[2] = s \o t
      BY <3>1, OutputsAreTwo DEF LinesTypeOK, TypeOK, Inner, OutputInv, Delivered
    <3>3. s[Len(s)] # Lead
      BY <2>3, <3>1, ThreeDistinctBytes DEF Ended
    <3>4. Valid(s \o t) => Valid(s)
      BY <3>2, <3>3, ValidPrefix
    <3> QED
      BY <2>1, <3>1, <3>2, <3>4
  <2> QED
    BY <2>1, <2>2, <2>3
<1>4. ASSUME reading[2] = "eof"
      PROVE  FlattenSeq(lines[2]) = wrote[2]
  <2>1. FlattenSeq(lines[2]) \o <<>> = seen[2]
    BY <1>4 DEF LogInv, InOrder
  <2>2. FlattenSeq(lines[2]) \in Seq(Byte)
    BY FlattenType, OutputsAreTwo DEF LinesTypeOK
  <2>3. Finished(2)
    BY <1>4 DEF LinesInv
  <2> QED
    BY <1>2, <2>1, <2>2, <2>3, ConcatEmptySeq
<1> QED
  BY <1>1, <1>3, <1>4 DEF LogInv, InOrder, LogLines

\* AvailableMeansReadable needs no more than the types.
LEMMA TypesAvailable == TypeOK => AvailableMeansReadable
<1> SUFFICES ASSUME TypeOK, 0 \in opened
             PROVE  /\ Available <=> lookahead \o stdin.buf # <<>>
                    /\ \A n \in Lengths \ {0} : Available <=> Bytes(Reader, n) # <<>>
  BY DEF AvailableMeansReadable
<1>1. Reader \in Readers /\ Ahead(Reader) = lookahead \o stdin.buf
  BY ReaderType DEF Ahead, Reader
<1>2. Available <=> Ahead(Reader) # <<>>
  BY <1>1, FillKeepsBytes DEF Available
<1>3. ASSUME NEW n \in Lengths \ {0}
      PROVE  Bytes(Reader, n) = <<>> <=> Ahead(Reader) = <<>>
  <2>1. PICK bytes, rest : bytes = Bytes(Reader, n) /\ rest = Ahead(Rest(Reader, n))
    OBVIOUS
  <2>2. n \in Nat /\ n # 0
    BY StreamsAssumption
  <2>3. /\ bytes \in Seq(Byte) /\ rest \in Seq(Byte)
        /\ Ahead(Reader) = bytes \o rest
        /\ bytes = <<>> => Ahead(Reader) = <<>>
    BY <1>1, <2>1, <2>2, ReadKeepsAhead, AheadType
  <2>4. bytes \o rest = <<>> => bytes = <<>>
    BY <2>3, ConcatEqualIffEmpty
  <2> QED
    BY <2>1, <2>3, <2>4
<1> QED
  BY <1>1, <1>2, <1>3

(***************************************************************************)
(* The input of a guest that reads into one buffer at a time.              *)
(***************************************************************************)
\* What a read tells the guest of, and leaves.
Gives(data, ahead) ==
    /\ Ahead(Reader) = data \o ahead
    /\ ahead = lookahead' \o stdin'.buf
    /\ stdin'.closed = stdin.closed
    /\ got' = got \o data
    /\ \/ gotEof' = gotEof
       \/ gotEof' = TRUE /\ data = <<>> /\ ahead = <<>> /\ stdin.closed

\* A read into one buffer that would block has gathered nothing, so that nothing
\* is lost with it; it ends the input only when that is closed and read.
LEMMA OneBuffer ==
    ASSUME TypeOK, MaxReads =< 1,
           NEW lengths \in UpTo(MaxReads, Lengths), FdRead(lengths)
    PROVE  \E data \in Seq(Byte), ahead \in Seq(Byte) : Gives(data, ahead)
<1>1. PICK s \in LoopStates :
             /\ s = FoldLeft(ReadBuffer, Before, lengths)
             /\ s.reader.pipe.closed = stdin.closed
             /\ Ahead(Reader) = s.data \o Ahead(s.reader)
             /\ stdin' = s.reader.pipe /\ lookahead' = s.reader.look
             /\ \/ /\ s.status = "again"
                   /\ UNCHANGED <<got, gotEof>>
                \/ /\ s.status # "again"
                   /\ got' = got \o s.data
                   /\ gotEof' = \/ gotEof
                                \/ /\ s.data = <<>>
                                   /\ \E i \in DOMAIN lengths : lengths[i] > 0
  BY ReadEffect
<1>2. /\ lengths \in Seq(Nat) /\ Len(lengths) = 1
      /\ \A i \in DOMAIN lengths : lengths[i] \in Nat
  <2>1. /\ lengths \in Seq(Nat) /\ Len(lengths) \in 1 .. MaxReads
        /\ \A i \in DOMAIN lengths : lengths[i] \in Nat
    BY LengthsOfReads
  <2>2. MaxReads = 0 \/ MaxReads = 1
    BY StreamsAssumption
  <2>3. \A k \in 1 .. MaxReads : k = 1
    BY <2>2
  <2>4. Len(lengths) = 1
    BY <2>1, <2>3
  <2> QED
    BY <2>1, <2>4
<1>3. PICK n \in Nat : n = lengths[1] /\ \A i \in DOMAIN lengths : lengths[i] = n
  <2>1. DOMAIN lengths = {1}
    BY <1>2, LenProperties
  <2> QED
    BY <1>2, <2>1
<1>4. s = ReadBuffer(Before, n)
  BY <1>1, <1>2, <1>3, LoopOfOne
<1>5. PICK r, bytes : r = Reader /\ bytes = Bytes(Reader, n)
  OBVIOUS
<1>6. r \in Readers /\ bytes \in Seq(Byte) /\ r.pipe = stdin
  BY <1>5, ReaderType, ReadKeepsAhead DEF Reader
<1>7. /\ WouldBlock(r) => s.status = "again" /\ s.data = <<>>
      /\ ~WouldBlock(r) => s.status # "again" /\ s.data = bytes
  <2>1. <<>> \o bytes = bytes
    BY <1>6, ConcatEmptySeq
  <2> QED
    BY <1>4, <1>5, <2>1 DEF ReadBuffer, Before
<1>8. PICK data, ahead : data = s.data /\ ahead = Ahead(s.reader)
  OBVIOUS
<1>9. /\ data \in Seq(Byte) /\ ahead \in Seq(Byte) /\ got \in Seq(Byte)
      /\ ahead = lookahead' \o stdin'.buf
      /\ gotEof \in BOOLEAN
  BY <1>1, <1>8, AheadType, SMTT(30) DEF LoopStates, Ahead, TypeOK
<1>10. got' = got \o data
  BY <1>1, <1>7, <1>8, <1>9, ConcatEmptySeq
<1>11. ASSUME gotEof' # gotEof
       PROVE  gotEof' = TRUE /\ data = <<>> /\ ahead = <<>> /\ stdin.closed
  <2>1. /\ s.status # "again" /\ gotEof' = TRUE
        /\ data = <<>> /\ n > 0
    BY <1>1, <1>3, <1>8, <1>9, <1>11
  <2>2. ~WouldBlock(r) /\ bytes = <<>>
    BY <1>7, <1>8, <2>1
  <2>3. Ahead(r) = <<>>
    <3>1. n # 0 /\ Bytes(r, n) = <<>>
      BY <1>5, <2>1, <2>2
    <3>2. n # 0 /\ Bytes(r, n) = <<>> => Ahead(r) = <<>>
      BY <1>6, ReadKeepsAhead
    <3> QED
      BY <3>1, <3>2
  <2>4. stdin.closed
    BY <1>6, <2>2, <2>3, BlocksWhenEmpty
  <2>5. data \o ahead = <<>> => ahead = <<>>
    BY <1>9, ConcatEqualIffEmpty, SMTT(30)
  <2> QED
    BY <1>1, <1>5, <1>8, <2>1, <2>3, <2>4, <2>5
<1>12. Gives(data, ahead)
  BY <1>1, <1>8, <1>9, <1>10, <1>11 DEF Gives
<1> QED
  BY <1>9, <1>12

\* What is ahead, as InputIntact puts it.
LEMMA InputInvIntact == TypeOK /\ InputInv => InputIntact
<1> SUFFICES ASSUME TypeOK, InputInv, 0 \in opened
             PROVE  sent = got \o lookahead \o stdin.buf
  BY DEF InputIntact
<1>1. PICK a, b, c : a = got /\ b = lookahead /\ c = stdin.buf
  OBVIOUS
<1>2. a \in Seq(Byte) /\ b \in Seq(Byte) /\ c \in Seq(Byte)
  BY <1>1 DEF TypeOK, Inner
<1>3. a \o (b \o c) = (a \o b) \o c
  BY <1>2, ConcatAssociative, SMTT(30)
<1> QED
  BY <1>1, <1>3 DEF InputInv, Ahead, Reader

\* Such a read keeps the invariant of the input.
LEMMA GivesKeepsInput ==
    ASSUME TypeOK, InputInv, 0 \in opened, UNCHANGED <<sent, opened>>,
           NEW data \in Seq(Byte), NEW ahead \in Seq(Byte), Gives(data, ahead)
    PROVE  /\ InputInv'
           /\ sent = (got \o data) \o ahead /\ got \in Seq(Byte)
<1>1. /\ Ahead(Reader) = data \o ahead
      /\ stdin'.closed = stdin.closed
      /\ got' = got \o data
      /\ \/ gotEof' = gotEof
         \/ gotEof' = TRUE /\ data = <<>> /\ ahead = <<>> /\ stdin.closed
  BY DEF Gives
<1>2. Ahead(Reader)' = ahead
  BY DEF Gives, Ahead, Reader
<1>3. PICK g : g = got /\ g \in Seq(Byte)
  BY DEF TypeOK
<1>4. g \o (data \o ahead) = (g \o data) \o ahead
  BY <1>3, ConcatAssociative
<1>5. sent = (got \o data) \o ahead
  BY <1>1, <1>3, <1>4 DEF InputInv
<1>6. data \o ahead = <<>> => ahead = <<>>
  BY ConcatEqualIffEmpty
<1>7. gotEof' => ahead = <<>> /\ stdin'.closed
  BY <1>1, <1>6 DEF InputInv
<1> QED
  BY <1>1, <1>2, <1>3, <1>5, <1>7 DEF InputInv

\* What the host writes comes last of what is ahead.
LEMMA HostWritesInput ==
    ASSUME TypeOK, NEW items \in Chunks, HostWrites(items)
    PROVE  /\ ~stdin.closed /\ stdin'.closed = stdin.closed
           /\ items \in Seq(Byte) /\ sent \in Seq(Byte) /\ sent' = sent \o items
           /\ Ahead(Reader)' = Ahead(Reader) \o items
           /\ UNCHANGED <<lookahead, got, gotEof, opened>>
<1>1. /\ items \in Seq(Byte) /\ sent \in Seq(Byte)
      /\ stdin \in Inner(Byte) /\ stdin.buf \in Seq(Byte) /\ lookahead \in Seq(Byte)
  BY StreamsAssumption DEF TypeOK, Inner
<1>2. /\ ~stdin.closed /\ stdin' = WritePipe(stdin, items).pipe /\ sent' = sent \o items
      /\ UNCHANGED <<lookahead, got, gotEof, opened>>
  BY DEF HostWrites
<1>3. stdin'.buf = stdin.buf \o items /\ stdin'.closed = stdin.closed
  BY <1>1, <1>2 DEF WritePipe, Inner
<1>4. lookahead \o (stdin.buf \o items) = (lookahead \o stdin.buf) \o items
  <2>1. PICK a, b : a = lookahead /\ b = stdin.buf
    OBVIOUS
  <2>2. a \in Seq(Byte) /\ b \in Seq(Byte) /\ items \in Seq(Byte)
    BY <1>1, <2>1
  <2>3. (a \o b) \o items = a \o (b \o items)
    BY <2>2, ConcatAssociative
  <2> QED
    BY <2>1, <2>3
<1> QED
  BY <1>1, <1>2, <1>3, <1>4 DEF Ahead, Reader

\* stdin_available moves bytes, no more.
LEMMA FillKeepsInput ==
    ASSUME TypeOK, StdinAvailable
    PROVE  /\ stdin'.closed = stdin.closed
           /\ Ahead(Reader)' = Ahead(Reader)
           /\ UNCHANGED <<sent, got, gotEof, opened>>
<1>1. /\ Fill(Reader).pipe.closed = Reader.pipe.closed
      /\ Ahead(Fill(Reader)) = Ahead(Reader)
  BY ReaderType, FillKeepsBytes
<1>2. /\ stdin' = Fill(Reader).pipe /\ lookahead' = Fill(Reader).look
      /\ UNCHANGED <<sent, got, gotEof, opened>>
  BY DEF StdinAvailable
<1>3. Ahead(Reader)' = Ahead(Fill(Reader))
  BY <1>2 DEF Ahead, Reader
<1>4. Reader.pipe = stdin
  BY DEF Reader
<1> QED
  BY <1>1, <1>2, <1>3, <1>4

\* The other steps leave the input as it is, but for the descriptor.
LEMMA OthersKeepInput ==
    ASSUME LinesTypeOK,
           \/ \E fd \in Outputs, bufs \in UpTo(MaxWrites, Chunks) : FdWrite(fd, bufs)
           \/ \E fd \in {0} \cup Outputs : FdClose(fd)
           \/ \E fd \in Outputs : ReadLine(fd)
           \/ UNCHANGED vars
    PROVE  UNCHANGED inVars /\ opened' \subseteq opened
<1>1. ASSUME NEW fd \in Outputs, NEW bufs \in UpTo(MaxWrites, Chunks), FdWrite(fd, bufs)
      PROVE  UNCHANGED inVars /\ opened' \subseteq opened
  BY <1>1 DEF FdWrite
<1>2. ASSUME NEW fd \in {0} \cup Outputs, FdClose(fd)
      PROVE  UNCHANGED inVars /\ opened' \subseteq opened
  BY <1>2 DEF FdClose
<1>3. ASSUME NEW fd \in Outputs, ReadLine(fd)
      PROVE  UNCHANGED inVars /\ opened' \subseteq opened
  BY <1>3 DEF ReadLine, HostReads
<1> QED
  BY <1>1, <1>2, <1>3 DEF vars

\* Closing stdin leaves what is ahead.
LEMMA DropKeepsInput ==
    ASSUME TypeOK, HostDropsStdin
    PROVE  /\ ~stdin.closed /\ stdin'.closed
           /\ Ahead(Reader)' = Ahead(Reader)
           /\ UNCHANGED <<sent, got, gotEof, opened>>
<1>1. stdin \in Inner(Byte)
  BY DEF TypeOK
<1>2. /\ DropPipe(stdin).pipe.closed = TRUE
      /\ DropPipe(stdin).pipe.buf = stdin.buf
  BY <1>1 DEF DropPipe, Inner
<1> QED
  BY <1>2 DEF HostDropsStdin, Ahead, Reader

\* Every step of a guest that reads into one buffer keeps the invariant of the
\* input and is a step of its channel, or none.
LEMMA StepInputInv ==
    ASSUME MaxReads =< 1, LinesTypeOK, InputInv,
           [LinesNext]_<<vars, lineVars, torn>>
    PROVE  InputInv' /\ [Input!Next]_(Input!vars)
<1>1. TypeOK
  BY DEF LinesTypeOK
<1>2. ASSUME NEW lengths \in UpTo(MaxReads, Lengths), FdRead(lengths)
      PROVE  InputInv' /\ [Input!Next]_(Input!vars)
  <2>1. PICK data \in Seq(Byte), ahead \in Seq(Byte) : Gives(data, ahead)
    BY <1>1, <1>2, OneBuffer
  <2>2. 0 \in opened /\ UNCHANGED <<sent, opened>>
    BY <1>2 DEF FdRead
  <2>3. InputInv' /\ sent = (got \o data) \o ahead /\ got \in Seq(Byte)
    BY <1>1, <2>1, <2>2, GivesKeepsInput
  <2>4. /\ got' = got \o data /\ stdin'.closed = stdin.closed
        /\ \/ gotEof' = gotEof
           \/ gotEof' = TRUE /\ data = <<>> /\ ahead = <<>> /\ stdin.closed
    BY <2>1 DEF Gives
  <2>5. PICK g, n, m : g = got \o data /\ n = Len(got) /\ m = Len(g)
    OBVIOUS
  <2>6. /\ g \in Seq(Byte) /\ n \in Nat /\ m \in Nat
        /\ data # <<>> => n < m
        /\ SubSeq(g \o ahead, 1, m) = g /\ m =< Len(g \o ahead)
    <3>1. g \in Seq(Byte)
      BY <2>3, <2>5, ConcatProperties
    <3> QED
      BY <2>3, <2>5, <3>1, PrefixOfConcat, LenProperties
  <2>7. CASE data # <<>>
    <3>1. m \in 1 .. Len(sent) /\ n < m /\ got' = SubSeq(sent, 1, m)
      <4>1. sent = g \o ahead /\ Len(sent) \in Nat /\ got' = g
        BY <1>1, <2>3, <2>4, <2>5, LenProperties DEF TypeOK
      <4> QED
        BY <2>6, <2>7, <4>1
    <3>2. UNCHANGED <<sent, ~stdin.closed, gotEof>>
      BY <2>2, <2>4, <2>7
    <3>3. Input!Receive
      BY <2>5, <3>1, <3>2 DEF Input!Receive
    <3> QED
      BY <2>3, <3>3 DEF Input!Next
  <2>8. CASE data = <<>>
    <3>1. got' = got
      BY <2>3, <2>4, <2>8, ConcatEmptySeq
    <3>2. CASE gotEof' = gotEof
      BY <2>2, <2>3, <2>4, <3>1, <3>2 DEF Input!vars
    <3>3. CASE gotEof' # gotEof
      <4>1. sent = got
        BY <2>3, <2>4, <2>8, <3>3, ConcatEmptySeq
      <4>2. Input!End
        BY <2>2, <2>4, <3>1, <3>3, <4>1 DEF Input!End
      <4> QED
        BY <2>3, <4>2 DEF Input!Next
    <3> QED
      BY <3>2, <3>3
  <2> QED
    BY <2>7, <2>8
<1>3. CASE StdinAvailable
  BY <1>1, <1>3, FillKeepsInput DEF InputInv, Input!vars
<1>4. ASSUME NEW items \in Chunks, HostWrites(items)
      PROVE  InputInv' /\ [Input!Next]_(Input!vars)
  <2>1. /\ ~stdin.closed /\ stdin'.closed = stdin.closed
        /\ items \in Seq(Byte) /\ sent \in Seq(Byte) /\ sent' = sent \o items
        /\ Ahead(Reader)' = Ahead(Reader) \o items
        /\ UNCHANGED <<lookahead, got, gotEof, opened>>
    BY <1>1, <1>4, HostWritesInput
  <2>2. InputInv'
    <3>1. PICK g, a : g = got /\ a = Ahead(Reader)
      OBVIOUS
    <3>2. g \in Seq(Byte) /\ a \in Seq(Byte)
      BY <1>1, <3>1, ReaderType, AheadType DEF TypeOK
    <3>3. (g \o a) \o items = g \o (a \o items)
      BY <2>1, <3>2, ConcatAssociative, SMTT(30)
    <3> QED
      BY <2>1, <3>1, <3>3 DEF InputInv
  <2>3. Input!Send
    <3>1. /\ Len(sent) =< Len(sent \o items)
          /\ SubSeq(sent \o items, 1, Len(sent)) = sent
          /\ sent \o items \in Seq(Byte)
      BY <2>1, PrefixOfConcat, ConcatProperties
    <3> QED
      BY <2>1, <3>1 DEF Input!Send
  <2> QED
    BY <2>2, <2>3 DEF Input!Next
<1>5. CASE HostDropsStdin
  <2>1. InputInv'
    BY <1>1, <1>5, DropKeepsInput DEF InputInv
  <2>2. Input!Close
    BY <1>1, <1>5, DropKeepsInput DEF Input!Close
  <2> QED
    BY <2>1, <2>2 DEF Input!Next
<1>6. CASE UNCHANGED inVars /\ opened' \subseteq opened
  <2>1. UNCHANGED <<stdin, lookahead, sent, got, gotEof>>
    BY <1>6 DEF inVars
  <2>2. Ahead(Reader)' = Ahead(Reader)
    BY <2>1 DEF Ahead, Reader
  <2> QED
    BY <1>6, <2>1, <2>2 DEF InputInv, Input!vars
<1>7. \/ \E lengths \in UpTo(MaxReads, Lengths) : FdRead(lengths)
      \/ StdinAvailable
      \/ \E items \in Chunks : HostWrites(items)
      \/ HostDropsStdin
      \/ UNCHANGED inVars /\ opened' \subseteq opened
  BY OthersKeepInput DEF LinesNext, CallOrWrite
<1> QED
  BY <1>2, <1>3, <1>4, <1>5, <1>6, <1>7

\* The channel of the input at the start.
LEMMA InitInput == LinesInit => Input!Init
BY NewPipeIsEmpty DEF LinesInit, Init, Input!Init

(***************************************************************************)
(* The input of any guest.                                                 *)
(***************************************************************************)
\* t is s with some of its items left out; f says where its items are.
Selects(f, t, s) ==
    /\ f \in [1 .. Len(t) -> 1 .. Len(s)]
    /\ \A i, j \in 1 .. Len(t) : i < j => f[i] < f[j]
    /\ \A i \in 1 .. Len(t) : t[i] = s[f[i]]

IsPartOf(t, s) == \E f : Selects(f, t, s)

\* Also the guest that reads into several buffers is told of no byte twice and
\* of none out of order.
InputInOrder == IsPartOf(got, sent)

\* Nothing is a part of everything.
LEMMA PartOfNothing == \A s : IsPartOf(<<>>, s)
<1> SUFFICES ASSUME NEW s
             PROVE  IsPartOf(<<>>, s)
  OBVIOUS
<1> DEFINE f == [i \in 1 .. 0 |-> 1]
<1>1. Len(<<>>) = 0 /\ \A i \in 1 .. 0 : FALSE
  BY EmptySeq
<1>2. Selects(f, <<>>, s)
  BY <1>1 DEF Selects
<1> HIDE DEF f
<1> QED
  BY <1>2 DEF IsPartOf

\* More may come that is left out.
LEMMA PartOfConcat ==
    ASSUME NEW S, NEW s \in Seq(S), NEW t \in Seq(S), NEW u \in Seq(S), IsPartOf(t, s)
    PROVE  IsPartOf(t, s \o u)
<1>1. PICK f : Selects(f, t, s)
  BY DEF IsPartOf
<1>2. PICK k, m, n, su : k = Len(t) /\ m = Len(s) /\ n = Len(u) /\ su = s \o u
  OBVIOUS
<1>3. /\ k \in Nat /\ m \in Nat /\ n \in Nat /\ Len(su) = m + n
      /\ \A i \in 1 .. m : su[i] = s[i]
  BY <1>2, ConcatProperties, LenProperties
<1>4. /\ f \in [1 .. k -> 1 .. m]
      /\ \A i, j \in 1 .. k : i < j => f[i] < f[j]
      /\ \A i \in 1 .. k : t[i] = s[f[i]]
  BY <1>1, <1>2 DEF Selects
<1>5. f \in [1 .. k -> 1 .. m + n]
  BY <1>3, <1>4
<1>6. \A i \in 1 .. k : t[i] = su[f[i]]
  BY <1>3, <1>4
<1>7. Selects(f, t, su)
  BY <1>2, <1>3, <1>4, <1>5, <1>6 DEF Selects
<1> QED
  BY <1>2, <1>7 DEF IsPartOf

\* Or that is not.
LEMMA PartAppended ==
    ASSUME NEW S, NEW s \in Seq(S), NEW t \in Seq(S), NEW u \in Seq(S), IsPartOf(t, s)
    PROVE  IsPartOf(t \o u, s \o u)
<1>1. PICK f : Selects(f, t, s)
  BY DEF IsPartOf
<1>2. PICK k, m, n, su, tu : /\ k = Len(t) /\ m = Len(s) /\ n = Len(u)
                             /\ su = s \o u /\ tu = t \o u
  OBVIOUS
<1>3. /\ k \in Nat /\ m \in Nat /\ n \in Nat
      /\ Len(su) = m + n /\ Len(tu) = k + n
  BY <1>2, ConcatProperties, LenProperties
<1>4. /\ \A i \in 1 .. m + n : su[i] = IF i =< m THEN s[i] ELSE u[i - m]
      /\ \A i \in 1 .. k + n : tu[i] = IF i =< k THEN t[i] ELSE u[i - k]
  BY <1>2, ConcatProperties
<1>5. /\ f \in [1 .. k -> 1 .. m]
      /\ \A i, j \in 1 .. k : i < j => f[i] < f[j]
      /\ \A i \in 1 .. k : t[i] = s[f[i]]
  BY <1>1, <1>2 DEF Selects
<1> DEFINE g == [i \in 1 .. k + n |-> IF i =< k THEN f[i] ELSE i - k + m]
<1>6. \A i \in 1 .. k : g[i] = f[i] /\ f[i] \in 1 .. m
  BY <1>3, <1>5
<1>7. \A i \in 1 .. k + n : ~(i =< k) => g[i] = i - k + m
  BY <1>3
<1>8. DOMAIN g = 1 .. k + n
  OBVIOUS
<1>9. g = [i \in 1 .. k + n |-> g[i]]
  OBVIOUS
<1> HIDE DEF g
<1>10. ASSUME NEW i \in 1 .. k + n
       PROVE  g[i] \in 1 .. m + n /\ tu[i] = su[g[i]]
  <2>1. CASE i =< k
    <3>1. i \in 1 .. k /\ g[i] = f[i] /\ f[i] \in 1 .. m
      BY <1>3, <1>6, <2>1
    <3>2. tu[i] = t[i] /\ t[i] = s[f[i]]
      BY <1>4, <1>5, <2>1, <3>1
    <3>3. f[i] \in 1 .. m + n /\ f[i] =< m
      BY <1>3, <3>1
    <3>4. su[f[i]] = s[f[i]]
      BY <1>4, <3>3
    <3> QED
      BY <3>1, <3>2, <3>3, <3>4
  <2>2. CASE ~(i =< k)
    <3>1. PICK j : j = i - k + m
      OBVIOUS
    <3>2. g[i] = j /\ j \in 1 .. m + n /\ ~(j =< m) /\ j - m = i - k
      BY <1>3, <1>7, <2>2, <3>1
    <3>3. tu[i] = u[i - k] /\ su[j] = u[j - m]
      BY <1>4, <2>2, <3>2
    <3> QED
      BY <3>2, <3>3
  <2> QED
    BY <2>1, <2>2
<1>11. ASSUME NEW i \in 1 .. k + n, NEW j \in 1 .. k + n, i < j
       PROVE  g[i] < g[j]
  <2>1. CASE j =< k
    <3>1. i \in 1 .. k /\ j \in 1 .. k
      BY <1>3, <1>11, <2>1
    <3> QED
      BY <1>5, <1>6, <1>11, <3>1
  <2>2. CASE ~(j =< k)
    <3>1. g[j] = j - k + m
      BY <1>7, <2>2
    <3>2. CASE i =< k
      <4>1. i \in 1 .. k
        BY <1>3, <3>2
      <4>2. g[i] \in 1 .. m
        BY <1>6, <4>1
      <4> QED
        BY <1>3, <2>2, <3>1, <4>2
    <3>3. CASE ~(i =< k)
      <4>1. g[i] = i - k + m
        BY <1>7, <3>3
      <4> QED
        BY <1>3, <1>11, <3>1, <4>1
    <3> QED
      BY <3>2, <3>3
  <2> QED
    BY <2>1, <2>2
<1>12. g \in [1 .. k + n -> 1 .. m + n]
  BY <1>9, <1>10
<1>13. Selects(g, tu, su)
  BY <1>3, <1>10, <1>11, <1>12 DEF Selects
<1> QED
  BY <1>2, <1>13 DEF IsPartOf

\* Of what has left the pipe and the BufReader the guest was told in order.
Passed(past, ahead) ==
    /\ sent = past \o ahead
    /\ 0 \in opened => ahead = Ahead(Reader)
    /\ IsPartOf(got, past)

PassedInv == \E past \in Seq(Byte), ahead \in Seq(Byte) : Passed(past, ahead)

\* Nothing has passed at the start.
LEMMA InitPassedInv == LinesInit => PassedInv
<1> SUFFICES ASSUME LinesInit
             PROVE  PassedInv
  OBVIOUS
<1>1. <<>> \in Seq(Byte) /\ <<>> \o <<>> = <<>>
  BY EmptySeq, ConcatEmptySeq
<1>2. Passed(<<>>, <<>>)
  BY <1>1, NewPipeIsEmpty, PartOfNothing
     DEF LinesInit, Init, Passed, Ahead, Reader
<1> QED
  BY <1>1, <1>2 DEF PassedInv

\* Every step keeps it: what fd_read takes passes, told of or not.
LEMMA StepPassedInv ==
    ASSUME LinesTypeOK, PassedInv, [LinesNext]_<<vars, lineVars, torn>>
    PROVE  PassedInv'
<1>1. TypeOK /\ got \in Seq(Byte)
  BY DEF LinesTypeOK, TypeOK
<1>2. PICK past \in Seq(Byte), ahead \in Seq(Byte) : Passed(past, ahead)
  BY DEF PassedInv
<1>3. ASSUME NEW lengths \in UpTo(MaxReads, Lengths), FdRead(lengths)
      PROVE  PassedInv'
  <2>1. PICK data \in Seq(Byte), rest \in Seq(Byte) :
               /\ Ahead(Reader) = data \o rest
               /\ rest = lookahead' \o stdin'.buf
               /\ got' = got \/ got' = got \o data
    <3>1. PICK s \in LoopStates :
                 /\ Ahead(Reader) = s.data \o Ahead(s.reader)
                 /\ stdin' = s.reader.pipe /\ lookahead' = s.reader.look
                 /\ got' = got \/ got' = got \o s.data
      BY <1>1, <1>3, ReadEffect
    <3>2. /\ s.data \in Seq(Byte) /\ Ahead(s.reader) \in Seq(Byte)
          /\ Ahead(s.reader) = lookahead' \o stdin'.buf
      BY <3>1, AheadType DEF LoopStates, Ahead
    <3> QED
      BY <3>1, <3>2
  <2>2. 0 \in opened /\ UNCHANGED <<sent, opened>>
    BY <1>3 DEF FdRead
  <2>3. sent = past \o (data \o rest) /\ IsPartOf(got, past)
    BY <1>2, <2>1, <2>2 DEF Passed
  <2>4. past \o (data \o rest) = (past \o data) \o rest
    BY ConcatAssociative, SMTT(30)
  <2>5. Ahead(Reader)' = rest
    BY <2>1 DEF Ahead, Reader
  <2>6. IsPartOf(got, past \o data) /\ IsPartOf(got \o data, past \o data)
    BY <1>1, <2>1, <2>3, PartOfConcat, PartAppended
  <2>7. past \o data \in Seq(Byte)
    BY ConcatProperties
  <2>8. Passed(past \o data, rest)'
    BY <2>1, <2>2, <2>3, <2>4, <2>5, <2>6 DEF Passed
  <2> QED
    BY <2>1, <2>7, <2>8 DEF PassedInv
<1>4. CASE StdinAvailable
  <2>1. Ahead(Reader)' = Ahead(Reader) /\ UNCHANGED <<sent, got, opened>>
    BY <1>1, <1>4, FillKeepsInput
  <2>2. Passed(past, ahead)'
    BY <1>2, <2>1 DEF Passed
  <2> QED
    BY <2>2 DEF PassedInv
<1>5. ASSUME NEW items \in Chunks, HostWrites(items)
      PROVE  PassedInv'
  <2>1. /\ items \in Seq(Byte) /\ sent' = sent \o items
        /\ Ahead(Reader)' = Ahead(Reader) \o items
        /\ UNCHANGED <<got, opened>>
    BY <1>1, <1>5, HostWritesInput
  <2>2. (past \o ahead) \o items = past \o (ahead \o items)
    BY <2>1, ConcatAssociative
  <2>3. ahead \o items \in Seq(Byte)
    BY <2>1, ConcatProperties
  <2>4. Passed(past, ahead \o items)'
    BY <1>2, <2>1, <2>2 DEF Passed
  <2> QED
    BY <2>3, <2>4 DEF PassedInv
<1>6. CASE HostDropsStdin
  <2>1. Ahead(Reader)' = Ahead(Reader) /\ UNCHANGED <<sent, got, opened>>
    BY <1>1, <1>6, DropKeepsInput
  <2>2. Passed(past, ahead)'
    BY <1>2, <2>1 DEF Passed
  <2> QED
    BY <2>2 DEF PassedInv
<1>7. CASE UNCHANGED inVars /\ opened' \subseteq opened
  <2>1. UNCHANGED <<stdin, lookahead, sent, got>>
    BY <1>7 DEF inVars
  <2>2. Ahead(Reader)' = Ahead(Reader)
    BY <2>1 DEF Ahead, Reader
  <2>3. Passed(past, ahead)'
    BY <1>2, <1>7, <2>1, <2>2 DEF Passed
  <2> QED
    BY <2>3 DEF PassedInv
<1>8. \/ \E lengths \in UpTo(MaxReads, Lengths) : FdRead(lengths)
      \/ StdinAvailable
      \/ \E items \in Chunks : HostWrites(items)
      \/ HostDropsStdin
      \/ UNCHANGED inVars /\ opened' \subseteq opened
  BY OthersKeepInput DEF LinesNext, CallOrWrite
<1> QED
  BY <1>3, <1>4, <1>5, <1>6, <1>7, <1>8

(***************************************************************************)
(* What a guest that passes no empty buffer is told of the end of stdin.   *)
(***************************************************************************)
EndMeansClosed == gotEof => stdin.closed

\* A turn with room in its buffer leaves the loop empty-handed only with Again, at
\* the end of the stream, or where it was left already.
LEMMA TurnTakesOrEnds ==
    ASSUME NEW s \in LoopStates, NEW n \in Nat \ {0},
           ReadBuffer(s, n).status # "again", ReadBuffer(s, n).data = <<>>
    PROVE  /\ s.data = <<>> /\ s.status # "again"
           /\ s.status = "more" => s.reader.pipe.closed
<1>1. s.reader \in Readers /\ s.data \in Seq(Byte)
  BY DEF LoopStates
<1>2. CASE s.status # "more"
  BY <1>2 DEF ReadBuffer
<1>3. CASE s.status = "more" /\ WouldBlock(s.reader)
  <2>1. ReadBuffer(s, n).status = "again"
    BY <1>3 DEF ReadBuffer, LoopStates
  <2> QED
    BY <2>1
<1>4. CASE s.status = "more" /\ ~WouldBlock(s.reader)
  <2>1. PICK bytes : bytes = Bytes(s.reader, n)
    OBVIOUS
  <2>2. bytes \in Seq(Byte) /\ (bytes = <<>> => Ahead(s.reader) = <<>>)
    BY <1>1, <2>1, ReadKeepsAhead
  <2>3. s.data \o bytes = <<>>
    BY <1>4, <2>1 DEF ReadBuffer
  <2>4. s.data = <<>> /\ bytes = <<>>
    BY <1>1, <2>2, <2>3, ConcatEqualIffEmpty
  <2>5. s.reader.pipe.closed
    BY <1>1, <1>4, <2>2, <2>4, BlocksWhenEmpty
  <2> QED
    BY <1>4, <2>4, <2>5
<1> QED
  BY <1>2, <1>3, <1>4

\* So does the loop, when it has a buffer at all.
LEMMA LoopTakesOrEnds ==
    ASSUME NEW start \in LoopStates, start.status = "more",
           NEW lengths \in Seq(Nat \ {0}), Len(lengths) > 0,
           FoldLeft(ReadBuffer, start, lengths).status # "again",
           FoldLeft(ReadBuffer, start, lengths).data = <<>>
    PROVE  start.reader.pipe.closed
<1>1. PICK r : /\ Turns(r, start, lengths, Len(lengths))
               /\ FoldLeft(ReadBuffer, start, lengths) = r[Len(lengths)]
  BY FoldIsTurns
<1>2. PICK n \in Nat : n = Len(lengths)
  BY LenProperties
<1> DEFINE Ends(s) == s.status # "again" /\ s.data = <<>> => start.reader.pipe.closed
           Fine(k) == /\ r[k] \in LoopStates
                      /\ r[k].reader.pipe.closed = start.reader.pipe.closed
                      /\ k = 0 => r[k].status = "more"
                      /\ k > 0 => Ends(r[k])
           A == {k \in Nat : k =< n => Fine(k)}
<1>3. 0 \in A
  BY <1>1 DEF Turns
<1>4. ASSUME NEW k \in Nat, k \in A
      PROVE  k + 1 \in A
  <2> SUFFICES ASSUME k + 1 =< n
               PROVE  Fine(k + 1)
    OBVIOUS
  <2>1. Fine(k)
    BY <1>4
  <2>2. PICK s, m : s = r[k] /\ m = lengths[k + 1]
    OBVIOUS
  <2>3. r[k + 1] = ReadBuffer(s, m)
    BY <1>1, <1>2, <2>2 DEF Turns
  <2>4. m \in Nat \ {0}
    <3>1. k + 1 \in 1 .. Len(lengths)
      BY <1>2
    <3> QED
      BY <2>2, <3>1, ElementOfSeq
  <2>5. /\ s \in LoopStates
        /\ s.reader.pipe.closed = start.reader.pipe.closed
        /\ k = 0 => s.status = "more"
        /\ k > 0 => Ends(s)
    BY <2>1, <2>2
  <2>6. /\ ReadBuffer(s, m) \in LoopStates
        /\ ReadBuffer(s, m).reader.pipe.closed = s.reader.pipe.closed
    BY <2>4, <2>5, BufferKeepsBytes
  <2>7. ASSUME ReadBuffer(s, m).status # "again", ReadBuffer(s, m).data = <<>>
        PROVE  start.reader.pipe.closed
    <3>1. /\ s.data = <<>> /\ s.status # "again"
          /\ s.status = "more" => s.reader.pipe.closed
      BY <2>4, <2>5, <2>7, TurnTakesOrEnds
    <3> QED
      BY <2>5, <3>1
  <2> QED
    BY <2>3, <2>5, <2>6, <2>7
<1> HIDE DEF A
<1>5. n \in A
  BY <1>3, <1>4, Induction
<1>6. Fine(n)
  BY <1>5 DEF A
<1>7. Ends(r[n])
  BY <1>2, <1>6
<1> QED
  BY <1>1, <1>2, <1>7

\* Every step of such a guest keeps the property.
LEMMA StepEndMeansClosed ==
    ASSUME 0 \notin Lengths, TypeOK, LinesTypeOK, EndMeansClosed,
           [LinesNext]_<<vars, lineVars, torn>>
    PROVE  EndMeansClosed'
<1>1. ASSUME NEW lengths \in UpTo(MaxReads, Lengths), FdRead(lengths)
      PROVE  EndMeansClosed'
  <2>1. PICK s \in LoopStates :
               /\ s = FoldLeft(ReadBuffer, Before, lengths)
               /\ s.reader.pipe.closed = stdin.closed
               /\ stdin' = s.reader.pipe
               /\ \/ /\ s.status = "again"
                     /\ UNCHANGED <<got, gotEof>>
                  \/ /\ s.status # "again"
                     /\ gotEof' => gotEof \/ s.data = <<>>
    BY <1>1, ReadEffect
  <2>2. lengths \in Seq(Nat \ {0}) /\ Len(lengths) > 0
    <3>1. MaxReads \in Nat /\ Lengths \subseteq Nat \ {0}
      BY StreamsAssumption
    <3>2. lengths \in Seq(Nat \ {0}) /\ Len(lengths) \in 1 .. MaxReads
      BY <3>1, ArraysAreSequences
    <3> QED
      BY <3>1, <3>2
  <2>3. /\ Before \in LoopStates /\ Before.status = "more"
        /\ Before.reader.pipe.closed = stdin.closed
    BY BeforeType DEF Before, Reader
  <2>4. s.status # "again" /\ s.data = <<>> => stdin.closed
    BY <2>1, <2>2, <2>3, LoopTakesOrEnds
  <2> QED
    BY <2>1, <2>4 DEF EndMeansClosed
<1>2. CASE StdinAvailable
  BY <1>2, FillKeepsInput DEF EndMeansClosed
<1>3. ASSUME NEW items \in Chunks, HostWrites(items)
      PROVE  EndMeansClosed'
  BY <1>3, HostWritesInput DEF EndMeansClosed
<1>4. CASE HostDropsStdin
  BY <1>4, DropKeepsInput DEF EndMeansClosed
<1>5. CASE UNCHANGED inVars
  BY <1>5 DEF inVars, EndMeansClosed
<1>6. \/ \E lengths \in UpTo(MaxReads, Lengths) : FdRead(lengths)
      \/ StdinAvailable
      \/ \E items \in Chunks : HostWrites(items)
      \/ HostDropsStdin
      \/ UNCHANGED inVars
  BY OthersKeepInput DEF LinesNext, CallOrWrite
<1> QED
  BY <1>1, <1>2, <1>3, <1>4, <1>5, <1>6

(***************************************************************************)
(* The lines of any guest, also of one that cuts characters.               *)
(***************************************************************************)
\* What the host is handed of an output, and keeps for the next line, are bytes of
\* it in order, each once.
LinesInOrder ==
    \A fd \in Outputs : IsPartOf(FlattenSeq(lines[fd]) \o part[fd], seen[fd])

\* Nothing has been handed on at the start.
LEMMA InitLinesInOrder == LinesInit => LinesInOrder
<1> SUFFICES ASSUME LinesInit
             PROVE  LinesInOrder
  OBVIOUS
<1>1. FlattenSeq(<<>>) \o <<>> = <<>>
  BY EmptySeq, ConcatEmptySeq DEF FlattenSeq
<1> QED
  BY <1>1, PartOfNothing DEF LinesInit, LinesInOrder

\* What read_line takes is handed on, kept, or left out.
LEMMA ReadLineKeepsOrder ==
    ASSUME LinesTypeOK, LinesInOrder, NEW fd \in Outputs, ReadLine(fd)
    PROVE  LinesInOrder'
<1>1. PICK taken \in Seq(Byte), rest \in Seq(Byte) : TakesLine(fd, taken, rest)
  BY ReadLineTakes
<1>2. /\ LineRead(fd, taken, ReadNow(fd, taken), part[fd] \o taken)
      /\ \A f \in Outputs : f # fd => lines'[f] = lines[f] /\ part'[f] = part[f]
  BY <1>1, ReadLineReads DEF TakesLine
<1>3. PICK all, p, s : all = FlattenSeq(lines[fd]) /\ p = part[fd] /\ s = seen[fd]
  OBVIOUS
<1>4. /\ lines[fd] \in Seq(Seq(Byte))
      /\ all \in Seq(Byte) /\ p \in Seq(Byte) /\ s \in Seq(Byte)
  BY <1>3, FlattenType DEF LinesTypeOK, TypeOK
<1>5. IsPartOf(all \o p, s) /\ seen'[fd] = s \o taken
  BY <1>1, <1>3 DEF LinesInOrder, TakesLine
<1>6. all \o p \in Seq(Byte) /\ p \o taken \in Seq(Byte)
  BY <1>4, ConcatProperties
<1>7. IsPartOf(all \o p, s \o taken) /\ IsPartOf((all \o p) \o taken, s \o taken)
  BY <1>4, <1>5, <1>6, PartOfConcat, PartAppended
<1>8. (all \o p) \o taken = all \o (p \o taken)
  BY <1>4, ConcatAssociative
<1>9. FlattenSeq(Append(lines[fd], p \o taken)) \o <<>> = all \o (p \o taken)
  <2>1. FlattenSeq(Append(lines[fd], p \o taken)) = all \o (p \o taken)
    BY <1>3, <1>4, <1>6, FlattenAppend
  <2>2. all \o (p \o taken) \in Seq(Byte)
    BY <1>4, <1>6, ConcatProperties
  <2> QED
    BY <2>1, <2>2, ConcatEmptySeq
<1>10. \/ part'[fd] = p /\ lines'[fd] = lines[fd]
       \/ part'[fd] = p \o taken /\ lines'[fd] = lines[fd]
       \/ part'[fd] = <<>> /\ lines'[fd] = Append(lines[fd], p \o taken)
  BY <1>2, <1>3 DEF LineRead, Keeps
<1>11. IsPartOf(FlattenSeq(lines'[fd]) \o part'[fd], seen'[fd])
  BY <1>3, <1>5, <1>7, <1>8, <1>9, <1>10
<1>12. \A f \in Outputs : f # fd => seen'[f] = seen[f]
  BY <1>1 DEF TakesLine
<1> QED
  BY <1>2, <1>11, <1>12 DEF LinesInOrder

\* The other steps do not read.
LEMMA StepLinesInOrder ==
    ASSUME LinesTypeOK, LinesInOrder, [LinesNext]_<<vars, lineVars, torn>>
    PROVE  LinesInOrder'
<1>1. CASE UNCHANGED <<seen, lineVars>>
  BY <1>1 DEF lineVars, LinesInOrder
<1>2. CallOrWrite => UNCHANGED seen
  BY DEF CallOrWrite, FdRead, StdinAvailable, FdWrite, FdClose, HostWrites,
         HostDropsStdin, outVars
<1>3. UNCHANGED <<vars, lineVars, torn>> => UNCHANGED <<seen, lineVars>>
  BY DEF vars, outVars
<1> QED
  BY <1>1, <1>2, <1>3, ReadLineKeepsOrder DEF LinesNext

(***************************************************************************)
(* The outputs as channels.                                                *)
(***************************************************************************)
\* The steps of a ByteChannel, for either output.
Sends(fd) == /\ fd \in opened /\ fd \in opened'
             /\ wrote'[fd] \in Seq(Byte)
             /\ Len(wrote[fd]) =< Len(wrote'[fd])
             /\ SubSeq(wrote'[fd], 1, Len(wrote[fd])) = wrote[fd]
             /\ seen'[fd] = seen[fd] /\ seenEof' = seenEof

Closes(fd) == /\ fd \in opened /\ fd \notin opened'
              /\ wrote'[fd] = wrote[fd] /\ seen'[fd] = seen[fd] /\ seenEof' = seenEof

Receives(fd) == /\ \E k \in 1 .. Len(wrote[fd]) :
                     /\ Len(seen[fd]) < k
                     /\ seen'[fd] = SubSeq(wrote[fd], 1, k)
                /\ wrote'[fd] = wrote[fd] /\ opened' = opened /\ seenEof' = seenEof

Ends(fd) == /\ fd \notin opened /\ fd \notin opened'
            /\ seen[fd] = wrote[fd]
            /\ fd \in seenEof'
            /\ wrote'[fd] = wrote[fd] /\ seen'[fd] = seen[fd]

Rests(fd) == /\ wrote'[fd] = wrote[fd] /\ seen'[fd] = seen[fd]
             /\ fd \in opened' <=> fd \in opened
             /\ fd \in seenEof' <=> fd \in seenEof

OutputStep(fd) == Sends(fd) \/ Closes(fd) \/ Receives(fd) \/ Ends(fd) \/ Rests(fd)

\* A line that is read is received; one that is empty tells of the end, or rests.
LEMMA ReadLineIsOutputStep ==
    ASSUME LinesTypeOK, OutputInv, NEW f \in Outputs, ReadLine(f), NEW fd \in Outputs
    PROVE  OutputStep(fd)
<1>1. PICK taken \in Seq(Byte), rest \in Seq(Byte) : TakesLine(f, taken, rest)
  BY ReadLineTakes
<1>2. CASE f # fd
  <2>1. Rests(fd)
    BY <1>1, <1>2 DEF TakesLine, Rests
  <2> QED
    BY <2>1 DEF OutputStep
<1>3. CASE f = fd /\ taken # <<>>
  <2>1. PICK s, t : s = seen[fd] /\ t = seen'[fd]
    OBVIOUS
  <2>2. /\ s \in Seq(Byte) /\ t \in Seq(Byte) /\ t = s \o taken
        /\ wrote[fd] = s \o (taken \o rest)
    BY <1>1, <1>3, <2>1 DEF TakesLine, LinesTypeOK, TypeOK, OutputInv, Delivered
  <2>3. wrote[fd] = t \o rest
    <3>1. (s \o taken) \o rest = s \o (taken \o rest)
      BY <2>2, ConcatAssociative, SMTT(30)
    <3> QED
      BY <2>2, <3>1
  <2>4. PICK n, k, m : n = Len(s) /\ k = Len(t) /\ m = Len(t \o rest)
    OBVIOUS
  <2>5. /\ n \in Nat /\ k \in Nat /\ m \in Nat
        /\ n < k /\ k =< m /\ SubSeq(t \o rest, 1, k) = t
    <3>1. t \o rest \in Seq(Byte)
      BY <2>2, ConcatProperties
    <3> QED
      BY <1>3, <2>2, <2>4, <3>1, PrefixOfConcat, LenProperties
  <2>6. k \in 1 .. m
    BY <2>5
  <2>7. Receives(fd)
    <3>1. wrote' = wrote /\ opened' = opened /\ seenEof' = seenEof
      BY <1>1, <1>3 DEF TakesLine
    <3> QED
      BY <2>1, <2>3, <2>4, <2>5, <2>6, <3>1 DEF Receives
  <2> QED
    BY <2>7 DEF OutputStep
<1>4. CASE f = fd /\ taken = <<>>
  <2>1. seen[fd] \o <<>> = seen[fd]
    BY ConcatEmptySeq DEF LinesTypeOK, TypeOK
  <2>2. /\ wrote' = wrote /\ opened' = opened /\ seen'[fd] = seen[fd]
        /\ out[fd].buf = <<>>
        /\ seenEof' = IF out[fd].closed THEN seenEof \cup {fd} ELSE seenEof
    BY <1>1, <1>4, <2>1 DEF TakesLine
  <2>3. CASE out[fd].closed
    <3>1. Finished(fd)
      BY <2>2, <2>3 DEF Finished, OutputInv, Delivered
    <3>2. seen[fd] = wrote[fd]
      BY <3>1, FinishedIsRead DEF LinesTypeOK
    <3>3. Ends(fd)
      BY <2>2, <2>3, <3>1, <3>2 DEF Ends, Finished
    <3> QED
      BY <3>3 DEF OutputStep
  <2>4. CASE ~out[fd].closed
    <3>1. Rests(fd)
      BY <2>2, <2>4 DEF Rests
    <3> QED
      BY <3>1 DEF OutputStep
  <2> QED
    BY <2>3, <2>4
<1> QED
  BY <1>2, <1>3, <1>4

\* Every step is a step of the channel of each output, or none.
LEMMA StepIsOutputStep ==
    ASSUME LinesTypeOK, OutputInv, [LinesNext]_<<vars, lineVars, torn>>,
           NEW fd \in Outputs
    PROVE  OutputStep(fd)
<1>1. CASE UNCHANGED <<outVars, opened>>
  BY <1>1 DEF outVars, Rests, OutputStep
<1>2. ASSUME NEW f \in Outputs, NEW bufs \in UpTo(MaxWrites, Chunks), FdWrite(f, bufs)
      PROVE  OutputStep(fd)
  <2>1. PICK items : items = FlattenSeq(bufs)
    OBVIOUS
  <2>2. /\ items \in Seq(Byte)
        /\ f \in opened /\ UNCHANGED <<opened, seen, seenEof>>
        /\ wrote' = [wrote EXCEPT ![f] = @ \o items]
    BY <1>2, <2>1, BuffersOfWrites DEF FdWrite
  <2>3. wrote \in [Outputs -> Seq(Byte)]
    BY DEF LinesTypeOK, TypeOK
  <2>4. CASE f = fd
    <3>1. PICK w : w = wrote[fd] /\ w \in Seq(Byte)
      BY <2>3
    <3>2. /\ Len(w) =< Len(w \o items)
          /\ SubSeq(w \o items, 1, Len(w)) = w
          /\ w \o items \in Seq(Byte)
      BY <2>2, <3>1, PrefixOfConcat, ConcatProperties
    <3>3. wrote'[fd] = w \o items
      BY <2>2, <2>3, <2>4, <3>1
    <3>4. Sends(fd)
      BY <2>2, <2>4, <3>1, <3>2, <3>3 DEF Sends
    <3> QED
      BY <3>4 DEF OutputStep
  <2>5. CASE f # fd
    <3>1. wrote'[fd] = wrote[fd]
      BY <2>2, <2>3, <2>5
    <3>2. Rests(fd)
      BY <2>2, <3>1 DEF Rests
    <3> QED
      BY <3>2 DEF OutputStep
  <2> QED
    BY <2>4, <2>5
<1>3. ASSUME NEW f \in {0} \cup Outputs, FdClose(f)
      PROVE  OutputStep(fd)
  <2>1. f \in opened /\ opened' = opened \ {f} /\ UNCHANGED <<wrote, seen, seenEof>>
    BY <1>3 DEF FdClose
  <2>2. CASE f = fd
    BY <2>1, <2>2 DEF Closes, OutputStep
  <2>3. CASE f # fd
    BY <2>1, <2>3 DEF Rests, OutputStep
  <2> QED
    BY <2>2, <2>3
<1>4. ASSUME NEW lengths \in UpTo(MaxReads, Lengths), FdRead(lengths)
      PROVE  UNCHANGED <<outVars, opened>>
  BY <1>4 DEF FdRead
<1>5. StdinAvailable => UNCHANGED <<outVars, opened>>
  BY DEF StdinAvailable
<1>6. ASSUME NEW items \in Chunks, HostWrites(items)
      PROVE  UNCHANGED <<outVars, opened>>
  BY <1>6 DEF HostWrites
<1>7. HostDropsStdin => UNCHANGED <<outVars, opened>>
  BY DEF HostDropsStdin
<1>8. UNCHANGED <<vars, lineVars, torn>> => UNCHANGED <<outVars, opened>>
  BY DEF vars
<1>9. ASSUME CallOrWrite
      PROVE  OutputStep(fd)
  BY <1>1, <1>2, <1>3, <1>4, <1>5, <1>6, <1>7, <1>9 DEF CallOrWrite
<1>10. ASSUME NEW f \in Outputs, ReadLine(f)
       PROVE  OutputStep(fd)
  BY <1>10, ReadLineIsOutputStep
<1> QED
  BY <1>1, <1>8, <1>9, <1>10 DEF LinesNext

\* These steps are those of the two channels.
LEMMA StepStdout == OutputStep(1) => [Stdout!Next]_(Stdout!vars)
<1>1. Sends(1) => Stdout!Send
  BY DEF Sends, Stdout!Send
<1>2. Closes(1) => Stdout!Close
  BY DEF Closes, Stdout!Close
<1>3. Receives(1) => Stdout!Receive
  BY DEF Receives, Stdout!Receive
<1>4. Ends(1) => Stdout!End
  BY DEF Ends, Stdout!End
<1>5. Rests(1) => UNCHANGED Stdout!vars
  BY DEF Rests, Stdout!vars
<1> QED
  BY <1>1, <1>2, <1>3, <1>4, <1>5 DEF OutputStep, Stdout!Next

\* The same for stderr.
LEMMA StepStderr == OutputStep(2) => [Stderr!Next]_(Stderr!vars)
<1>1. Sends(2) => Stderr!Send
  BY DEF Sends, Stderr!Send
<1>2. Closes(2) => Stderr!Close
  BY DEF Closes, Stderr!Close
<1>3. Receives(2) => Stderr!Receive
  BY DEF Receives, Stderr!Receive
<1>4. Ends(2) => Stderr!End
  BY DEF Ends, Stderr!End
<1>5. Rests(2) => UNCHANGED Stderr!vars
  BY DEF Rests, Stderr!vars
<1> QED
  BY <1>1, <1>2, <1>3, <1>4, <1>5 DEF OutputStep, Stderr!Next

\* They begin as channels do.
LEMMA InitOutputs == LinesInit => Stdout!Init /\ Stderr!Init
BY OutputsAreTwo DEF LinesInit, Init, Stdout!Init, Stderr!Init

(***************************************************************************)
(* The theorems.                                                           *)
(***************************************************************************)
LEMMA LineInvariant == LinesSpec => []LineInv
BY InitLineInv, StepLineInv, PTL DEF LinesSpec

\* Every stream, reader and history of the model has its type.
THEOREM StreamsTyped == LinesSpec => []LinesTypeOK
<1>1. LineInv => LinesTypeOK
  BY DEF LineInv, OutInv
<1> QED
  BY <1>1, LineInvariant, PTL

\* stdin_available says that there is input exactly when some is in the pipe or in
\* the BufReader, and exactly then a read into a buffer with room gives a byte.
THEOREM StreamsAvailable == LinesSpec => []AvailableMeansReadable
<1>1. LineInv => AvailableMeansReadable
  BY TypesAvailable DEF LineInv, OutInv, LinesTypeOK
<1> QED
  BY <1>1, LineInvariant, PTL

\* next_line of the transport: whatever the guest writes and whenever the host
\* looks, what it is given are whole lines, and as long as no call of the guest has
\* cut a character it is given all of them in order.
THEOREM StdoutLinesWhole == LinesSpec => []StdoutLines
BY LineInvStdout, LineInvariant, PTL

\* The logger of Plugin::call: it is given the lines of stderr whole, once and in
\* order, also where the guest has cut a character, and fails only at what is no text.
THEOREM LogLinesWhole == LinesSpec => []LogLines
BY LineInvLog, LineInvariant, PTL

\* fd_write and fd_close on one side and read_line on the other make of each output
\* a ByteChannel, the two apart from each other: the host is told of the end only
\* when the guest has closed the descriptor and everything was read.
THEOREM StreamsOutputsAreChannels == LinesSpec => OutputsAreChannels
<1>1. LineInv /\ [LinesNext]_<<vars, lineVars, torn>>
        => [Stdout!Next]_(Stdout!vars) /\ [Stderr!Next]_(Stderr!vars)
  BY StepIsOutputStep, StepStdout, StepStderr, OutputsAreTwo DEF LineInv, OutInv
<1> QED
  BY <1>1, LineInvariant, InitOutputs, PTL
     DEF LinesSpec, OutputsAreChannels, Stdout!Spec, Stderr!Spec

\* A guest that reads into one buffer at a time loses no byte of stdin between the
\* pipe, the BufReader and its buffer.  With two buffers fd_read does lose some, which
\* is why the hypothesis is there.
THEOREM StreamsInputIntact ==
    ASSUME MaxReads =< 1
    PROVE  LinesSpec => []InputIntact
<1>1. LineInv /\ InputInv /\ [LinesNext]_<<vars, lineVars, torn>> => InputInv'
  BY StepInputInv DEF LineInv, OutInv
<1>2. LineInv /\ InputInv => InputIntact
  BY InputInvIntact DEF LineInv, OutInv, LinesTypeOK
<1> QED
  BY <1>1, <1>2, LineInvariant, InitInputInv, PTL DEF LinesSpec

\* To such a guest stdin is a ByteChannel: Again loses nothing, and zero bytes mean
\* that the host has dropped the writer and everything was read.
THEOREM StreamsInputIsChannel ==
    ASSUME MaxReads =< 1
    PROVE  LinesSpec => InputIsChannel
<1>1. LineInv /\ InputInv /\ [LinesNext]_<<vars, lineVars, torn>>
        => InputInv' /\ [Input!Next]_(Input!vars)
  BY StepInputInv DEF LineInv, OutInv
<1> QED
  BY <1>1, LineInvariant, InitInputInv, InitInput, PTL
     DEF LinesSpec, InputIsChannel, Input!Spec

\* However many buffers a guest reads into, what it is told of is a part of what
\* the host sent, in the same order and each byte once: fd_read may lose bytes,
\* it never repeats, moves or invents one.
THEOREM StreamsInputInOrder == LinesSpec => []InputInOrder
<1>1. LineInv /\ PassedInv => InputInOrder
  <2> SUFFICES ASSUME LineInv, PassedInv
               PROVE  InputInOrder
    OBVIOUS
  <2>1. PICK past \in Seq(Byte), ahead \in Seq(Byte) : Passed(past, ahead)
    BY DEF PassedInv
  <2>2. got \in Seq(Byte)
    BY DEF LineInv, OutInv, LinesTypeOK, TypeOK
  <2> QED
    BY <2>1, <2>2, PartOfConcat DEF Passed, InputInOrder
<1>2. LineInv /\ PassedInv /\ [LinesNext]_<<vars, lineVars, torn>> => PassedInv'
  BY StepPassedInv DEF LineInv, OutInv
<1> QED
  BY <1>1, <1>2, LineInvariant, InitPassedInv, PTL DEF LinesSpec

\* A guest that passes no empty buffer, however many it passes at once, is told of
\* the end of stdin only when the host has closed it: never because there is nothing
\* at the moment.
THEOREM StreamsEndMeansClosed ==
    ASSUME 0 \notin Lengths
    PROVE  LinesSpec => []EndMeansClosed
<1>1. LineInv /\ EndMeansClosed /\ [LinesNext]_<<vars, lineVars, torn>>
        => EndMeansClosed'
  BY StepEndMeansClosed DEF LineInv, OutInv, LinesTypeOK
<1>2. LinesInit => EndMeansClosed
  BY DEF LinesInit, Init, EndMeansClosed
<1> QED
  BY <1>1, <1>2, LineInvariant, PTL DEF LinesSpec

\* Wherever the guest cuts its writes, also within a character, what the readers of
\* stdout and stderr hand on are bytes the host has read, in order and each once:
\* next_line may leave out a part of a torn line, it never repeats or moves one.
THEOREM StreamsLinesInOrder == LinesSpec => []LinesInOrder
<1>1. LineInv /\ LinesInOrder /\ [LinesNext]_<<vars, lineVars, torn>> => LinesInOrder'
  BY StepLinesInOrder DEF LineInv, OutInv
<1> QED
  BY <1>1, LineInvariant, InitLinesInOrder, PTL DEF LinesSpec
=============================================================================
