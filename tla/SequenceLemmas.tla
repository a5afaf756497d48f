---------------------------- MODULE SequenceLemmas ----------------------------
(***************************************************************************)
(* What several proofs need of numbers and sequences: induction, prefixes, *)
(* and how many items of a sequence are of some kind, when one is appended *)
(* at the end or taken from the front.                                     *)
(***************************************************************************)
EXTENDS SequenceTheorems, FiniteSetTheorems, WellFoundedInduction, TLAPS

(***************************************************************************)
(* Induction over numbers, for a set in place of a predicate: it rests on  *)
(* the well-founded order of the library, whose theorems about minima take *)
(* no operator.                                                            *)
(***************************************************************************)
LEMMA LeastNatural ==
    ASSUME NEW T, T \subseteq Nat, T # {}
    PROVE  \E m \in T : \A k \in T : m =< k
<1> DEFINE R == OpToRel(<, Nat)
<1>1. IsWellFoundedOn(R, Nat)
  BY NatLessThanWellFounded
<1>2. R = {ss \in Nat \X Nat : ss[1] < ss[2]}
  BY DEF OpToRel
<1> HIDE DEF R
<1>3. PICK m \in T : \A k \in T : ~(<<k, m>> \in R)
  BY <1>1, WFMin
<1>4. ASSUME NEW k \in T
      PROVE  m =< k
  <2>1. k \in Nat /\ m \in Nat
    OBVIOUS
  <2>2. ~(k < m)
    <3>1. <<k, m>> \in Nat \X Nat
      BY <2>1
    <3>2. k < m => <<k, m>> \in R
      BY <1>2, <3>1
    <3> QED
      BY <1>3, <3>2
  <2> QED
    BY <2>1, <2>2
<1> QED
  BY <1>4

LEMMA Induction ==
    ASSUME NEW A, 0 \in A, \A n \in Nat : n \in A => n + 1 \in A
    PROVE  Nat \subseteq A
<1> SUFFICES ASSUME Nat \ A # {}
             PROVE  FALSE
  OBVIOUS
<1>1. PICK m \in Nat \ A : \A k \in Nat \ A : m =< k
  BY LeastNatural
<1>2. m - 1 \in Nat /\ m - 1 \notin Nat \ A
  BY <1>1
<1> QED
  BY <1>1, <1>2

(***************************************************************************)
(* A sequence is a prefix of every sequence it begins.                     *)
(***************************************************************************)
LEMMA PrefixOfConcat ==
    ASSUME NEW S, NEW s \in Seq(S), NEW t \in Seq(S)
    PROVE  /\ Len(s) =< Len(s \o t)
           /\ SubSeq(s \o t, 1, Len(s)) = s
           /\ t # <<>> => Len(s) < Len(s \o t)
<1>1. /\ s \o t \in Seq(S)
      /\ Len(s \o t) = Len(s) + Len(t)
      /\ \A i \in 1 .. Len(s) : (s \o t)[i] = s[i]
      /\ Len(s) \in Nat /\ Len(t) \in Nat
  BY ConcatProperties, LenProperties
<1>2. /\ SubSeq(s \o t, 1, Len(s)) \in Seq(S)
      /\ Len(SubSeq(s \o t, 1, Len(s))) = Len(s)
      /\ \A i \in 1 .. Len(s) : SubSeq(s \o t, 1, Len(s))[i] = s[i]
  BY <1>1, SubSeqProperties
<1>3. SubSeq(s \o t, 1, Len(s)) = s
  BY <1>2, SeqEqual
<1>4. t # <<>> => Len(t) # 0
  BY EmptySeq
<1> QED
  BY <1>1, <1>3, <1>4

(***************************************************************************)
(* Counting.                                                               *)
(***************************************************************************)
Places(s, M) == {k \in 1 .. Len(s) : s[k] \in M}

LEMMA PlacesFinite ==
    ASSUME NEW S, NEW s \in Seq(S), NEW M
    PROVE  IsFiniteSet(Places(s, M)) /\ Cardinality(Places(s, M)) \in Nat
<1>1. Len(s) \in Nat
  BY LenProperties
<1>2. IsFiniteSet(1 .. Len(s)) /\ Places(s, M) \in SUBSET (1 .. Len(s))
  BY <1>1, FS_Interval DEF Places
<1>3. IsFiniteSet(Places(s, M))
  BY <1>2, FS_Subset
<1> QED
  BY <1>3, FS_CardinalityType

LEMMA PlacesOfNothing == ASSUME NEW M PROVE Cardinality(Places(<<>>, M)) = 0
<1>1. Places(<<>>, M) = {}
  BY EmptySeq DEF Places
<1> QED
  BY <1>1, FS_EmptySet

LEMMA PlacesAfterAppend ==
    ASSUME NEW S, NEW s \in Seq(S), NEW x \in S, NEW M
    PROVE  Cardinality(Places(Append(s, x), M))
             = Cardinality(Places(s, M)) + (IF x \in M THEN 1 ELSE 0)
<1> DEFINE longer == Append(s, x)
<1>1. /\ Len(s) \in Nat
      /\ Len(longer) = Len(s) + 1
      /\ \A i \in 1 .. Len(s) : longer[i] = s[i]
      /\ longer[Len(s) + 1] = x
  BY AppendProperties, LenProperties
<1> HIDE DEF longer
<1>2. IsFiniteSet(Places(s, M)) /\ Cardinality(Places(s, M)) \in Nat
  BY PlacesFinite
<1>3. CASE x \in M
  <2>1. Places(longer, M) = Places(s, M) \cup {Len(s) + 1}
    BY <1>1, <1>3 DEF Places
  <2>2. Len(s) + 1 \notin Places(s, M)
    BY <1>1 DEF Places
  <2>3. Cardinality(Places(longer, M)) = Cardinality(Places(s, M)) + 1
    BY <1>2, <2>1, <2>2, FS_AddElement
  <2> QED
    BY <1>3, <2>3 DEF longer
<1>4. CASE x \notin M
  <2>1. Places(longer, M) = Places(s, M)
    BY <1>1, <1>4 DEF Places
  <2> QED
    BY <1>2, <1>4, <2>1 DEF longer
<1> QED
  BY <1>3, <1>4

LEMMA PlacesAfterTail ==
    ASSUME NEW S, NEW s \in Seq(S), s # <<>>, NEW M
    PROVE  Cardinality(Places(Tail(s), M))
             = Cardinality(Places(s, M)) - (IF Head(s) \in M THEN 1 ELSE 0)
<1>1. /\ Len(s) \in Nat \ {0}
      /\ Tail(s) \in Seq(S)
      /\ Len(Tail(s)) = Len(s) - 1
      /\ \A i \in 1 .. Len(Tail(s)) : Tail(s)[i] = s[i + 1]
      /\ Head(s) = s[1]
  BY EmptySeq, HeadTailProperties
<1> DEFINE A == Places(Tail(s), M)
           B == Places(s, M) \ {1}
           f == [i \in A |-> i + 1]
<1>2. ExistsBijection(A, B)
  <2>1. f \in [A -> B]
    BY <1>1 DEF Places
  <2>2. \A a, b \in A : f[a] = f[b] => a = b
    BY <1>1 DEF Places
  <2>3. \A b \in B : \E a \in A : f[a] = b
    <3> SUFFICES ASSUME NEW b \in B
                 PROVE  \E a \in A : f[a] = b
      OBVIOUS
    <3>1. b - 1 \in A /\ (b - 1) + 1 = b
      BY <1>1 DEF Places
    <3> QED
      BY <3>1
  <2> HIDE DEF f, A, B
  <2>4. f \in Bijection(A, B)
    BY <2>1, <2>2, <2>3 DEF Bijection, Injection, Surjection, IsInjective
  <2> QED
    BY <2>4 DEF ExistsBijection
<1>3. /\ IsFiniteSet(A) /\ IsFiniteSet(Places(s, M))
      /\ Cardinality(Places(s, M)) \in Nat
  BY <1>1, PlacesFinite
<1>4. Cardinality(B) = Cardinality(A)
  BY <1>2, <1>3, FS_Bijection
<1>5. Cardinality(B) = IF 1 \in Places(s, M)
                       THEN Cardinality(Places(s, M)) - 1
                       ELSE Cardinality(Places(s, M))
  BY <1>3, FS_RemoveElement
<1>6. 1 \in Places(s, M) <=> Head(s) \in M
  BY <1>1 DEF Places
<1> QED
  BY <1>3, <1>4, <1>5, <1>6
=============================================================================
