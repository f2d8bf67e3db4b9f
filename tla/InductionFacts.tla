--------------------------- MODULE InductionFacts ---------------------------
(***************************************************************************)
(* Facts about natural numbers, recursive functions and sequences that the *)
(* proofs of several components need.                                      *)
(*                                                                         *)
(* The induction theorems of the library take an operator as a parameter.  *)
(* Here induction is stated with a set, which a proof can instantiate; it  *)
(* follows from the well-foundedness of <.                                 *)
(***************************************************************************)
EXTENDS Integers, SequencesExt, TLAPS, WellFoundedInduction, SequenceTheorems

(* A nonempty set of natural numbers has a least element. *)
LEMMA SmallestElement ==
    ASSUME NEW S \in SUBSET Nat, S # {}
    PROVE  \E m \in S : \A k \in S : m <= k
<1>1. PICK m \in S : \A k \in S : ~ (<<k, m>> \in OpToRel(<, Nat))
  BY NatLessThanWellFounded, WFMin
<1>2. ASSUME NEW k \in S PROVE m <= k
  <2>1. ~ (<<k, m>> \in OpToRel(<, Nat)) /\ <<k, m>> \in Nat \X Nat
    BY <1>1
  <2>2. ~ (k < m)
    BY <2>1, Zenon DEF OpToRel
  <2> QED
    BY <2>2
<1> QED
  BY <1>2

(* Induction up to a bound: a set that holds 0 and, with every number below *)
(* n, the next one, holds 0..n.                                             *)
LEMMA SetInduction ==
    ASSUME NEW n \in Nat, NEW S, 0 \in S, \A k \in 0..(n - 1) : k \in S => k + 1 \in S
    PROVE  \A k \in 0..n : k \in S
<1> DEFINE Missing == {k \in 0..n : k \notin S}
<1> SUFFICES ASSUME Missing # {} PROVE FALSE
  OBVIOUS
<1>0. Missing \in SUBSET Nat
  OBVIOUS
<1> HIDE DEF Missing
<1>1. PICK m \in Missing : \A k \in Missing : m <= k
  BY <1>0, SmallestElement
<1> USE DEF Missing
<1>2. m # 0 /\ m - 1 \in 0..(n - 1)
  BY <1>1
<1>3. m - 1 \in S
  BY <1>1, <1>2
<1> QED
  BY <1>1, <1>2, <1>3

---------------------------------------------------------------------------
(* FlattenSeq.                                                             *)

(* The elements of a concatenation are those of its two parts. *)
LEMMA ToSetOfConcat ==
    ASSUME NEW S, NEW s \in Seq(S), NEW t \in Seq(S)
    PROVE  ToSet(s \o t) = ToSet(s) \cup ToSet(t)
<1>1. /\ s \o t \in Seq(S)
      /\ Len(s \o t) = Len(s) + Len(t)
      /\ \A i \in 1..(Len(s) + Len(t)) :
            (s \o t)[i] = IF i <= Len(s) THEN s[i] ELSE t[i - Len(s)]
  BY ConcatProperties
<1> DEFINE u == s \o t
<1>2. DOMAIN u = 1..(Len(s) + Len(t)) /\ DOMAIN s = 1..Len(s) /\ DOMAIN t = 1..Len(t)
  BY <1>1
<1>3. Len(s) \in Nat /\ Len(t) \in Nat
  OBVIOUS
<1>4. \A i \in DOMAIN u : u[i] \in ToSet(s) \cup ToSet(t)
  BY <1>1, <1>2, <1>3 DEF ToSet
<1>5. \A i \in DOMAIN s : i \in DOMAIN u /\ u[i] = s[i]
  BY <1>1, <1>2, <1>3
<1>6. \A i \in DOMAIN t : i + Len(s) \in DOMAIN u /\ u[i + Len(s)] = t[i]
  BY <1>1, <1>2, <1>3
<1> HIDE DEF u
<1>7. ToSet(u) = ToSet(s) \cup ToSet(t)
  BY <1>4, <1>5, <1>6 DEF ToSet
<1> QED
  BY <1>7 DEF u

(* The recursive function that FlattenSeq defines exists. *)
LEMMA FlattenExists ==
    ASSUME NEW S, NEW seqs \in Seq(Seq(S)), Len(seqs) # 0
    PROVE  \E g : g = [i \in 1..Len(seqs) |-> IF i = 1 THEN seqs[i] ELSE g[i - 1] \o seqs[i]]
<1> DEFINE Is(g, n) == g = [i \in 1..n |-> IF i = 1 THEN seqs[i] ELSE g[i - 1] \o seqs[i]]
           Built == {n \in Nat : \E g : Is(g, n)}
<1>0. Len(seqs) \in Nat
  OBVIOUS
<1>1. 0 \in Built
  <2>1. Is(<<>>, 0)
    OBVIOUS
  <2> QED
    BY <2>1
<1>2. ASSUME NEW n \in 0..(Len(seqs) - 1), n \in Built PROVE n + 1 \in Built
  <2>1. PICK g : Is(g, n)
    BY <1>2
  <2> DEFINE h == [i \in 1..(n + 1) |->
                     IF i = n + 1 THEN (IF n = 0 THEN seqs[1] ELSE g[n] \o seqs[n + 1])
                     ELSE g[i]]
  <2>2. Is(h, n + 1)
    <3>1. \A i \in 1..n : g[i] = IF i = 1 THEN seqs[i] ELSE g[i - 1] \o seqs[i]
      BY <2>1
    <3>2. \A i \in 1..(n + 1) : i # n + 1 => i \in 1..n /\ h[i] = g[i]
      OBVIOUS
    <3>3. h[n + 1] = IF n = 0 THEN seqs[1] ELSE g[n] \o seqs[n + 1]
      OBVIOUS
    <3>4. h = [i \in 1..(n + 1) |-> h[i]]
      OBVIOUS
    <3> HIDE DEF h
    <3>5. ASSUME NEW i \in 1..(n + 1)
          PROVE  h[i] = IF i = 1 THEN seqs[i] ELSE h[i - 1] \o seqs[i]
      <4>1. CASE i = 1
        BY <3>1, <3>2, <3>3, <4>1
      <4>2. CASE i # 1
        <5>1. i - 1 \in 1..n /\ i - 1 \in 1..(n + 1) /\ i - 1 # n + 1 /\ h[i - 1] = g[i - 1]
          BY <3>2, <4>2
        <5>2. CASE i = n + 1
          <6>1. n # 0 /\ i - 1 = n
            BY <4>2, <5>2
          <6> QED
            BY <3>3, <4>2, <5>1, <5>2, <6>1
        <5>3. CASE i # n + 1
          BY <3>1, <3>2, <4>2, <5>1, <5>3
        <5> QED
          BY <5>2, <5>3
      <4> QED
        BY <4>1, <4>2
    <3> QED
      BY <3>4, <3>5
  <2> HIDE DEF h, Is
  <2> QED
    BY <2>2
<1> HIDE DEF Built
<1>3. \A k \in 0..Len(seqs) : k \in Built
  BY <1>0, <1>1, <1>2, SetInduction
<1>4. Len(seqs) \in Built
  BY <1>0, <1>3
<1> QED
  BY <1>4 DEF Built

(* FlattenSeq returns a sequence of the elements of its parts. *)
LEMMA FlattenSeqProperties ==
    ASSUME NEW S, NEW seqs \in Seq(Seq(S))
    PROVE  /\ FlattenSeq(seqs) \in Seq(S)
           /\ ToSet(FlattenSeq(seqs)) = UNION {ToSet(seqs[i]) : i \in 1..Len(seqs)}
<1>0. Len(seqs) \in Nat
  OBVIOUS
<1>1. CASE Len(seqs) = 0
  <2>1. FlattenSeq(seqs) = <<>>
    BY <1>1 DEF FlattenSeq
  <2> QED
    BY <1>1, <2>1 DEF ToSet
<1>2. CASE Len(seqs) # 0
  <2> DEFINE Is(g) == g = [i \in 1..Len(seqs) |->
                              IF i = 1 THEN seqs[i] ELSE g[i - 1] \o seqs[i]]
             flatten == CHOOSE g : Is(g)
  <2>1. FlattenSeq(seqs) = flatten[Len(seqs)]
    BY <1>2 DEF FlattenSeq
  <2>2. Is(flatten)
    BY <1>2, FlattenExists
  <2> HIDE DEF flatten
  <2>3. /\ flatten[1] = seqs[1]
        /\ \A i \in 2..Len(seqs) : flatten[i] = flatten[i - 1] \o seqs[i]
    <3>1. 1 \in 1..Len(seqs) /\ \A i \in 2..Len(seqs) : i \in 1..Len(seqs) /\ i # 1
      BY <1>0, <1>2
    <3>2. ASSUME NEW i \in 1..Len(seqs)
          PROVE  flatten[i] = IF i = 1 THEN seqs[i] ELSE flatten[i - 1] \o seqs[i]
      BY <2>2
    <3> QED
      BY <3>1, <3>2
  <2> DEFINE Flat(n) == /\ flatten[n] \in Seq(S)
                        /\ ToSet(flatten[n]) = UNION {ToSet(seqs[i]) : i \in 1..n}
             Good == {n \in Nat : n \in 1..Len(seqs) => Flat(n)}
  <2>4. 0 \in Good
    OBVIOUS
  <2>5. ASSUME NEW n \in 0..(Len(seqs) - 1), n \in Good PROVE n + 1 \in Good
    <3>1. CASE n = 0
      <4>1. flatten[1] = seqs[1] /\ seqs[1] \in Seq(S) /\ 1..1 = {1}
        BY <1>0, <1>2, <2>3
      <4>2. Flat(1)
        BY <4>1
      <4>3. n + 1 = 1
        BY <3>1
      <4> HIDE DEF Flat
      <4> QED
        BY <4>2, <4>3
    <3>2. CASE n # 0
      <4>1. /\ flatten[n] \in Seq(S)
            /\ ToSet(flatten[n]) = UNION {ToSet(seqs[i]) : i \in 1..n}
            /\ seqs[n + 1] \in Seq(S)
            /\ flatten[n + 1] = flatten[n] \o seqs[n + 1]
        <5>1. n \in 1..Len(seqs) /\ n + 1 \in 2..Len(seqs) /\ (n + 1) - 1 = n
          BY <1>0, <3>2
        <5>2. Flat(n)
          BY <2>5, <5>1
        <5>3. flatten[n + 1] = flatten[(n + 1) - 1] \o seqs[n + 1]
          BY <2>3, <5>1
        <5>4. seqs[n + 1] \in Seq(S)
          BY <1>0, <3>2
        <5> QED
          BY <5>1, <5>2, <5>3, <5>4
      <4>2. ToSet(flatten[n + 1]) = ToSet(flatten[n]) \cup ToSet(seqs[n + 1])
        BY <4>1, ToSetOfConcat
      <4>3. flatten[n + 1] \in Seq(S)
        BY <4>1
      <4>4. 1..(n + 1) = (1..n) \cup {n + 1}
        BY <3>2
      <4>5. Flat(n + 1)
        BY <4>1, <4>2, <4>3, <4>4
      <4> QED
        BY <4>5
    <3> QED
      BY <3>1, <3>2
  <2> HIDE DEF Good
  <2>6. \A k \in 0..Len(seqs) : k \in Good
    BY <1>0, <2>4, <2>5, SetInduction
  <2>7. Flat(Len(seqs))
    BY <1>0, <1>2, <2>6 DEF Good
  <2> QED
    BY <2>1, <2>7
<1> QED
  BY <1>1, <1>2
=============================================================================
