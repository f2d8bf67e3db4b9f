---------------------------- MODULE BundleProofs ----------------------------
(***************************************************************************)
(* Proofs about BundleManager, for every number of operations, scans and   *)
(* paymasters, a chain of any length and a node that may fail any request. *)
(*                                                                         *)
(* BundleInv is the invariant of the mempool, chain and cursor             *)
(* (EventsCore), types, and what is true of a bundle while it is built     *)
(* (BuildInv): the balance quoted for a paymaster is what is left of it    *)
(* and what the operations taken so far use; senders do not repeat; every  *)
(* operation comes from the snapshot, reads no other sender of it, and was *)
(* valid unless the chain or the validity of operations has moved since    *)
(* the snapshot was taken.  A wait for balanceOf carries what was learnt   *)
(* of the operation before it.  All of it outlives whatever else happens   *)
(* while the builder waits; UndisturbedBundleExecutes is what it gives     *)
(* once the bundle is complete, to clients that have one spelling of an    *)
(* account: createBundle tells senders apart by their text.                *)
(***************************************************************************)
EXTENDS BundleManager, EventsProofs

---------------------------------------------------------------------------
(* SponsoredSum.                                                           *)

Share(op, p) == IF op.paymaster = p THEN Prefund[op] ELSE 0

IsSum(g, ops, count, p) ==
    g = [k \in 0..count |->
            IF k = 0 THEN 0
            ELSE g[k - 1] + (IF ops[k].paymaster = p THEN Prefund[ops[k]] ELSE 0)]

(* The recursive function of SponsoredSum exists. *)
LEMMA SumExists ==
    ASSUME NEW ops, NEW count \in Nat, NEW p
    PROVE  \E g : IsSum(g, ops, count, p)
<1> DEFINE Next1(sum, k) == sum + (IF ops[k].paymaster = p THEN Prefund[ops[k]] ELSE 0)
           Is(g, m) == g = [k \in 0..m |-> IF k = 0 THEN 0 ELSE Next1(g[k - 1], k)]
           Built == {m \in Nat : \E g : Is(g, m)}
<1>1. 0 \in Built
  <2> DEFINE g == [k \in 0..0 |-> 0]
  <2>1. Is(g, 0)
    OBVIOUS
  <2> QED
    BY <2>1
<1>2. ASSUME NEW m \in 0..(count - 1), m \in Built PROVE m + 1 \in Built
  <2>1. PICK g : Is(g, m)
    BY <1>2
  <2> HIDE DEF Next1
  <2> DEFINE h == [k \in 0..(m + 1) |-> IF k = m + 1 THEN Next1(g[m], m + 1) ELSE g[k]]
  <2>2. \A k \in 0..m : g[k] = IF k = 0 THEN 0 ELSE Next1(g[k - 1], k)
    BY <2>1
  <2>3. /\ h = [k \in 0..(m + 1) |-> h[k]]
        /\ h[m + 1] = Next1(g[m], m + 1)
        /\ \A k \in 0..(m + 1) : k # m + 1 => k \in 0..m /\ h[k] = g[k]
    OBVIOUS
  <2> HIDE DEF h
  <2>4. ASSUME NEW k \in 0..(m + 1)
        PROVE  h[k] = IF k = 0 THEN 0 ELSE Next1(h[k - 1], k)
    <3>1. CASE k = 0
      BY <2>2, <2>3, <3>1
    <3>2. CASE k # 0
      <4>1. k - 1 \in 0..(m + 1) /\ k - 1 # m + 1 /\ h[k - 1] = g[k - 1]
        BY <2>3, <3>2
      <4>2. CASE k = m + 1
        <5>1. k - 1 = m
          BY <4>2
        <5> QED
          BY <2>3, <3>2, <4>1, <4>2, <5>1
      <4>3. CASE k # m + 1
        BY <2>2, <2>3, <3>2, <4>1, <4>3
      <4> QED
        BY <4>2, <4>3
    <3> QED
      BY <3>1, <3>2
  <2>5. Is(h, m + 1)
    BY <2>3, <2>4
  <2> HIDE DEF Is
  <2> QED
    BY <2>5
<1> HIDE DEF Built
<1>3. \A k \in 0..count : k \in Built
  BY <1>1, <1>2, SetInduction
<1>4. count \in Built
  BY <1>3
<1> QED
  BY <1>4 DEF Built, IsSum

(* A sum of some length is the last value of a function that adds share by  *)
(* share.                                                                   *)
LEMMA SumIsLast ==
    ASSUME NEW ops, NEW count \in Nat, NEW p
    PROVE  \E sum : /\ SponsoredSum(ops, count, p) = sum[count]
                    /\ sum[0] = 0
                    /\ \A k \in 0..(count - 1) : sum[k + 1] = sum[k] + Share(ops[k + 1], p)
<1> DEFINE sum == CHOOSE g : IsSum(g, ops, count, p)
<1>1. SponsoredSum(ops, count, p) = sum[count]
  BY DEF SponsoredSum, IsSum
<1>2. IsSum(sum, ops, count, p)
  BY SumExists
<1> HIDE DEF sum
<1>3. \A k \in 0..count : sum[k] = IF k = 0 THEN 0 ELSE sum[k - 1] + Share(ops[k], p)
  BY <1>2 DEF Share, IsSum
<1>4. sum[0] = 0
  BY <1>3
<1>5. ASSUME NEW k \in 0..(count - 1) PROVE sum[k + 1] = sum[k] + Share(ops[k + 1], p)
  <2>1. k + 1 \in 0..count /\ k + 1 # 0 /\ (k + 1) - 1 = k
    OBVIOUS
  <2>2. sum[k + 1] = sum[(k + 1) - 1] + Share(ops[k + 1], p)
    BY <1>3, <2>1
  <2> QED
    BY <2>1, <2>2
<1> QED
  BY <1>1, <1>4, <1>5

(* SponsoredSum adds up: nothing at first, then share by share. *)
LEMMA SumSteps ==
    ASSUME NEW ops, NEW p
    PROVE  /\ SponsoredSum(ops, 0, p) = 0
           /\ \A n \in Nat : SponsoredSum(ops, n + 1, p) =
                                SponsoredSum(ops, n, p) + Share(ops[n + 1], p)
<1>1. SponsoredSum(ops, 0, p) = 0
  BY SumIsLast
<1>2. ASSUME NEW n \in Nat
      PROVE  SponsoredSum(ops, n + 1, p) = SponsoredSum(ops, n, p) + Share(ops[n + 1], p)
  <2>1. PICK f : /\ SponsoredSum(ops, n, p) = f[n]
                 /\ f[0] = 0
                 /\ \A k \in 0..(n - 1) : f[k + 1] = f[k] + Share(ops[k + 1], p)
    BY SumIsLast
  <2>2. PICK g : /\ SponsoredSum(ops, n + 1, p) = g[n + 1]
                 /\ g[0] = 0
                 /\ \A k \in 0..((n + 1) - 1) : g[k + 1] = g[k] + Share(ops[k + 1], p)
    <3>1. n + 1 \in Nat
      OBVIOUS
    <3> QED
      BY <3>1, SumIsLast
  <2> DEFINE Same == {k \in Nat : f[k] = g[k]}
  <2>3. 0 \in Same
    BY <2>1, <2>2
  <2>4. ASSUME NEW k \in 0..(n - 1), k \in Same PROVE k + 1 \in Same
    <3>1. k \in 0..((n + 1) - 1) /\ k + 1 \in Nat
      OBVIOUS
    <3> QED
      BY <2>1, <2>2, <2>4, <3>1
  <2> HIDE DEF Same
  <2>5. \A k \in 0..n : k \in Same
    BY <2>3, <2>4, SetInduction
  <2>6. f[n] = g[n]
    BY <2>5 DEF Same
  <2>7. n \in 0..((n + 1) - 1)
    OBVIOUS
  <2> QED
    BY <2>1, <2>2, <2>6, <2>7
<1> QED
  BY <1>1, <1>2

(* Sums are natural numbers, grow with the list, and cover each share. *)
LEMMA SumBounds ==
    ASSUME NEW ops \in Seq(UserOps), NEW p
    PROVE  /\ \A k \in 0..Len(ops) : SponsoredSum(ops, k, p) \in Nat
           /\ \A i \in 0..Len(ops) : \A k \in i..Len(ops) :
                 SponsoredSum(ops, i, p) <= SponsoredSum(ops, k, p)
           /\ \A i \in 1..Len(ops) :
                 ops[i].paymaster = p => Prefund[ops[i]] <= SponsoredSum(ops, i, p)
<1> DEFINE S(k) == SponsoredSum(ops, k, p)
<1>0. Len(ops) \in Nat
  OBVIOUS
<1>1. \A k \in 1..Len(ops) : Share(ops[k], p) \in Nat
  BY BundleAssumption DEF Share
<1>2. S(0) = 0 /\ \A k \in Nat : S(k + 1) = S(k) + Share(ops[k + 1], p)
  BY SumSteps
<1> HIDE DEF S
<1>3. \A k \in 0..(Len(ops) - 1) : S(k + 1) = S(k) + Share(ops[k + 1], p)
                                   /\ Share(ops[k + 1], p) \in Nat
  BY <1>0, <1>1, <1>2
<1>4. \A k \in 0..Len(ops) : S(k) \in Nat
  <2> DEFINE Good == {k \in Nat : S(k) \in Nat}
  <2>1. 0 \in Good
    BY <1>2
  <2>2. ASSUME NEW k \in 0..(Len(ops) - 1), k \in Good PROVE k + 1 \in Good
    BY <1>3, <2>2
  <2> HIDE DEF Good
  <2>3. \A k \in 0..Len(ops) : k \in Good
    BY <1>0, <2>1, <2>2, SetInduction
  <2> QED
    BY <2>3 DEF Good
<1>5. ASSUME NEW i \in 0..Len(ops) PROVE \A k \in i..Len(ops) : S(i) <= S(k)
  <2> DEFINE Good == {k \in Nat : k >= i => S(i) <= S(k)}
  <2>1. 0 \in Good
    BY <1>4
  <2>2. ASSUME NEW k \in 0..(Len(ops) - 1), k \in Good PROVE k + 1 \in Good
    <3>1. CASE k + 1 = i
      BY <1>4, <3>1
    <3>2. CASE k + 1 > i
      <4>1. S(i) <= S(k)
        BY <1>0, <2>2, <3>2
      <4>2. S(i) \in Nat /\ S(k) \in Nat /\ S(k + 1) = S(k) + Share(ops[k + 1], p)
            /\ Share(ops[k + 1], p) \in Nat
        BY <1>0, <1>3, <1>4
      <4> QED
        BY <4>1, <4>2
    <3>3. CASE k + 1 < i
      BY <3>3
    <3> QED
      BY <1>0, <3>1, <3>2, <3>3
  <2> HIDE DEF Good
  <2>3. \A k \in 0..Len(ops) : k \in Good
    BY <1>0, <2>1, <2>2, SetInduction
  <2> QED
    BY <1>0, <2>3 DEF Good
<1>6. ASSUME NEW i \in 1..Len(ops), ops[i].paymaster = p PROVE Prefund[ops[i]] <= S(i)
  <2>1. i - 1 \in 0..(Len(ops) - 1) /\ (i - 1) + 1 = i
    BY <1>0
  <2>2. S(i) = S(i - 1) + Share(ops[i], p) /\ Share(ops[i], p) \in Nat /\ S(i - 1) \in Nat
    BY <1>0, <1>3, <1>4, <2>1
  <2>3. Share(ops[i], p) = Prefund[ops[i]]
    BY <1>6 DEF Share
  <2> QED
    BY <2>2, <2>3
<1> QED
  BY <1>4, <1>5, <1>6 DEF S

(* The whole sum is a natural number. *)
LEMMA SumIsNat ==
    ASSUME NEW ops \in Seq(UserOps), NEW p
    PROVE  SponsoredSum(ops, Len(ops), p) \in Nat
<1>1. Len(ops) \in 0..Len(ops)
  OBVIOUS
<1> QED
  BY <1>1, SumBounds

(* Taking one more operation adds its share. *)
LEMMA SumAppend ==
    ASSUME NEW ops \in Seq(UserOps), NEW op \in UserOps, NEW p
    PROVE  SponsoredSum(Append(ops, op), Len(ops) + 1, p) =
              SponsoredSum(ops, Len(ops), p) + Share(op, p)
<1> DEFINE more == Append(ops, op)
           Same == {k \in Nat : SponsoredSum(more, k, p) = SponsoredSum(ops, k, p)}
<1>0. Len(ops) \in Nat
  OBVIOUS
<1>1. more[Len(ops) + 1] = op /\ \A k \in 1..Len(ops) : more[k] = ops[k]
  OBVIOUS
<1> HIDE DEF more
<1>2. 0 \in Same
  BY SumSteps
<1>3. ASSUME NEW k \in 0..(Len(ops) - 1), k \in Same PROVE k + 1 \in Same
  <2>1. k + 1 \in 1..Len(ops) /\ k + 1 \in Nat /\ k \in Nat
    BY <1>0
  <2>2. /\ SponsoredSum(more, k + 1, p) = SponsoredSum(more, k, p) + Share(more[k + 1], p)
        /\ SponsoredSum(ops, k + 1, p) = SponsoredSum(ops, k, p) + Share(ops[k + 1], p)
    BY <2>1, SumSteps
  <2> QED
    BY <1>1, <1>3, <2>1, <2>2
<1> HIDE DEF Same
<1>4. \A k \in 0..Len(ops) : k \in Same
  BY <1>0, <1>2, <1>3, SetInduction
<1>5. SponsoredSum(more, Len(ops), p) = SponsoredSum(ops, Len(ops), p)
  BY <1>0, <1>4 DEF Same
<1>6. SponsoredSum(more, Len(ops) + 1, p) =
         SponsoredSum(more, Len(ops), p) + Share(more[Len(ops) + 1], p)
  BY <1>0, SumSteps
<1> QED
  BY <1>1, <1>5, <1>6 DEF more

(* A paymaster of none of the operations pays nothing. *)
LEMMA SumOfStranger ==
    ASSUME NEW ops \in Seq(UserOps), NEW p, \A i \in 1..Len(ops) : ops[i].paymaster # p
    PROVE  SponsoredSum(ops, Len(ops), p) = 0
<1> DEFINE Zero == {k \in Nat : SponsoredSum(ops, k, p) = 0}
<1>0. Len(ops) \in Nat
  OBVIOUS
<1>1. 0 \in Zero
  BY SumSteps
<1>2. ASSUME NEW k \in 0..(Len(ops) - 1), k \in Zero PROVE k + 1 \in Zero
  <2>1. k + 1 \in 1..Len(ops) /\ k \in Nat /\ k + 1 \in Nat
    BY <1>0
  <2>2. Share(ops[k + 1], p) = 0
    BY <2>1 DEF Share
  <2>3. SponsoredSum(ops, k + 1, p) = SponsoredSum(ops, k, p) + Share(ops[k + 1], p)
    BY <2>1, SumSteps
  <2> QED
    BY <1>2, <2>1, <2>2, <2>3
<1> HIDE DEF Zero
<1>3. \A k \in 0..Len(ops) : k \in Zero
  BY <1>0, <1>1, <1>2, SetInduction
<1> QED
  BY <1>0, <1>3 DEF Zero

---------------------------------------------------------------------------
(* WithoutBanned.                                                          *)

Purged(pool, e) == IF StatusIs(e.userOp, BANNED) THEN RemovedOp(pool, e.userOp) ELSE pool

IsPurge(left, pool, snapshot, first, last) ==
    left = [k \in (first - 1)..last |->
               IF k = first - 1 THEN pool
               ELSE IF StatusIs(snapshot[k].userOp, BANNED)
               THEN RemovedOp(left[k - 1], snapshot[k].userOp)
               ELSE left[k - 1]]

(* The recursive function of WithoutBanned exists. *)
LEMMA PurgeExists ==
    ASSUME NEW pool, NEW snapshot, NEW first \in Nat \ {0}, NEW n \in Nat
    PROVE  \E left : IsPurge(left, pool, snapshot, first, first - 1 + n)
<1> DEFINE Next1(left, k) == IF StatusIs(snapshot[k].userOp, BANNED)
                             THEN RemovedOp(left, snapshot[k].userOp) ELSE left
           Is(g, m) == g = [k \in (first - 1)..(first - 1 + m) |->
                               IF k = first - 1 THEN pool ELSE Next1(g[k - 1], k)]
           Built == {m \in Nat : \E g : Is(g, m)}
<1>1. 0 \in Built
  <2> DEFINE g == [k \in (first - 1)..(first - 1 + 0) |-> pool]
  <2>1. Is(g, 0)
    <3>1. (first - 1)..(first - 1 + 0) = {first - 1}
      OBVIOUS
    <3> HIDE DEF Next1
    <3> QED
      BY <3>1
  <2> QED
    BY <2>1
<1>2. ASSUME NEW m \in 0..(n - 1), m \in Built PROVE m + 1 \in Built
  <2>1. PICK g : Is(g, m)
    BY <1>2
  <2> HIDE DEF Next1
  <2> DEFINE a == first - 1
             z == first - 1 + m
             h == [k \in a..(z + 1) |-> IF k = z + 1 THEN Next1(g[z], z + 1) ELSE g[k]]
  <2>0. a \in Nat /\ z \in Nat /\ a <= z /\ a..z = (first - 1)..(first - 1 + m)
        /\ a..(z + 1) = (first - 1)..(first - 1 + (m + 1))
    OBVIOUS
  <2>2. \A k \in a..z : g[k] = IF k = a THEN pool ELSE Next1(g[k - 1], k)
    BY <2>1
  <2> HIDE DEF a, z
  <2>3. /\ h = [k \in a..(z + 1) |-> h[k]]
        /\ h[z + 1] = Next1(g[z], z + 1)
        /\ \A k \in a..(z + 1) : k # z + 1 => k \in a..z /\ h[k] = g[k]
    BY <2>0
  <2> HIDE DEF h
  <2>4. ASSUME NEW k \in a..(z + 1)
        PROVE  h[k] = IF k = a THEN pool ELSE Next1(h[k - 1], k)
    <3>1. CASE k = a
      BY <2>0, <2>2, <2>3, <3>1
    <3>2. CASE k # a
      <4>1. k - 1 \in a..(z + 1) /\ k - 1 # z + 1 /\ h[k - 1] = g[k - 1]
        BY <2>0, <2>3, <3>2
      <4>2. CASE k = z + 1
        <5>1. k - 1 = z
          BY <2>0, <4>2
        <5> QED
          BY <2>3, <3>2, <4>1, <4>2, <5>1
      <4>3. CASE k # z + 1
        BY <2>2, <2>3, <3>2, <4>1, <4>3
      <4> QED
        BY <4>2, <4>3
    <3> QED
      BY <3>1, <3>2
  <2>5. h = [k \in a..(z + 1) |-> IF k = a THEN pool ELSE Next1(h[k - 1], k)]
    BY <2>3, <2>4
  <2>6. Is(h, m + 1)
    BY <2>0, <2>5 DEF a
  <2>7. m + 1 \in Nat
    OBVIOUS
  <2> HIDE DEF Is
  <2> QED
    BY <2>6, <2>7
<1> HIDE DEF Built
<1>3. \A k \in 0..n : k \in Built
  BY <1>1, <1>2, SetInduction
<1>4. n \in Built
  BY <1>3
<1> QED
  BY <1>4 DEF Built, IsPurge

(* Taking the entries of banned entities out leaves less of the pool. *)
LEMMA WithoutBannedLeaves ==
    ASSUME NEW pool, PoolOK(pool), NEW snapshot,
           NEW first \in Nat \ {0}, NEW last \in Nat, first - 1 <= last
    PROVE  LeftOf(pool, WithoutBanned(pool, snapshot, first, last))
<1> DEFINE a == first - 1
           n == last - a
           left == CHOOSE g : IsPurge(g, pool, snapshot, first, last)
<1>0. a \in Nat /\ n \in Nat /\ a + n = last /\ first - 1 + n = last
  OBVIOUS
<1>1. WithoutBanned(pool, snapshot, first, last) = left[last]
  BY DEF WithoutBanned, IsPurge
<1>2. IsPurge(left, pool, snapshot, first, last)
  <2>1. \E g : IsPurge(g, pool, snapshot, first, first - 1 + n)
    BY <1>0, PurgeExists
  <2> HIDE DEF n
  <2> QED
    BY <1>0, <2>1
<1> HIDE DEF left
<1>3. \A k \in a..last : left[k] = IF k = a THEN pool ELSE Purged(left[k - 1], snapshot[k])
  BY <1>2 DEF IsPurge, Purged
<1> HIDE DEF a, n
<1>4. left[a] = pool
  BY <1>0, <1>3
<1>5. \A k \in 0..(n - 1) : left[a + (k + 1)] = Purged(left[a + k], snapshot[a + (k + 1)])
  <2> SUFFICES ASSUME NEW k \in 0..(n - 1)
               PROVE  left[a + (k + 1)] = Purged(left[a + k], snapshot[a + (k + 1)])
    OBVIOUS
  <2>1. a + (k + 1) \in a..last /\ a + (k + 1) # a /\ (a + (k + 1)) - 1 = a + k
    BY <1>0
  <2>2. left[a + (k + 1)] = Purged(left[(a + (k + 1)) - 1], snapshot[a + (k + 1)])
    BY <1>3, <2>1
  <2> QED
    BY <2>1, <2>2
<1> DEFINE Less == {k \in Nat : LeftOf(pool, left[a + k])}
<1>6. 0 \in Less
  <2>1. a + 0 = a
    BY <1>0
  <2> QED
    BY <1>4, <2>1, LeftOfItself
<1>7. ASSUME NEW k \in 0..(n - 1), k \in Less PROVE k + 1 \in Less
  <2>1. LeftOf(pool, left[a + k]) /\ PoolOK(left[a + k])
    BY <1>7 DEF LeftOf
  <2>2. left[a + (k + 1)] = Purged(left[a + k], snapshot[a + (k + 1)])
    BY <1>5
  <2>3. LeftOf(left[a + k], left[a + (k + 1)])
    BY <2>1, <2>2, RemovedOpLeaves, LeftOfItself DEF Purged
  <2>4. LeftOf(pool, left[a + (k + 1)])
    BY <2>1, <2>3, LeftOfTrans
  <2> QED
    BY <2>4
<1> HIDE DEF Less
<1>8. \A k \in 0..n : k \in Less
  BY <1>0, <1>6, <1>7, SetInduction
<1>9. LeftOf(pool, left[a + n])
  BY <1>0, <1>8 DEF Less
<1> QED
  BY <1>0, <1>1, <1>9

---------------------------------------------------------------------------
(* A bundle while it is built.                                             *)

SameLists(b, c) ==
    /\ c.snapshot = b.snapshot /\ c.bundle = b.bundle
    /\ c.paymasterDeposit = b.paymasterDeposit /\ c.totalGas = b.totalGas
    /\ c.at = b.at /\ c.quoted = b.quoted

(* A record of createBundle: all of its variables have a value. *)
FullBuild(b) ==
    b = [pc |-> b.pc, snapshot |-> b.snapshot, next |-> b.next, bundle |-> b.bundle,
         paymasterDeposit |-> b.paymasterDeposit, totalGas |-> b.totalGas,
         at |-> b.at, quoted |-> b.quoted]

(* An operation that may be in the bundle, whatever its paymaster. *)
Fine(b, op) ==
    /\ \E e \in ToSet(b.snapshot) : op = e.userOp
    /\ ~ ReadsKnownSender(b, op)
    /\ b.at = <<chain, failing>> => ~ Spent(op) /\ op \notin failing

(* The chain and the failing operations at the snapshot are of the past. *)
PastOK(at) ==
    /\ at = <<at[1], at[2]>>
    /\ Len(at[1]) \in Nat /\ Len(at[1]) <= Len(chain)
    /\ at[2] \subseteq failing

(* The deposits: what was quoted is what is left and what was taken. *)
DepositsOK(b) ==
    /\ DOMAIN b.quoted = DOMAIN b.paymasterDeposit /\ NoAddr \notin DOMAIN b.quoted
    /\ b.quoted \in [DOMAIN b.quoted -> Nat]
    /\ b.paymasterDeposit \in [DOMAIN b.paymasterDeposit -> Nat]
    /\ \A p \in DOMAIN b.quoted :
          b.paymasterDeposit[p] + SponsoredSum(b.bundle, Len(b.bundle), p) = b.quoted[p]

(* The bundle so far. *)
TakenOK(b) ==
    /\ b.snapshot \in Seq(PoolEntry)
    /\ b.bundle \in Seq(UserOps)
    /\ b.totalGas \in 0..MaxBundleGas
    /\ \A i \in DOMAIN b.bundle :
          /\ Fine(b, b.bundle[i])
          /\ b.bundle[i].paymaster # NoAddr => b.bundle[i].paymaster \in DOMAIN b.quoted
    /\ \A i, j \in DOMAIN b.bundle : b.bundle[i].sender = b.bundle[j].sender => i = j

LoopOK(b) == FullBuild(b) /\ PastOK(b.at) /\ DepositsOK(b) /\ TakenOK(b)

AtEntry(b) == b.next \in 1..Len(b.snapshot)

OpOf(b) == b.snapshot[b.next].userOp

(* What holds of the record build, wherever sendNextBundle stands. *)
BuildInv(b) ==
    \/ b.pc \in {"idle", "scan"}
    \/ /\ LoopOK(b) /\ AtEntry(b)
       /\ \/ b.pc = "send"
          \/ b.pc = "validate" /\ OpOf(b).sender \notin SendersOf(b)
          \/ /\ b.pc = "balance" /\ OpOf(b).sender \notin SendersOf(b)
             /\ Fine(b, OpOf(b))
             /\ OpOf(b).paymaster # NoAddr /\ OpOf(b).paymaster \notin DOMAIN b.quoted
             /\ b.totalGas + Gas[OpOf(b)] <= MaxBundleGas

(* Setting pc, or pc and next, leaves the rest of the record. *)
LEMMA SetPc ==
    ASSUME NEW b, FullBuild(b), NEW pc
    PROVE  LET c == [b EXCEPT !.pc = pc]
           IN  FullBuild(c) /\ c.pc = pc /\ c.next = b.next /\ SameLists(b, c)
<1>1. PICK x, s, n, l, d, t, a, q :
         b = [pc |-> x, snapshot |-> s, next |-> n, bundle |-> l, paymasterDeposit |-> d,
              totalGas |-> t, at |-> a, quoted |-> q]
  BY DEF FullBuild
<1>2. [b EXCEPT !.pc = pc] =
         [pc |-> pc, snapshot |-> s, next |-> n, bundle |-> l, paymasterDeposit |-> d,
          totalGas |-> t, at |-> a, quoted |-> q]
  BY <1>1
<1> QED
  BY <1>1, <1>2 DEF FullBuild, SameLists

(* The same for both fields. *)
LEMMA SetPcNext ==
    ASSUME NEW b, FullBuild(b), NEW pc, NEW next
    PROVE  LET c == [b EXCEPT !.pc = pc, !.next = next]
           IN  FullBuild(c) /\ c.pc = pc /\ c.next = next /\ SameLists(b, c)
<1>1. PICK x, s, n, l, d, t, a, q :
         b = [pc |-> x, snapshot |-> s, next |-> n, bundle |-> l, paymasterDeposit |-> d,
              totalGas |-> t, at |-> a, quoted |-> q]
  BY DEF FullBuild
<1> DEFINE c == [b EXCEPT !.pc = pc]
<1>2. /\ [b EXCEPT !.pc = pc, !.next = next] = [c EXCEPT !.next = next]
      /\ c = [pc |-> pc, snapshot |-> s, next |-> n, bundle |-> l, paymasterDeposit |-> d,
              totalGas |-> t, at |-> a, quoted |-> q]
  BY <1>1
<1> HIDE DEF c
<1>3. [c EXCEPT !.next = next] =
         [pc |-> pc, snapshot |-> s, next |-> next, bundle |-> l, paymasterDeposit |-> d,
          totalGas |-> t, at |-> a, quoted |-> q]
  BY <1>2
<1> QED
  BY <1>1, <1>2, <1>3 DEF FullBuild, SameLists

(* What is true of the lists does not depend on pc and next. *)
LEMMA LoopIsOfLists ==
    ASSUME NEW b, NEW c, LoopOK(b), FullBuild(c), SameLists(b, c)
    PROVE  /\ LoopOK(c)
           /\ SendersOf(c) = SendersOf(b)
           /\ \A op : Fine(b, op) => Fine(c, op)
<1>1. /\ c.snapshot = b.snapshot /\ c.bundle = b.bundle
      /\ c.paymasterDeposit = b.paymasterDeposit /\ c.totalGas = b.totalGas
      /\ c.at = b.at /\ c.quoted = b.quoted
  BY DEF SameLists
<1>2. SendersOf(c) = SendersOf(b) /\ KnownSenders(c) = KnownSenders(b)
  BY <1>1 DEF SendersOf, KnownSenders
<1>3. \A op : Fine(b, op) => Fine(c, op)
  BY <1>1, <1>2, Zenon DEF Fine, ReadsKnownSender
<1>4. DepositsOK(c)
  BY <1>1, Zenon DEF LoopOK, DepositsOK
<1>5. TakenOK(c)
  BY <1>1, <1>3, Zenon DEF LoopOK, TakenOK
<1>6. PastOK(c.at)
  BY <1>1 DEF LoopOK
<1> QED
  BY <1>2, <1>3, <1>4, <1>5, <1>6 DEF LoopOK

(* The loop is over. *)
LEMMA FinishedKeeps ==
    ASSUME NEW b, LoopOK(b), b.bundle = <<>> \/ AtEntry(b)
    PROVE  BuildInv(Finished(b))
<1>1. CASE b.bundle = <<>>
  <2>1. Finished(b) = [pc |-> "idle"]
    BY <1>1 DEF Finished, Idle
  <2> QED
    BY <2>1 DEF BuildInv
<1>2. CASE b.bundle # <<>>
  <2> DEFINE c == [b EXCEPT !.pc = "send"]
  <2>1. Finished(b) = c
    BY <1>2 DEF Finished
  <2>2. FullBuild(c) /\ c.pc = "send" /\ c.next = b.next /\ SameLists(b, c)
    BY SetPc DEF LoopOK
  <2> HIDE DEF c
  <2>3. LoopOK(c) /\ AtEntry(c)
    BY <1>2, <2>2, LoopIsOfLists DEF AtEntry, SameLists
  <2> QED
    BY <2>1, <2>2, <2>3 DEF BuildInv
<1> QED
  BY <1>1, <1>2

(* From an entry on, or from the first: what is passed over changes nothing *)
(* of the bundle, and the entry that the loop stops at has a new sender.    *)
LEMMA AdvanceKeeps ==
    ASSUME NEW b, LoopOK(b), b.bundle = <<>> \/ AtEntry(b),
           NEW next \in Nat \ {0}, next <= Len(b.snapshot) + 1, NEW pool, PoolOK(pool)
    PROVE  LET r == Advance(pool, b, next)
           IN  LeftOf(pool, r.pool) /\ BuildInv(r.build)
<1> DEFINE stops == {k \in next..Len(b.snapshot) : ~ PassedOver(b, b.snapshot[k].userOp)}
           stop == IF stops = {} THEN Len(b.snapshot) + 1 ELSE Min(stops)
           rpool == WithoutBanned(pool, b.snapshot, next, stop - 1)
           rbuild == IF stops = {} THEN Finished(b)
                     ELSE [b EXCEPT !.pc = "validate", !.next = stop]
<1>0. Len(b.snapshot) \in Nat /\ FullBuild(b)
  BY DEF LoopOK, TakenOK
<1>1. Advance(pool, b, next) = [pool |-> rpool, build |-> rbuild]
  BY DEF Advance
<1>2. stops \in SUBSET Nat
  BY <1>0
<1>3. /\ stops = {} => stop = Len(b.snapshot) + 1
      /\ stops # {} => stop \in stops
  BY <1>2, LeastElement
<1>4. stop \in Nat /\ stop - 1 \in Nat /\ next - 1 <= stop - 1
  BY <1>0, <1>3
<1> HIDE DEF stop
<1>5. LeftOf(pool, rpool)
  BY <1>4, WithoutBannedLeaves
<1>6. CASE stops = {}
  <2>1. rbuild = Finished(b)
    BY <1>6
  <2> HIDE DEF rbuild
  <2> QED
    BY <1>1, <1>5, <2>1, FinishedKeeps
<1>7. CASE stops # {}
  <2> DEFINE c == [b EXCEPT !.pc = "validate", !.next = stop]
  <2>1. rbuild = c
    BY <1>7
  <2>2. FullBuild(c) /\ c.pc = "validate" /\ c.next = stop /\ SameLists(b, c)
    BY <1>0, SetPcNext
  <2> HIDE DEF c
  <2>3. LoopOK(c) /\ SendersOf(c) = SendersOf(b)
    BY <2>2, LoopIsOfLists
  <2>4. stop \in 1..Len(b.snapshot) /\ ~ PassedOver(b, b.snapshot[stop].userOp)
    BY <1>3, <1>7
  <2>5. AtEntry(c) /\ OpOf(c).sender \notin SendersOf(c)
    BY <2>2, <2>3, <2>4 DEF AtEntry, OpOf, SameLists, PassedOver
  <2>6. BuildInv(c)
    BY <2>2, <2>3, <2>5 DEF BuildInv
  <2> QED
    BY <1>1, <1>5, <2>1, <2>6
<1> QED
  BY <1>6, <1>7

(* The entry is passed over. *)
LEMMA SkipKeeps ==
    ASSUME NEW b, LoopOK(b), AtEntry(b), NEW pool, PoolOK(pool)
    PROVE  LET r == Advance(pool, b, b.next + 1)
           IN  LeftOf(pool, r.pool) /\ BuildInv(r.build)
<1>1. b.next + 1 \in Nat \ {0} /\ b.next + 1 <= Len(b.snapshot) + 1
  BY DEF AtEntry, LoopOK, TakenOK
<1> QED
  BY <1>1, AdvanceKeeps

(* One more operation: its paymaster, if it has one, has paid for it.       *)
LEMMA TakenGrows ==
    ASSUME NEW b, LoopOK(b), NEW op \in UserOps, Fine(b, op), op.sender \notin SendersOf(b),
           b.totalGas + Gas[op] <= MaxBundleGas,
           NEW c, FullBuild(c), c.snapshot = b.snapshot, c.at = b.at,
           c.bundle = Append(b.bundle, op), c.totalGas = b.totalGas + Gas[op],
           DOMAIN b.quoted \subseteq DOMAIN c.quoted, DepositsOK(c),
           op.paymaster # NoAddr => op.paymaster \in DOMAIN c.quoted
    PROVE  LoopOK(c)
<1>1. /\ b.bundle \in Seq(UserOps) /\ b.snapshot \in Seq(PoolEntry)
      /\ b.totalGas \in 0..MaxBundleGas /\ PastOK(b.at)
  BY DEF LoopOK, TakenOK
<1>2. Gas[op] \in Nat /\ MaxBundleGas \in Nat
  BY BundleAssumption
<1>3. /\ c.bundle \in Seq(UserOps) /\ Len(b.bundle) \in Nat
      /\ DOMAIN b.bundle = 1..Len(b.bundle) /\ DOMAIN c.bundle = 1..(Len(b.bundle) + 1)
      /\ c.bundle[Len(b.bundle) + 1] = op
      /\ \A i \in 1..Len(b.bundle) : c.bundle[i] = b.bundle[i]
  BY <1>1
<1>4. KnownSenders(c) = KnownSenders(b)
  BY DEF KnownSenders
<1>5. \A o : Fine(b, o) => Fine(c, o)
  BY <1>4, Zenon DEF Fine, ReadsKnownSender
<1>6. \A i \in DOMAIN b.bundle :
         /\ Fine(b, b.bundle[i]) /\ b.bundle[i].sender # op.sender
         /\ b.bundle[i].paymaster # NoAddr => b.bundle[i].paymaster \in DOMAIN b.quoted
  BY DEF LoopOK, TakenOK, SendersOf
<1>7. ASSUME NEW i \in DOMAIN c.bundle
      PROVE  /\ Fine(c, c.bundle[i])
             /\ c.bundle[i].paymaster # NoAddr => c.bundle[i].paymaster \in DOMAIN c.quoted
  <2>1. CASE i \in DOMAIN b.bundle
    BY <1>3, <1>5, <1>6, <2>1
  <2>2. CASE i = Len(b.bundle) + 1
    BY <1>3, <1>5, <2>2
  <2> QED
    BY <1>3, <2>1, <2>2
<1>8. ASSUME NEW i \in DOMAIN c.bundle, NEW j \in DOMAIN c.bundle,
             c.bundle[i].sender = c.bundle[j].sender
      PROVE  i = j
  <2>1. \A k \in DOMAIN c.bundle : k \in DOMAIN b.bundle \/ k = Len(b.bundle) + 1
    BY <1>3
  <2>2. \A k, l \in DOMAIN b.bundle : b.bundle[k].sender = b.bundle[l].sender => k = l
    BY DEF LoopOK, TakenOK
  <2>3. \A k \in DOMAIN b.bundle : c.bundle[k] = b.bundle[k]
    BY <1>3
  <2> QED
    BY <1>3, <1>6, <1>8, <2>1, <2>2, <2>3
<1>9. c.totalGas \in 0..MaxBundleGas
  BY <1>1, <1>2
<1>10. TakenOK(c)
  BY <1>1, <1>3, <1>7, <1>8, <1>9 DEF TakenOK
<1> QED
  BY <1>1, <1>10 DEF LoopOK

(* The record with one more operation. *)
LEMMA SetTaken ==
    ASSUME NEW b, FullBuild(b), NEW op
    PROVE  LET c == [b EXCEPT !.bundle = Append(@, op), !.totalGas = @ + Gas[op]]
           IN  /\ FullBuild(c) /\ c.next = b.next /\ c.snapshot = b.snapshot
               /\ c.bundle = Append(b.bundle, op) /\ c.totalGas = b.totalGas + Gas[op]
               /\ c.paymasterDeposit = b.paymasterDeposit /\ c.at = b.at /\ c.quoted = b.quoted
<1>1. PICK x, s, n, l, d, t, a, q :
         b = [pc |-> x, snapshot |-> s, next |-> n, bundle |-> l, paymasterDeposit |-> d,
              totalGas |-> t, at |-> a, quoted |-> q]
  BY DEF FullBuild
<1>2. PICK l2, t2 : l2 = Append(l, op) /\ t2 = t + Gas[op]
  OBVIOUS
<1>3. b.bundle = l /\ b.totalGas = t
  BY <1>1
<1> DEFINE c == [b EXCEPT !.bundle = l2]
<1>4. c = [pc |-> x, snapshot |-> s, next |-> n, bundle |-> l2, paymasterDeposit |-> d,
           totalGas |-> t, at |-> a, quoted |-> q]
  BY <1>1
<1>5. [b EXCEPT !.bundle = Append(@, op), !.totalGas = @ + Gas[op]] = [c EXCEPT !.totalGas = t2]
  BY <1>2, <1>3
<1> HIDE DEF c
<1>6. [c EXCEPT !.totalGas = t2] =
         [pc |-> x, snapshot |-> s, next |-> n, bundle |-> l2, paymasterDeposit |-> d,
          totalGas |-> t2, at |-> a, quoted |-> q]
  BY <1>4
<1> QED
  BY <1>1, <1>2, <1>3, <1>5, <1>6 DEF FullBuild

(* The next operation, which has no paymaster, is taken. *)
LEMMA TakeUnsponsored ==
    ASSUME NEW b, LoopOK(b), AtEntry(b), PoolOK(Pool), NEW op \in UserOps, Fine(b, op),
           op.sender \notin SendersOf(b), b.totalGas + Gas[op] <= MaxBundleGas,
           op.paymaster = NoAddr
    PROVE  LET r == Take(b, op)
           IN  LeftOf(Pool, r.pool) /\ BuildInv(r.build)
<1> DEFINE c == [b EXCEPT !.bundle = Append(@, op), !.totalGas = @ + Gas[op]]
<1>1. Take(b, op) = Advance(Pool, c, b.next + 1)
  BY DEF Take
<1>2. /\ FullBuild(c) /\ c.next = b.next /\ c.snapshot = b.snapshot
      /\ c.bundle = Append(b.bundle, op) /\ c.totalGas = b.totalGas + Gas[op]
      /\ c.paymasterDeposit = b.paymasterDeposit /\ c.at = b.at /\ c.quoted = b.quoted
  BY SetTaken DEF LoopOK
<1> HIDE DEF c
<1>3. DepositsOK(b) /\ b.bundle \in Seq(UserOps) /\ Len(c.bundle) = Len(b.bundle) + 1
  BY <1>2 DEF LoopOK, TakenOK
<1>4. ASSUME NEW p \in DOMAIN b.quoted
      PROVE  b.paymasterDeposit[p] + SponsoredSum(c.bundle, Len(c.bundle), p) = b.quoted[p]
  <2>1. SponsoredSum(c.bundle, Len(c.bundle), p) =
           SponsoredSum(b.bundle, Len(b.bundle), p) + Share(op, p)
    BY <1>2, <1>3, SumAppend
  <2>2. Share(op, p) = 0
    BY <1>3 DEF Share, DepositsOK
  <2>3. /\ SponsoredSum(b.bundle, Len(b.bundle), p) \in Nat
        /\ b.paymasterDeposit[p] + SponsoredSum(b.bundle, Len(b.bundle), p) = b.quoted[p]
    BY <1>3, SumIsNat DEF DepositsOK
  <2> QED
    BY <2>1, <2>2, <2>3
<1>5. DepositsOK(c)
  BY <1>2, <1>3, <1>4, Zenon DEF DepositsOK
<1>6. LoopOK(c)
  BY <1>2, <1>5, TakenGrows
<1>7. AtEntry(c)
  BY <1>2 DEF AtEntry
<1> QED
  BY <1>1, <1>2, <1>6, <1>7, SkipKeeps

(* The record with a share taken off a deposit, and one more operation. *)
LEMMA SetCharged ==
    ASSUME NEW b, FullBuild(b), NEW op, NEW p, NEW fee
    PROVE  LET d == [b EXCEPT !.paymasterDeposit[p] = @ - fee]
           IN  /\ FullBuild(d) /\ d.next = b.next /\ d.snapshot = b.snapshot
               /\ d.bundle = b.bundle /\ d.totalGas = b.totalGas
               /\ d.paymasterDeposit = [b.paymasterDeposit EXCEPT ![p] = @ - fee]
               /\ d.at = b.at /\ d.quoted = b.quoted
<1>1. PICK x, s, n, l, d, t, a, q :
         b = [pc |-> x, snapshot |-> s, next |-> n, bundle |-> l, paymasterDeposit |-> d,
              totalGas |-> t, at |-> a, quoted |-> q]
  BY DEF FullBuild
<1>2. PICK d2 : d2 = [b.paymasterDeposit EXCEPT ![p] = @ - fee]
  OBVIOUS
<1>3. [b EXCEPT !.paymasterDeposit[p] = @ - fee] = [b EXCEPT !.paymasterDeposit = d2]
  BY <1>2
<1>4. [b EXCEPT !.paymasterDeposit = d2] =
         [pc |-> x, snapshot |-> s, next |-> n, bundle |-> l, paymasterDeposit |-> d2,
          totalGas |-> t, at |-> a, quoted |-> q]
  BY <1>1
<1> QED
  BY <1>1, <1>2, <1>3, <1>4 DEF FullBuild

(* The next operation, whose paymaster's deposit is known, is taken or, if  *)
(* what is left does not cover it, passed over.                             *)
LEMMA SponsorKeeps ==
    ASSUME NEW b, LoopOK(b), AtEntry(b), PoolOK(Pool), NEW op \in UserOps, Fine(b, op),
           op.sender \notin SendersOf(b), b.totalGas + Gas[op] <= MaxBundleGas,
           op.paymaster \in DOMAIN b.paymasterDeposit
    PROVE  LET r == Sponsor(b, op)
           IN  LeftOf(Pool, r.pool) /\ BuildInv(r.build)
<1> DEFINE pm == op.paymaster
<1>0. DepositsOK(b) /\ b.bundle \in Seq(UserOps) /\ FullBuild(b)
  BY DEF LoopOK, TakenOK
<1>1. Prefund[op] \in Nat
  BY BundleAssumption
<1>2. CASE b.paymasterDeposit[pm] < Prefund[op]
  <2>1. Sponsor(b, op) = Advance(Pool, b, b.next + 1)
    BY <1>2 DEF Sponsor, Skip
  <2> QED
    BY <2>1, SkipKeeps
<1>3. CASE ~ (b.paymasterDeposit[pm] < Prefund[op])
  <2> DEFINE d == [b EXCEPT !.paymasterDeposit[pm] = @ - Prefund[op]]
             c == [d EXCEPT !.bundle = Append(@, op), !.totalGas = @ + Gas[op]]
  <2>1. /\ FullBuild(d) /\ d.next = b.next /\ d.snapshot = b.snapshot
        /\ d.bundle = b.bundle /\ d.totalGas = b.totalGas
        /\ d.paymasterDeposit = [b.paymasterDeposit EXCEPT ![pm] = @ - Prefund[op]]
        /\ d.at = b.at /\ d.quoted = b.quoted
    BY <1>0, SetCharged
  <2>2. Sponsor(b, op) = Advance(Pool, c, d.next + 1)
    BY <1>3 DEF Sponsor, Take
  <2> HIDE DEF d
  <2>3. /\ FullBuild(c) /\ c.next = b.next /\ c.snapshot = b.snapshot
        /\ c.bundle = Append(b.bundle, op) /\ c.totalGas = b.totalGas + Gas[op]
        /\ c.paymasterDeposit = d.paymasterDeposit /\ c.at = b.at /\ c.quoted = b.quoted
    <3>1. /\ FullBuild(c) /\ c.next = d.next /\ c.snapshot = d.snapshot
          /\ c.bundle = Append(d.bundle, op) /\ c.totalGas = d.totalGas + Gas[op]
          /\ c.paymasterDeposit = d.paymasterDeposit /\ c.at = d.at /\ c.quoted = d.quoted
      BY <2>1, SetTaken
    <3> HIDE DEF c
    <3> QED
      BY <2>1, <3>1
  <2> HIDE DEF c
  <2>4. /\ DOMAIN c.paymasterDeposit = DOMAIN b.paymasterDeposit
        /\ \A p \in DOMAIN b.paymasterDeposit :
              c.paymasterDeposit[p] = IF p = pm THEN b.paymasterDeposit[p] - Prefund[op]
                                      ELSE b.paymasterDeposit[p]
        /\ c.paymasterDeposit = [p \in DOMAIN c.paymasterDeposit |-> c.paymasterDeposit[p]]
    BY <2>1, <2>3
  <2>5. \A p \in DOMAIN b.paymasterDeposit : b.paymasterDeposit[p] \in Nat
    BY <1>0 DEF DepositsOK
  <2>6. c.paymasterDeposit \in [DOMAIN c.paymasterDeposit -> Nat]
    BY <1>1, <1>3, <2>4, <2>5
  <2>7. ASSUME NEW p \in DOMAIN b.quoted
        PROVE  c.paymasterDeposit[p] + SponsoredSum(c.bundle, Len(c.bundle), p) = b.quoted[p]
    <3>1. Len(c.bundle) = Len(b.bundle) + 1
      BY <1>0, <2>3
    <3>2. SponsoredSum(c.bundle, Len(c.bundle), p) =
             SponsoredSum(b.bundle, Len(b.bundle), p) + Share(op, p)
      BY <1>0, <2>3, <3>1, SumAppend
    <3>3. /\ SponsoredSum(b.bundle, Len(b.bundle), p) \in Nat
          /\ b.paymasterDeposit[p] + SponsoredSum(b.bundle, Len(b.bundle), p) = b.quoted[p]
          /\ b.paymasterDeposit[p] \in Nat /\ p \in DOMAIN b.paymasterDeposit
      BY <1>0, SumIsNat DEF DepositsOK
    <3>4. c.paymasterDeposit[p] = b.paymasterDeposit[p] - Share(op, p) /\ Share(op, p) \in Nat
      BY <1>1, <2>4, <3>3 DEF Share
    <3> QED
      BY <3>2, <3>3, <3>4
  <2>8. DepositsOK(c)
    BY <1>0, <2>3, <2>4, <2>6, <2>7, Zenon DEF DepositsOK
  <2>9. LoopOK(c)
    BY <1>0, <2>3, <2>8, TakenGrows DEF DepositsOK
  <2>10. AtEntry(c)
    BY <2>3 DEF AtEntry
  <2> QED
    BY <2>1, <2>2, <2>3, <2>9, <2>10, SkipKeeps
<1> QED
  BY <1>2, <1>3

(* The entry where the loop stands. *)
LEMMA EntryOfLoop ==
    ASSUME NEW b, LoopOK(b), AtEntry(b)
    PROVE  OpOf(b) \in UserOps /\ \E e \in ToSet(b.snapshot) : OpOf(b) = e.userOp
<1>1. b.snapshot \in Seq(PoolEntry) /\ b.next \in DOMAIN b.snapshot
  BY DEF LoopOK, TakenOK, AtEntry
<1>2. b.snapshot[b.next] \in PoolEntry /\ b.snapshot[b.next] \in ToSet(b.snapshot)
  BY <1>1 DEF ToSet
<1> QED
  BY <1>2, EntryFields DEF OpOf

(* After a validation that passed. *)
LEMMA AcceptedKeeps ==
    ASSUME NEW b, LoopOK(b), AtEntry(b), OpOf(b).sender \notin SendersOf(b),
           Validates(OpOf(b)), PoolOK(Pool)
    PROVE  LET r == Accepted(b, OpOf(b))
           IN  LeftOf(Pool, r.pool) /\ BuildInv(r.build)
<1> DEFINE op == OpOf(b)
<1>0. op \in UserOps /\ \E e \in ToSet(b.snapshot) : op = e.userOp
  BY EntryOfLoop
<1>1. DepositsOK(b) /\ FullBuild(b) /\ LeftOf(Pool, Pool)
  BY LeftOfItself DEF LoopOK
<1>2. CASE ReadsKnownSender(b, op)
  <2>1. Accepted(b, op) = Advance(Pool, b, b.next + 1)
    BY <1>2 DEF Accepted, Skip
  <2> QED
    BY <2>1, SkipKeeps
<1>3. CASE ~ ReadsKnownSender(b, op) /\ b.totalGas + Gas[op] > MaxBundleGas
  <2>1. Accepted(b, op) = [pool |-> Pool, build |-> Finished(b)]
    BY <1>3 DEF Accepted
  <2>2. BuildInv(Finished(b))
    BY FinishedKeeps
  <2> QED
    BY <1>1, <2>1, <2>2
<1>4. CASE ~ ReadsKnownSender(b, op) /\ ~ (b.totalGas + Gas[op] > MaxBundleGas)
  <2>1. Fine(b, op)
    BY <1>0, <1>4 DEF Fine, Validates
  <2>2. b.totalGas \in Nat /\ MaxBundleGas \in Nat /\ Gas[op] \in Nat
    BY <1>0, BundleAssumption DEF LoopOK, TakenOK
  <2>3. b.totalGas + Gas[op] <= MaxBundleGas
    BY <1>4, <2>2
  <2>4. CASE op.paymaster = NoAddr
    <3>1. Accepted(b, op) = Take(b, op)
      BY <1>4, <2>4 DEF Accepted
    <3> HIDE DEF op
    <3>2. LeftOf(Pool, Take(b, op).pool) /\ BuildInv(Take(b, op).build)
      BY <1>0, <2>1, <2>3, <2>4, TakeUnsponsored DEF op
    <3> QED
      BY <3>1, <3>2 DEF op
  <2>5. CASE op.paymaster # NoAddr /\ op.paymaster \in DOMAIN b.paymasterDeposit
    <3>1. Accepted(b, op) = Sponsor(b, op)
      BY <1>4, <2>5 DEF Accepted
    <3> HIDE DEF op
    <3>2. LeftOf(Pool, Sponsor(b, op).pool) /\ BuildInv(Sponsor(b, op).build)
      BY <1>0, <2>1, <2>3, <2>5, SponsorKeeps DEF op
    <3> QED
      BY <3>1, <3>2 DEF op
  <2>6. CASE op.paymaster # NoAddr /\ op.paymaster \notin DOMAIN b.paymasterDeposit
    <3> DEFINE c == [b EXCEPT !.pc = "balance"]
    <3>1. Accepted(b, op) = [pool |-> Pool, build |-> c]
      BY <1>4, <2>6 DEF Accepted
    <3>2. FullBuild(c) /\ c.pc = "balance" /\ c.next = b.next /\ SameLists(b, c)
      BY <1>1, SetPc
    <3> HIDE DEF c
    <3>3. LoopOK(c) /\ SendersOf(c) = SendersOf(b) /\ Fine(c, op)
      BY <2>1, <3>2, LoopIsOfLists
    <3>4. OpOf(c) = op /\ AtEntry(c) /\ c.totalGas = b.totalGas /\ c.quoted = b.quoted
      BY <3>2 DEF OpOf, AtEntry, SameLists
    <3>5. op.paymaster \notin DOMAIN c.quoted
      BY <1>1, <2>6, <3>4 DEF DepositsOK
    <3>6. BuildInv(c)
      BY <2>3, <2>6, <3>2, <3>3, <3>4, <3>5 DEF BuildInv
    <3> QED
      BY <1>1, <3>1, <3>6
  <2> QED
    BY <2>4, <2>5, <2>6
<1> QED
  BY <1>2, <1>3, <1>4

(* The record with the answer of balanceOf. *)
WithAnswer(b, d, q) == [b EXCEPT !.paymasterDeposit = d, !.quoted = q]

(* It has the other fields of the record. *)
LEMMA SetQuoted ==
    ASSUME NEW b, FullBuild(b), NEW d2, NEW q2
    PROVE  LET c == WithAnswer(b, d2, q2)
           IN  /\ FullBuild(c) /\ c.next = b.next /\ c.snapshot = b.snapshot
               /\ c.bundle = b.bundle /\ c.totalGas = b.totalGas /\ c.at = b.at
               /\ c.paymasterDeposit = d2 /\ c.quoted = q2
<1>1. PICK x, s, n, l, d, t, a, q :
         b = [pc |-> x, snapshot |-> s, next |-> n, bundle |-> l, paymasterDeposit |-> d,
              totalGas |-> t, at |-> a, quoted |-> q]
  BY DEF FullBuild
<1> DEFINE e == [b EXCEPT !.paymasterDeposit = d2]
<1>2. e = [pc |-> x, snapshot |-> s, next |-> n, bundle |-> l, paymasterDeposit |-> d2,
           totalGas |-> t, at |-> a, quoted |-> q]
  BY <1>1
<1>3. WithAnswer(b, d2, q2) = [e EXCEPT !.quoted = q2]
  BY DEF WithAnswer
<1> HIDE DEF e
<1>4. WithAnswer(b, d2, q2) =
         [pc |-> x, snapshot |-> s, next |-> n, bundle |-> l, paymasterDeposit |-> d2,
          totalGas |-> t, at |-> a, quoted |-> q2]
  BY <1>2, <1>3
<1> QED
  BY <1>1, <1>4 DEF FullBuild

(* balanceOf answered: no operation of the bundle has this paymaster yet. *)
LEMMA BalanceKeeps ==
    ASSUME NEW b, BuildInv(b), b.pc = "balance", NEW v \in Nat, PoolOK(Pool)
    PROVE  LET p == OpOf(b).paymaster
               c == [b EXCEPT !.paymasterDeposit = Put(@, p, v), !.quoted = Put(@, p, v)]
               r == Sponsor(c, OpOf(b))
           IN  LeftOf(Pool, r.pool) /\ BuildInv(r.build)
<1> DEFINE op == OpOf(b)
           p == op.paymaster
           c == [b EXCEPT !.paymasterDeposit = Put(@, p, v), !.quoted = Put(@, p, v)]
<1>1. /\ LoopOK(b) /\ AtEntry(b) /\ op.sender \notin SendersOf(b) /\ Fine(b, op)
      /\ p # NoAddr /\ p \notin DOMAIN b.quoted /\ b.totalGas + Gas[op] <= MaxBundleGas
  BY DEF BuildInv
<1>2. op \in UserOps
  BY <1>1, EntryOfLoop
<1> HIDE DEF p
<1>3. /\ FullBuild(c) /\ c.next = b.next /\ c.snapshot = b.snapshot
      /\ c.bundle = b.bundle /\ c.totalGas = b.totalGas /\ c.at = b.at
      /\ c.paymasterDeposit = Put(b.paymasterDeposit, p, v) /\ c.quoted = Put(b.quoted, p, v)
  <2>1. FullBuild(b)
    BY <1>1 DEF LoopOK
  <2>2. c = WithAnswer(b, Put(b.paymasterDeposit, p, v), Put(b.quoted, p, v))
    BY DEF WithAnswer
  <2> HIDE DEF c
  <2> QED
    BY <2>1, <2>2, SetQuoted
<1> HIDE DEF c, op
<1>4. DepositsOK(b) /\ TakenOK(b) /\ PastOK(b.at) /\ b.bundle \in Seq(UserOps)
  BY <1>1 DEF LoopOK, TakenOK
<1>5. /\ DOMAIN c.quoted = DOMAIN b.quoted \cup {p}
      /\ DOMAIN c.paymasterDeposit = DOMAIN b.quoted \cup {p}
      /\ c.quoted = [q \in DOMAIN c.quoted |-> c.quoted[q]]
      /\ c.paymasterDeposit = [q \in DOMAIN c.paymasterDeposit |-> c.paymasterDeposit[q]]
      /\ \A q \in DOMAIN b.quoted \cup {p} :
            /\ c.quoted[q] = IF q = p THEN v ELSE b.quoted[q]
            /\ c.paymasterDeposit[q] = IF q = p THEN v ELSE b.paymasterDeposit[q]
  BY <1>3, <1>4 DEF Put, DepositsOK
<1>6. SponsoredSum(b.bundle, Len(b.bundle), p) = 0
  <2>1. \A i \in 1..Len(b.bundle) : b.bundle[i].paymaster # p
    BY <1>1, <1>4 DEF TakenOK
  <2> QED
    BY <1>4, <2>1, SumOfStranger
<1>7. DepositsOK(c)
  <2>1. \A q \in DOMAIN b.quoted : b.quoted[q] \in Nat /\ b.paymasterDeposit[q] \in Nat
    BY <1>4 DEF DepositsOK
  <2>2. \A q \in DOMAIN b.quoted \cup {p} : c.quoted[q] \in Nat /\ c.paymasterDeposit[q] \in Nat
    BY <1>5, <2>1
  <2>3. c.quoted \in [DOMAIN c.quoted -> Nat]
        /\ c.paymasterDeposit \in [DOMAIN c.paymasterDeposit -> Nat]
    BY <1>5, <2>2
  <2>4. ASSUME NEW q \in DOMAIN c.quoted
        PROVE  c.paymasterDeposit[q] + SponsoredSum(c.bundle, Len(c.bundle), q) = c.quoted[q]
    <3>1. CASE q = p
      BY <1>3, <1>5, <1>6, <3>1
    <3>2. CASE q # p
      <4>1. q \in DOMAIN b.quoted
            /\ b.paymasterDeposit[q] + SponsoredSum(b.bundle, Len(b.bundle), q) = b.quoted[q]
        BY <1>4, <1>5, <3>2 DEF DepositsOK
      <4> QED
        BY <1>3, <1>5, <3>2, <4>1
    <3> QED
      BY <3>1, <3>2
  <2>5. NoAddr \notin DOMAIN c.quoted
    BY <1>1, <1>4, <1>5 DEF DepositsOK
  <2> QED
    BY <1>5, <2>3, <2>4, <2>5 DEF DepositsOK
<1>8. SendersOf(c) = SendersOf(b) /\ KnownSenders(c) = KnownSenders(b)
  BY <1>3 DEF SendersOf, KnownSenders
<1>9. \A o : Fine(b, o) => Fine(c, o)
  BY <1>3, <1>8, Zenon DEF Fine, ReadsKnownSender
<1>10. TakenOK(c)
  <2>1. \A i \in DOMAIN c.bundle :
           /\ Fine(c, c.bundle[i])
           /\ c.bundle[i].paymaster # NoAddr => c.bundle[i].paymaster \in DOMAIN c.quoted
    BY <1>3, <1>4, <1>5, <1>9 DEF TakenOK
  <2> QED
    BY <1>3, <1>4, <2>1, Zenon DEF TakenOK
<1>11. LoopOK(c)
  BY <1>3, <1>4, <1>7, <1>10 DEF LoopOK
<1>12. /\ AtEntry(c) /\ Fine(c, op) /\ op.sender \notin SendersOf(c)
       /\ c.totalGas + Gas[op] <= MaxBundleGas /\ p \in DOMAIN c.paymasterDeposit
  BY <1>1, <1>3, <1>5, <1>8, <1>9 DEF AtEntry
<1>13. LeftOf(Pool, Sponsor(c, op).pool) /\ BuildInv(Sponsor(c, op).build)
  BY <1>2, <1>11, <1>12, SponsorKeeps DEF p
<1> QED
  BY <1>13 DEF c, p, op

---------------------------------------------------------------------------
(* The invariant.                                                          *)

(* The record is named, so that it can stand still while the chain moves. *)
BuildOK == \E b \in {build} : BuildInv(b)

RestOK ==
    /\ arriving = {} \/ \E op \in UserOps : arriving = {op}
    /\ inFlight \in Seq(UserOps)
    /\ failing \subseteq UserOps
    /\ deposit \in [DOMAIN InitialDeposit -> Nat]

BundleInv == EventsCore /\ BuildOK /\ RestOK

(* What is known of a build outlives new blocks and lost validity. *)
LEMMA BuildInvStays ==
    ASSUME Len(chain) \in Nat, chain' = chain \/ Len(chain') = Len(chain) + 1,
           failing \subseteq failing', NEW b, BuildInv(b)
    PROVE  BuildInv(b)'
<1>1. ASSUME PastOK(b.at) PROVE PastOK(b.at)'
  BY <1>1 DEF PastOK
<1>2. ASSUME PastOK(b.at), b.at = <<chain', failing'>>
      PROVE  chain' = chain /\ failing' = failing /\ b.at = <<chain, failing>>
  <2>1. b.at[1] = chain' /\ b.at[2] = failing'
    BY <1>2
  <2>2. Len(chain') <= Len(chain) /\ failing' \subseteq failing
    BY <1>2, <2>1 DEF PastOK
  <2>3. chain' = chain
    BY <2>2
  <2>4. failing' = failing
    BY <2>2
  <2> QED
    BY <1>2, <2>3, <2>4
<1>3. ASSUME PastOK(b.at), NEW op, Fine(b, op) PROVE Fine(b, op)'
  <2>1. (\E e \in ToSet(b.snapshot) : op = e.userOp) /\ ~ ReadsKnownSender(b, op)
    BY <1>3 DEF Fine
  <2>2. ASSUME b.at = <<chain', failing'>> PROVE ~ Spent(op)' /\ op \notin failing'
    <3>1. chain' = chain /\ failing' = failing /\ b.at = <<chain, failing>>
      BY <1>2, <1>3, <2>2
    <3>2. Spent(op)' <=> Spent(op)
      BY <3>1 DEF Spent, MinedHashes, IncludedIn, EventsFrom, BlockNumber
    <3> QED
      BY <1>3, <3>1, <3>2 DEF Fine
  <2>3. (b.at = <<chain, failing>>)' <=> b.at = <<chain', failing'>>
    OBVIOUS
  <2> QED
    BY <2>1, <2>2, <2>3 DEF Fine, ReadsKnownSender, KnownSenders
<1>4. ASSUME LoopOK(b) PROVE LoopOK(b)'
  <2>1. FullBuild(b) /\ PastOK(b.at) /\ DepositsOK(b) /\ TakenOK(b)
    BY <1>4 DEF LoopOK
  <2>2. TakenOK(b)'
    BY <1>3, <2>1 DEF TakenOK
  <2>3. FullBuild(b)' /\ DepositsOK(b)'
    BY <2>1 DEF FullBuild, DepositsOK
  <2> QED
    BY <1>1, <2>1, <2>2, <2>3 DEF LoopOK
<1>5. CASE b.pc \in {"idle", "scan"}
  BY <1>5 DEF BuildInv
<1>6. CASE LoopOK(b)
  <2>1. LoopOK(b)' /\ PastOK(b.at)
    BY <1>4, <1>6 DEF LoopOK
  <2>2. Fine(b, OpOf(b)) => Fine(b, OpOf(b))'
    <3>1. PICK op : op = OpOf(b)
      OBVIOUS
    <3>2. op = OpOf(b)'
      BY <3>1 DEF OpOf
    <3>3. Fine(b, op) => Fine(b, op)'
      BY <1>3, <2>1
    <3> QED
      BY <3>1, <3>2, <3>3 DEF Fine, ReadsKnownSender, KnownSenders
  <2> QED
    BY <2>1, <2>2 DEF BuildInv, AtEntry, OpOf, SendersOf
<1> QED
  BY <1>5, <1>6 DEF BuildInv

(* A step keeps the invariant if it keeps its parts. *)
LEMMA PartsKeepInv ==
    ASSUME Len(chain) \in Nat, chain' = chain \/ Len(chain') = Len(chain) + 1,
           failing \subseteq failing', EventsCore', RestOK', NEW b, build' = b, BuildInv(b)
    PROVE  BundleInv'
<1>1. BuildInv(b)'
  BY BuildInvStays
<1>2. BuildOK'
  BY <1>1, Zenon DEF BuildOK
<1> QED
  BY <1>2 DEF BundleInv

(* Its parts, now. *)
LEMMA InvParts ==
    ASSUME BundleInv
    PROVE  /\ EventsCore /\ Inv /\ PoolOK(Pool) /\ ChainOK /\ Len(chain) \in Nat
           /\ RestOK /\ BuildInv(build)
<1>1. EventsCore /\ Inv /\ ChainOK /\ RestOK
  BY DEF BundleInv, EventsCore
<1>2. Len(chain) \in Nat
  BY <1>1 DEF ChainOK
<1>3. BuildInv(build)
  BY DEF BundleInv, BuildOK
<1> QED
  BY <1>1, <1>2, <1>3, InvGivesPoolOK

(* Between two awaits createBundle only takes entries out of the pool. *)
LEMMA ContinueKeeps ==
    ASSUME BundleInv, NEW r, Continue(r), LeftOf(Pool, r.pool), BuildInv(r.build)
    PROVE  BundleInv'
<1>1. /\ SetPool(r.pool) /\ build' = r.build
      /\ UNCHANGED <<repVars, eventsVars, arrivalVars, inFlight, failing, deposit>>
  BY DEF Continue
<1>2. Inv'
  BY <1>1, InvParts, RemovalsKeepInv DEF repVars
<1>3. EventsCore'
  BY <1>1, <1>2, InvParts, PoolStepKeepsCore
<1>4. RestOK' /\ chain' = chain /\ failing' = failing
  BY <1>1, InvParts DEF RestOK, eventsVars, arrivalVars
<1> QED
  BY <1>1, <1>3, <1>4, InvParts, PartsKeepInv

(* A step that leaves the build alone. *)
LEMMA SameBuildKeeps ==
    ASSUME BundleInv, EventsCore', RestOK', build' = build,
           chain' = chain \/ Len(chain') = Len(chain) + 1, failing \subseteq failing'
    PROVE  BundleInv'
<1>1. PICK b : b = build
  OBVIOUS
<1>2. BuildInv(b)
  BY <1>1, InvParts
<1> QED
  BY <1>1, <1>2, InvParts, PartsKeepInv

(* A step that ends the build, or starts it. *)
LEMMA NoBuildKeeps ==
    ASSUME BundleInv, EventsCore', RestOK', build' \in {[pc |-> "idle"], [pc |-> "scan"]},
           chain' = chain, failing' = failing
    PROVE  BundleInv'
<1>1. PICK b : b = build'
  OBVIOUS
<1>2. BuildInv(b)
  BY <1>1 DEF BuildInv
<1> QED
  BY <1>1, <1>2, InvParts, PartsKeepInv

(* The mempool and the chain stay as they are. *)
LEMMA CoreStays ==
    ASSUME BundleInv, UNCHANGED <<mempool, entryCount, whitelist>>, UNCHANGED eventsVars
    PROVE  EventsCore' /\ chain' = chain
<1>1. Inv'
  BY InvParts, StutterKeepsInv
<1> QED
  BY <1>1, InvParts, PoolStepKeepsCore DEF eventsVars

---------------------------------------------------------------------------
(* One lemma per group of actions.                                         *)

(* The initial states have it. *)
LEMMA BundleInitInv == BundleInit => BundleInv
<1> SUFFICES ASSUME BundleInit PROVE BundleInv
  OBVIOUS
<1>1. EventsCore
  BY EventsInitInv DEF BundleInit, EventsInv
<1>2. BuildInv(build)
  BY DEF BundleInit, Idle, BuildInv
<1>3. RestOK
  BY BundleAssumption DEF BundleInit, EventsInit, RestOK
<1> QED
  BY <1>1, <1>2, <1>3 DEF BundleInv, BuildOK

(* The snapshot is taken. *)
LEMMA TakeSnapshotKeeps ==
    ASSUME BundleInv, TakeSnapshot PROVE BundleInv'
<1> DEFINE B(sorted) ==
             [pc |-> "scan", snapshot |-> sorted, next |-> 1,
              bundle |-> <<>>, paymasterDeposit |-> [p \in {} |-> 0], totalGas |-> 0,
              at |-> <<chain, failing>>, quoted |-> [p \in {} |-> 0]]
<1>1. PICK sorted : /\ sorted = SortedForInclusion(mempool)
                    /\ Continue(Advance(Pool, B(sorted), 1))
  BY DEF TakeSnapshot
<1>2. sorted \in Seq(PoolEntry)
  BY <1>1, InvParts, SortedByRank DEF Inv, MempoolTypeOK
<1>3. PICK b : b = B(sorted)
  OBVIOUS
<1>4. /\ b.snapshot = sorted /\ b.bundle = <<>> /\ b.totalGas = 0
      /\ b.at = <<chain, failing>>
      /\ b.paymasterDeposit = [p \in {} |-> 0] /\ b.quoted = [p \in {} |-> 0]
  BY <1>3
<1>5. LoopOK(b)
  <2>1. FullBuild(b)
    BY <1>3 DEF FullBuild
  <2>2. PastOK(b.at)
    BY <1>4, InvParts DEF PastOK
  <2>3. DepositsOK(b)
    BY <1>4 DEF DepositsOK
  <2>4. TakenOK(b)
    BY <1>2, <1>4, BundleAssumption DEF TakenOK
  <2> QED
    BY <2>1, <2>2, <2>3, <2>4 DEF LoopOK
<1>6. PICK r : r = Advance(Pool, b, 1)
  OBVIOUS
<1>7. LeftOf(Pool, r.pool) /\ BuildInv(r.build)
  <2>1. 1 \in Nat \ {0} /\ 1 <= Len(b.snapshot) + 1
    BY <1>2, <1>4
  <2> QED
    BY <1>4, <1>5, <1>6, <2>1, InvParts, AdvanceKeeps
<1>8. Continue(r)
  BY <1>1, <1>3, <1>6
<1> QED
  BY <1>7, <1>8, ContinueKeeps

(* The answer of validateUserOp. *)
LEMMA RevalidationKeeps ==
    ASSUME BundleInv, Revalidated \/ RevalidationFailed PROVE BundleInv'
<1>1. PICK b : b = build
  OBVIOUS
<1>2. b.pc = "validate" /\ CurrentOp = OpOf(b)
  BY <1>1 DEF Revalidated, RevalidationFailed, CurrentOp, OpOf
<1>3. LoopOK(b) /\ AtEntry(b) /\ OpOf(b).sender \notin SendersOf(b) /\ PoolOK(Pool)
  <2>1. BuildInv(b) /\ PoolOK(Pool)
    BY <1>1, InvParts
  <2> QED
    BY <1>2, <2>1 DEF BuildInv
<1>4. ASSUME Revalidated PROVE BundleInv'
  <2>1. PICK r : r = Accepted(b, OpOf(b))
    OBVIOUS
  <2>2. Validates(OpOf(b)) /\ Continue(r)
    BY <1>1, <1>2, <1>4, <2>1 DEF Revalidated
  <2>3. LeftOf(Pool, r.pool) /\ BuildInv(r.build)
    BY <1>3, <2>1, <2>2, AcceptedKeeps
  <2> QED
    BY <2>2, <2>3, ContinueKeeps
<1>5. ASSUME RevalidationFailed PROVE BundleInv'
  <2>1. PICK pool : pool = RemovedOp(Pool, OpOf(b))
    OBVIOUS
  <2>2. LeftOf(Pool, pool) /\ PoolOK(pool)
    BY <1>3, <2>1, RemovedOpLeaves DEF LeftOf
  <2>3. PICK r : r = Advance(pool, b, b.next + 1)
    OBVIOUS
  <2>4. LeftOf(pool, r.pool) /\ BuildInv(r.build)
    BY <1>3, <2>2, <2>3, SkipKeeps
  <2>5. LeftOf(Pool, r.pool)
    BY <1>3, <2>2, <2>4, LeftOfTrans
  <2>6. Continue(r)
    BY <1>1, <1>2, <1>5, <2>1, <2>3 DEF RevalidationFailed
  <2> QED
    BY <2>4, <2>5, <2>6, ContinueKeeps
<1> QED
  BY <1>4, <1>5

(* The answer of balanceOf. *)
LEMMA BalanceAnsweredKeeps ==
    ASSUME BundleInv, BalanceAnswered PROVE BundleInv'
<1>1. PICK b : b = build
  OBVIOUS
<1>2. b.pc = "balance" /\ CurrentOp = OpOf(b)
  BY <1>1 DEF BalanceAnswered, CurrentOp, OpOf
<1>3. BuildInv(b) /\ PoolOK(Pool) /\ RestOK
  BY <1>1, InvParts
<1>4. PICK v : v = deposit[OpOf(b).paymaster]
  OBVIOUS
<1>5. v \in Nat
  <2>1. OpOf(b) \in UserOps /\ OpOf(b).paymaster # NoAddr
    BY <1>2, <1>3, EntryOfLoop DEF BuildInv
  <2>2. OpOf(b).paymaster \in DOMAIN InitialDeposit
    BY <2>1, BundleAssumption
  <2> QED
    BY <1>3, <1>4, <2>2 DEF RestOK
<1>6. PICK p : p = OpOf(b).paymaster
  OBVIOUS
<1> DEFINE c == [b EXCEPT !.paymasterDeposit = Put(@, p, v), !.quoted = Put(@, p, v)]
<1>7. PICK r : r = Sponsor(c, OpOf(b))
  OBVIOUS
<1>8. Continue(r)
  <2>1. Continue(Sponsor([build EXCEPT
                            !.paymasterDeposit = Put(@, CurrentOp.paymaster, deposit[CurrentOp.paymaster]),
                            !.quoted = Put(@, CurrentOp.paymaster, deposit[CurrentOp.paymaster])],
                         CurrentOp))
    BY DEF BalanceAnswered
  <2> QED
    BY <1>1, <1>2, <1>4, <1>6, <1>7, <2>1
<1>9. LeftOf(Pool, r.pool) /\ BuildInv(r.build)
  BY <1>2, <1>3, <1>5, <1>6, <1>7, BalanceKeeps
<1> QED
  BY <1>8, <1>9, ContinueKeeps

(* The mutex is taken, and given back when a scan or balanceOf fails. *)
LEMMA StartAndAbortKeep ==
    ASSUME BundleInv, StartBundle \/ BuildAborted PROVE BundleInv'
<1>0. Bundling \in Scanner
  BY BundleAssumption
<1>1. RestOK' /\ failing' = failing
  BY InvParts DEF StartBundle, BuildAborted, RestOK, arrivalVars
<1>2. build' \in {[pc |-> "idle"], [pc |-> "scan"]}
  BY DEF StartBundle, BuildAborted, Idle
<1>3. EventsCore' /\ chain' = chain
  <2>1. CASE ScanStep(Bundling)
    BY <1>0, <2>1, InvParts, EventActionsKeepCore
  <2>2. CASE UNCHANGED <<mempoolVars, eventsVars>>
    <3>1. UNCHANGED <<mempool, entryCount, whitelist>> /\ UNCHANGED eventsVars
      BY <2>2 DEF mempoolVars
    <3> QED
      BY <3>1, CoreStays
  <2> QED
    BY <2>1, <2>2 DEF StartBundle, BuildAborted, ScanStep
<1> QED
  BY <1>1, <1>2, <1>3, NoBuildKeeps

(* The bundle is sent: whatever the node answers, the build is over. *)
LEMMA SendKeeps ==
    ASSUME BundleInv, Send PROVE BundleInv'
<1>1. build.pc = "send" /\ build' = [pc |-> "idle"]
  BY DEF Send, SendAccepted, SendRefused, SendFailed, Idle
<1>2. build.bundle \in Seq(UserOps) /\ RestOK
  BY <1>1, InvParts DEF BuildInv, LoopOK, TakenOK
<1>3. UNCHANGED eventsVars /\ UNCHANGED <<arriving, failing, deposit, whitelist>>
      /\ inFlight' \in {inFlight, build.bundle}
  BY DEF Send, SendAccepted, SendRefused, SendFailed, mempoolVars, arrivalVars
<1>4. RestOK'
  BY <1>2, <1>3 DEF RestOK
<1>5. EventsCore' /\ chain' = chain
  <2>1. CASE UNCHANGED poolVars
    <3>1. UNCHANGED <<mempool, entryCount, whitelist>>
      BY <1>3, <2>1 DEF poolVars
    <3> QED
      BY <1>3, <3>1, CoreStays
  <2>2. CASE \E op \in UserOps : SetPool(RemovedOp(Pool, op))
    <3>1. PICK st, op : st = RemovedOp(Pool, op) /\ SetPool(st)
      BY <2>2
    <3>2. LeftOf(Pool, st)
      BY <3>1, InvParts, RemovedOpLeaves
    <3>3. Inv'
      BY <1>3, <3>1, <3>2, InvParts, RemovalsKeepInv
    <3> QED
      BY <1>3, <3>3, InvParts, PoolStepKeepsCore DEF eventsVars
  <2>3. CASE \E reason : SendFailed(reason)
    <3>1. PICK i \in DOMAIN build.bundle : UNCHANGED poolVars \/ SetPool(RemovedOp(Pool, build.bundle[i]))
      BY <2>3 DEF SendFailed
    <3>2. build.bundle[i] \in UserOps
      BY <1>2, <3>1
    <3> QED
      BY <2>1, <2>2, <3>1, <3>2
  <2> QED
    BY <2>1, <2>3 DEF Send, SendAccepted, SendRefused, mempoolVars, poolVars
<1> QED
  BY <1>1, <1>3, <1>4, <1>5, NoBuildKeeps

(* Clients, and what changes on the node beside the chain. *)
LEMMA OthersKeep ==
    ASSUME BundleInv,
           \/ \E op \in UserOps : ValidateArriving(op)
           \/ AddArriving
           \/ \E op \in Spoilable : Spoil(op)
           \/ \E p \in DOMAIN deposit, v \in DepositValues : ChangeDeposit(p, v)
    PROVE  BundleInv'
<1>0. RestOK /\ Inv /\ EventsCore
  BY InvParts
<1>1. build' = build /\ UNCHANGED eventsVars /\ failing \subseteq failing'
  BY DEF ValidateArriving, ValidateOp, AddArriving, AddOp, Spoil, ChangeDeposit, bundleVars
<1>2. RestOK'
  <2>1. ASSUME NEW op \in UserOps, ValidateArriving(op) PROVE RestOK'
    BY <1>0, <2>1 DEF ValidateArriving, ValidateOp, RestOK, bundleVars
  <2>2. ASSUME AddArriving PROVE RestOK'
    BY <1>0, <2>2 DEF AddArriving, AddOp, RestOK, bundleVars
  <2>3. ASSUME NEW op \in Spoilable, Spoil(op) PROVE RestOK'
    BY <1>0, <2>3, BundleAssumption DEF Spoil, RestOK, arrivalVars
  <2>4. ASSUME NEW p \in DOMAIN deposit, NEW v \in DepositValues, ChangeDeposit(p, v)
        PROVE  RestOK'
    <3>1. v \in Nat /\ deposit' = [deposit EXCEPT ![p] = v]
      BY <2>4, BundleAssumption DEF ChangeDeposit
    <3>2. deposit' \in [DOMAIN InitialDeposit -> Nat]
      BY <1>0, <3>1 DEF RestOK
    <3> QED
      BY <1>0, <2>4, <3>2 DEF ChangeDeposit, RestOK, arrivalVars
  <2> QED
    BY <2>1, <2>2, <2>3, <2>4
<1>3. EventsCore'
  <2>1. CASE UNCHANGED mempoolVars
    <3>1. UNCHANGED <<mempool, entryCount, whitelist>>
      BY <2>1 DEF mempoolVars
    <3> QED
      BY <1>1, <3>1, CoreStays
  <2>2. ASSUME NEW op \in UserOps, AddUserOp(op, NoAddr) PROVE EventsCore'
    <3>1. MempoolNext
      BY <2>2, EventsAssumption DEF MempoolNext
    <3>2. Inv'
      BY <1>0, <3>1, NextKeepsInv
    <3> QED
      BY <1>0, <1>1, <3>2, PoolStepKeepsCore DEF eventsVars
  <2>3. arriving \subseteq UserOps
    BY <1>0 DEF RestOK
  <2> QED
    BY <2>1, <2>2, <2>3 DEF ValidateArriving, ValidateOp, AddArriving, AddOp, Spoil, ChangeDeposit
<1>4. chain' = chain
  BY <1>1 DEF eventsVars
<1> QED
  BY <1>1, <1>2, <1>3, <1>4, SameBuildKeeps

(* Events, and blocks. *)
LEMMA ChainActionsKeep ==
    ASSUME BundleInv, EventsStep \/ MineInFlight \/ \E op \in ForeignOps : MineForeign(op)
    PROVE  BundleInv'
<1>0. RestOK /\ EventsCore /\ Len(chain) \in Nat
  BY InvParts
<1>1. build' = build /\ failing' = failing
  BY DEF EventsStep, MineInFlight, MineForeign, bundleVars
<1>2. RestOK'
  <2>1. UNCHANGED <<arriving, failing, deposit>> /\ inFlight' \in {inFlight, <<>>}
    BY DEF EventsStep, MineInFlight, MineForeign, bundleVars, arrivalVars
  <2>2. <<>> \in Seq(UserOps)
    OBVIOUS
  <2> QED
    BY <1>0, <2>1, <2>2 DEF RestOK
<1>3. ASSUME EventsStep PROVE EventsCore' /\ chain' = chain
  BY <1>0, <1>3, EventActionsKeepCore DEF EventsStep, ScanStep
<1>4. ASSUME NEW ops \in Seq(UserOps), chain' = Append(chain, LogOf(ops, BlockNumber + 1)),
             UNCHANGED <<mempoolVars, heard, lastBlock, scans>>
      PROVE  EventsCore' /\ Len(chain') = Len(chain) + 1
  BY <1>0, <1>4, BlockKeepsCore
<1>5. ASSUME MineInFlight PROVE EventsCore' /\ (chain' = chain \/ Len(chain') = Len(chain) + 1)
  <2>1. UNCHANGED <<mempoolVars, heard, lastBlock, scans>> /\ inFlight \in Seq(UserOps)
    BY <1>0, <1>5 DEF MineInFlight, RestOK
  <2>2. PICK ops : ops = inFlight
    OBVIOUS
  <2>3. CASE chain' = chain
    <3>1. UNCHANGED <<mempool, entryCount, whitelist>> /\ UNCHANGED eventsVars
      BY <2>1, <2>3 DEF mempoolVars, eventsVars
    <3> QED
      BY <2>3, <3>1, CoreStays
  <2>4. CASE chain' = Append(chain, LogOf(ops, BlockNumber + 1))
    BY <1>4, <2>1, <2>2, <2>4
  <2> QED
    BY <1>5, <2>2, <2>3, <2>4 DEF MineInFlight
<1>6. ASSUME NEW op \in ForeignOps, MineForeign(op)
      PROVE  EventsCore' /\ Len(chain') = Len(chain) + 1
  <2>1. <<op>> \in Seq(UserOps)
    BY BundleAssumption
  <2> QED
    BY <1>4, <1>6, <2>1 DEF MineForeign, MineBlock
<1> QED
  BY <1>1, <1>2, <1>3, <1>5, <1>6, SameBuildKeeps

(* Every step keeps it. *)
LEMMA BundleNextKeepsInv == BundleInv /\ [BundleNext]_allVars => BundleInv'
<1> SUFFICES ASSUME BundleInv, [BundleNext]_allVars PROVE BundleInv'
  OBVIOUS
<1>1. ASSUME UNCHANGED allVars PROVE BundleInv'
  <2>1. /\ UNCHANGED <<mempool, entryCount, whitelist>> /\ UNCHANGED eventsVars
        /\ UNCHANGED <<build, arriving, inFlight, failing, deposit>>
    BY <1>1 DEF allVars, mempoolVars, bundleVars, arrivalVars
  <2>2. RestOK'
    BY <2>1, InvParts DEF RestOK
  <2> QED
    BY <2>1, <2>2, CoreStays, SameBuildKeeps
<1>2. CASE StartBundle \/ BuildAborted
  BY <1>2, StartAndAbortKeep
<1>3. CASE TakeSnapshot
  BY <1>3, TakeSnapshotKeeps
<1>4. CASE Revalidated \/ RevalidationFailed
  BY <1>4, RevalidationKeeps
<1>5. CASE BalanceAnswered
  BY <1>5, BalanceAnsweredKeeps
<1>6. CASE Send
  BY <1>6, SendKeeps
<1>7. CASE \/ \E op \in UserOps : ValidateArriving(op)
           \/ AddArriving
           \/ \E op \in Spoilable : Spoil(op)
           \/ \E p \in DOMAIN deposit, v \in DepositValues : ChangeDeposit(p, v)
  BY <1>7, OthersKeep
<1>8. CASE EventsStep \/ MineInFlight \/ \E op \in ForeignOps : MineForeign(op)
  BY <1>8, ChainActionsKeep
<1> QED
  BY <1>1, <1>2, <1>3, <1>4, <1>5, <1>6, <1>7, <1>8 DEF BundleNext

(* The invariant holds with or without fairness. *)
LEMMA BundleInvariant == BundleSafetySpec => []BundleInv
<1> QED
  BY BundleInitInv, BundleNextKeepsInv, PTL DEF BundleSafetySpec

---------------------------------------------------------------------------
(* What follows.                                                           *)

(* The variables keep their types: a build that waits for the node stands   *)
(* at an entry of its snapshot, and its bundle never holds more gas than    *)
(* MaxBundleGas.                                                            *)
THEOREM BundleTypeCorrect == BundleSafetySpec => []BundleTypeOK
<1>1. BundleInv => BundleTypeOK
  <2> SUFFICES ASSUME BundleInv PROVE BundleTypeOK
    OBVIOUS
  <2>1. BuildInv(build) /\ RestOK
    BY InvParts
  <2>2. arriving \subseteq UserOps /\ Cardinality(arriving) <= 1
    <3>1. CASE arriving = {}
      BY <3>1, FS_EmptySet
    <3>2. CASE \E op \in UserOps : arriving = {op}
      BY <3>2, FS_Singleton
    <3> QED
      BY <2>1, <3>1, <3>2 DEF RestOK
  <2>3. inFlight \in Seq(UserOps) /\ failing \subseteq UserOps
        /\ DOMAIN deposit = DOMAIN InitialDeposit
    BY <2>1 DEF RestOK
  <2>4. build.pc \in {"idle", "scan", "validate", "balance", "send"}
    BY <2>1 DEF BuildInv
  <2>5. build.pc \in {"validate", "balance", "send"} =>
           /\ build.snapshot \in Seq(PoolEntry)
           /\ build.bundle \in Seq(UserOps)
           /\ build.next \in 1..Len(build.snapshot)
           /\ build.totalGas \in 0..MaxBundleGas
    BY <2>1 DEF BuildInv, LoopOK, TakenOK, AtEntry
  <2> QED
    BY <2>2, <2>3, <2>4, <2>5 DEF BundleTypeOK
<1> QED
  BY <1>1, BundleInvariant, PTL

(* The mempool keeps its promises while bundles are built: createBundle     *)
(* takes entries out between any two awaits, and a failed validation or a   *)
(* failed bundle too.                                                       *)
THEOREM PoolInvariantsWithBundles ==
    BundleSafetySpec => [](OneOpPerSenderNonce /\ CountCoversPool /\ UnstakedSendersLimited)
<1>1. BundleInv => OneOpPerSenderNonce /\ CountCoversPool /\ UnstakedSendersLimited
  BY InvParts DEF Inv
<1> QED
  BY <1>1, BundleInvariant, PTL

(* Scans for bundles, whatever else is running, never leave the cursor      *)
(* beyond the next block, however long the chain grows.                     *)
THEOREM CursorStaysWithBundles == BundleSafetySpec => []CursorWithinChain
<1>1. BundleInv => CursorWithinChain
  BY InvParts, CoreKeepsRanges
<1> QED
  BY <1>1, BundleInvariant, PTL

(* Clients write each account in one way. *)
OneSpellingOfAccounts == \A a, b \in Addr : AccountOf[a] = AccountOf[b] => a = b

(* The bundle is complete and nothing it relied on has changed. *)
LEMMA CompleteBundleExecutes ==
    ASSUME OneSpellingOfAccounts, NEW b, LoopOK(b), RestOK, b.at = <<chain, failing>>,
           \A p \in DOMAIN b.quoted : deposit[p] >= b.quoted[p]
    PROVE  Executes(b.bundle)
<1> DEFINE ops == b.bundle
<1>1. ops \in Seq(UserOps) /\ DepositsOK(b) /\ TakenOK(b)
  BY DEF LoopOK, TakenOK
<1> SUFFICES ASSUME NEW i \in DOMAIN ops PROVE ~ Rejected(ops, i)
  BY DEF Executes
<1> HIDE DEF ops
<1>2. /\ DOMAIN ops = 1..Len(ops) /\ Len(ops) \in Nat
      /\ \A j \in 1..Len(ops) : ops[j] \in UserOps
  BY <1>1
<1>3. \A j \in 1..Len(ops) :
         /\ \E e \in ToSet(b.snapshot) : ops[j] = e.userOp
         /\ ~ ReadsKnownSender(b, ops[j]) /\ ~ Spent(ops[j]) /\ ops[j] \notin failing
         /\ ops[j].paymaster # NoAddr => ops[j].paymaster \in DOMAIN b.quoted
  BY <1>1, <1>2 DEF TakenOK, Fine, ops
<1>4. \A j \in 1..(i - 1) : j \in 1..Len(ops) /\ j # i /\ ops[j].sender # ops[i].sender
  <2>1. i \in 1..Len(ops)
    BY <1>2
  <2>2. \A j \in 1..(i - 1) : j \in 1..Len(ops) /\ j # i
    BY <1>2, <2>1
  <2>3. \A j, k \in DOMAIN ops : ops[j].sender = ops[k].sender => j = k
    BY <1>1 DEF TakenOK, ops
  <2> QED
    BY <1>2, <2>1, <2>2, <2>3
<1>5. \A j \in 1..Len(ops) : ops[j].sender \in Addr
  <2>1. \A op \in UserOps : op.sender \in Addr
    BY MempoolAssumption DEF UserOperation
  <2> QED
    BY <1>2, <2>1
<1>6. \A j \in 1..(i - 1) : AccountOf[ops[j].sender] # AccountOf[ops[i].sender]
  BY <1>2, <1>4, <1>5 DEF OneSpellingOfAccounts
<1>7. \A j \in 1..(i - 1) : NonceKey(ops[j]) # NonceKey(ops[i])
  BY <1>6 DEF NonceKey
<1>8. ASSUME NEW j \in 1..(i - 1), AccountOf[ops[j].sender] \in Touches[ops[i]] PROVE FALSE
  <2>1. AccountOf[ops[j].sender] \in KnownSenders(b)
    <3>1. PICK e \in ToSet(b.snapshot) : ops[j] = e.userOp
      BY <1>3, <1>4
    <3>2. PICK k \in DOMAIN b.snapshot : e = b.snapshot[k]
      BY DEF ToSet
    <3> QED
      BY <3>1, <3>2 DEF KnownSenders
  <2>2. ~ ReadsKnownSender(b, ops[i])
    BY <1>2, <1>3
  <2> QED
    BY <1>6, <1>8, <2>1, <2>2 DEF ReadsKnownSender
<1>9. ASSUME NEW p, ops[i].paymaster = p, p # NoAddr
      PROVE  Prefund[ops[i]] <= deposit[p] /\ SponsoredSum(ops, i, p) <= deposit[p]
  <2>1. p \in DOMAIN b.quoted
    BY <1>2, <1>3, <1>9
  <2>2. /\ b.paymasterDeposit[p] + SponsoredSum(ops, Len(ops), p) = b.quoted[p]
        /\ b.paymasterDeposit[p] \in Nat /\ b.quoted[p] \in Nat
    BY <1>1, <2>1 DEF DepositsOK, ops
  <2>3. deposit[p] >= b.quoted[p] /\ deposit[p] \in Nat
    <3>1. p \in DOMAIN InitialDeposit
      BY <1>2, <1>9, BundleAssumption
    <3> QED
      BY <2>1, <3>1 DEF RestOK
  <2>4. i \in 0..Len(ops) /\ i \in 1..Len(ops) /\ Len(ops) \in i..Len(ops)
        /\ Len(ops) \in 0..Len(ops)
    BY <1>2
  <2>5. /\ SponsoredSum(ops, i, p) \in Nat /\ SponsoredSum(ops, Len(ops), p) \in Nat
        /\ SponsoredSum(ops, i, p) <= SponsoredSum(ops, Len(ops), p)
        /\ Prefund[ops[i]] <= SponsoredSum(ops, i, p)
    BY <1>1, <1>9, <2>4, SumBounds DEF ops
  <2>6. Prefund[ops[i]] \in Nat
    BY <1>2, BundleAssumption
  <2> QED
    BY <2>2, <2>3, <2>5, <2>6
<1>10. Validates(ops[i])
  BY <1>2, <1>3, <1>9 DEF Validates
<1>11. ops[i].paymaster # NoAddr =>
          ~ (SponsoredSum(ops, i, ops[i].paymaster) > deposit[ops[i].paymaster])
  <2> SUFFICES ASSUME ops[i].paymaster # NoAddr
               PROVE  ~ (SponsoredSum(ops, i, ops[i].paymaster) > deposit[ops[i].paymaster])
    OBVIOUS
  <2>1. PICK p : ops[i].paymaster = p
    OBVIOUS
  <2>2. SponsoredSum(ops, i, p) <= deposit[p]
    BY <1>9, <2>1
  <2>3. SponsoredSum(ops, i, p) \in Nat /\ deposit[p] \in Nat
    <3>1. p \in DOMAIN InitialDeposit
      BY <1>2, <2>1, BundleAssumption
    <3>2. i \in 0..Len(ops)
      BY <1>2
    <3> QED
      BY <1>1, <3>1, <3>2, SumBounds DEF RestOK, ops
  <2> QED
    BY <2>1, <2>2, <2>3
<1> QED
  BY <1>7, <1>8, <1>10, <1>11, Zenon DEF Rejected

(* A bundle about to be sent executes unless the chain, the validity of     *)
(* operations or a quoted deposit changed since its snapshot: whatever      *)
(* happened to the mempool and to reputations at the awaits between, no two *)
(* operations share a nonce, no paymaster is overdrawn by the sum of its    *)
(* operations, none reads another sender's storage.                         *)
THEOREM UndisturbedExecutes ==
    ASSUME OneSpellingOfAccounts
    PROVE  BundleSafetySpec => []UndisturbedBundleExecutes
<1>1. BundleInv => UndisturbedBundleExecutes
  <2> SUFFICES ASSUME BundleInv, build.pc = "send", build.at = <<chain, failing>>,
                      \A p \in DOMAIN build.quoted : deposit[p] >= build.quoted[p]
               PROVE  Executes(build.bundle)
    BY DEF UndisturbedBundleExecutes
  <2>1. PICK b : b = build
    OBVIOUS
  <2>2. LoopOK(b) /\ RestOK
    BY <2>1, InvParts DEF BuildInv
  <2>3. Executes(b.bundle)
    BY <2>1, <2>2, CompleteBundleExecutes
  <2> QED
    BY <2>1, <2>3
<1> QED
  BY <1>1, BundleInvariant, PTL
=============================================================================
