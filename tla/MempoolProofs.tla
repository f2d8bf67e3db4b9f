---------------------------- MODULE MempoolProofs ----------------------------
(***************************************************************************)
(* Proofs about ReputationManager and MempoolManager.                      *)
(*                                                                         *)
(* ReputationManager, for all addresses, lists, parameters, dumps and      *)
(* bounds:                                                                 *)
(*   - the type invariant, which is inductive as it stands;                *)
(*   - if at most every second operation is expected on chain, a cron step *)
(*     clears every standing, and what forgives never worsens one;         *)
(*   - what the shipped parameters amount to: no entity is ever throttled, *)
(*     and the entity of a crash is not banned.                            *)
(*                                                                         *)
(* MempoolManager, for every set of operations and addresses, every limit  *)
(* and every stake, and without a bound on the length of the queue:        *)
(*   - the type invariant and the three safety invariants, from one        *)
(*     inductive invariant Inv, their conjunction: UnstakedSendersLimited  *)
(*     is not inductive alone, a push needs CountCoversPool to turn the    *)
(*     check on the counter into a check on the queue, and CountCoversPool *)
(*     needs the types of the counters;                                    *)
(*   - the sort for inclusion, which returns every entry once, from the    *)
(*     ranks: the place of an entry is the number of those that sort       *)
(*     before it, plus one;                                                *)
(*   - the refinement of OpPool, from Inv step by step.                    *)
(*                                                                         *)
(* In each part facts about the helpers come first (for the pool searches, *)
(* removal from a sequence, counting positions, the partial function of    *)
(* counters), then one lemma per action.                                   *)
(***************************************************************************)
EXTENDS MempoolManager, TLAPS, FiniteSetTheorems, SequenceTheorems, WellFoundedInduction

---------------------------------------------------------------------------
(* ReputationManager *)

(* What a quotient of naturals is. *)
LEMMA Quotient ==
    ASSUME NEW n \in Nat, NEW d \in Nat \ {0}
    PROVE  /\ n \div d \in Nat
           /\ d * (n \div d) <= n
           /\ n < d * (n \div d) + d
  BY Z3

(* A counter of the table, present or defaulted, is a natural. *)
LEMMA EntryIsTyped ==
    ASSUME RepTypeOK, NEW a
    PROVE  EntryOf(entries, a) \in ReputationEntry
  BY DEF RepTypeOK, EntryOf, ReputationEntry

(* Writing one typed entry keeps the table typed. *)
LEMMA PutIsTyped ==
    ASSUME RepTypeOK, NEW a \in Addr, NEW e \in ReputationEntry
    PROVE  /\ DOMAIN Put(entries, a, e) \subseteq Addr
           /\ Put(entries, a, e) \in [DOMAIN Put(entries, a, e) -> ReputationEntry]
  BY DEF RepTypeOK, Put

(* The back-off of an entry is an entry. *)
LEMMA BackOffIsTyped ==
    ASSUME NEW e \in ReputationEntry
    PROVE  BackOff(e) \in ReputationEntry
<1>1. \A n \in Nat : (n * 23) \div 24 \in Nat
  OBVIOUS
<1> QED
  BY <1>1 DEF BackOff, ReputationEntry

(* The table of the constructor is empty. *)
LEMMA RepInitTyped == RepInit => RepTypeOK
  BY ListsAssumption DEF RepInit, RepTypeOK, NoEntries, ReputationEntry

(* Every method keeps the types. *)
LEMMA RepNextTyped == RepTypeOK /\ [RepNext]_repVars => RepTypeOK'
<1> SUFFICES ASSUME RepTypeOK, [RepNext]_repVars
             PROVE  RepTypeOK'
  OBVIOUS
<1>1. ASSUME NEW a \in Addr, UpdateSeenStatus(a)
      PROVE  RepTypeOK'
  <2>1. a # NoAddr
    BY NoAddrAssumption
  <2>2. [EntryOf(entries, a) EXCEPT !.opsSeen = @ + 1] \in ReputationEntry
    BY EntryIsTyped DEF ReputationEntry
  <2> QED
    BY <1>1, <2>1, <2>2, PutIsTyped DEF UpdateSeenStatus, CountSeen, RepTypeOK
<1>2. ASSUME NEW a \in Addr, UpdateIncludedStatus(a)
      PROVE  RepTypeOK'
  <2>1. [EntryOf(entries, a) EXCEPT !.opsIncluded = @ + 1] \in ReputationEntry
    BY EntryIsTyped DEF ReputationEntry
  <2> QED
    BY <1>2, <2>1, PutIsTyped DEF UpdateIncludedStatus, CountIncluded, RepTypeOK
<1>3. ASSUME NEW a \in Addr, CrashedHandleOps(a)
      PROVE  RepTypeOK'
  <2>1. a # NoAddr
    BY NoAddrAssumption
  <2>2. [opsSeen |-> 100, opsIncluded |-> 0] \in ReputationEntry
    BY DEF ReputationEntry
  <2> QED
    BY <1>3, <2>1, <2>2, PutIsTyped DEF CrashedHandleOps, Crash, RepTypeOK
<1>4. ASSUME NEW a \in Addr, AddWhitelist(a) \/ AddBlacklist(a)
      PROVE  RepTypeOK'
  BY <1>4 DEF AddWhitelist, AddBlacklist, RepTypeOK
<1>5. ASSUME NEW a \in Addr, NEW dump \in Dump(a), SetReputation(dump)
      PROVE  RepTypeOK'
  <2>1. DOMAIN dump = {a} /\ dump \in [DOMAIN dump -> ReputationEntry]
    BY ParamsAssumption DEF Dump, ReputationEntry
  <2> QED
    BY <1>5, <2>1 DEF SetReputation, RepTypeOK
<1>6. CASE HourlyCron
  <2>1. \A a \in DOMAIN entries : BackOff(entries[a]) \in ReputationEntry
    BY BackOffIsTyped DEF RepTypeOK
  <2>2. /\ DOMAIN Decayed(entries) \subseteq DOMAIN entries
        /\ Decayed(entries) \in [DOMAIN Decayed(entries) -> ReputationEntry]
    BY <2>1 DEF Decayed
  <2> QED
    BY <1>6, <2>2 DEF HourlyCron, RepTypeOK
<1>7. CASE RepClearState
  BY <1>7 DEF RepClearState, RepTypeOK, NoEntries, ReputationEntry
<1>8. CASE UNCHANGED repVars
  BY <1>8 DEF repVars, RepTypeOK
<1> QED
  BY <1>1, <1>2, <1>3, <1>4, <1>5, <1>6, <1>7, <1>8 DEF RepNext

(* The table of reputations is always a partial function from addresses to  *)
(* pairs of naturals, also through the restored dumps and the back-off.     *)
THEOREM RepTypeCorrect == RepSpec => []RepTypeOK
<1> QED
  BY RepInitTyped, RepNextTyped, PTL DEF RepSpec

(* A standing with one more inclusion is no worse.                          *)
LEMMA MoreIncludedNoWorse ==
    ASSUME NEW e \in ReputationEntry
    PROVE  Severity(EarnedStatus([e EXCEPT !.opsIncluded = @ + 1])) <= Severity(EarnedStatus(e))
<1> DEFINE q == e.opsSeen \div MinInclusionDenominator
           f == [e EXCEPT !.opsIncluded = @ + 1]
<1>1. /\ MinInclusionDenominator \in Nat \ {0}
      /\ ThrottlingSlack \in Nat /\ BanSlack \in Nat
      /\ e.opsSeen \in Nat /\ e.opsIncluded \in Nat
  BY ParamsAssumption DEF ReputationEntry
<1>2. q \in Nat
  BY <1>1, Quotient
<1>3. f.opsSeen = e.opsSeen /\ f.opsIncluded = e.opsIncluded + 1
  BY DEF ReputationEntry
<1>4. EarnedStatus(e) = IF q <= e.opsIncluded + ThrottlingSlack THEN OK
                        ELSE IF q <= e.opsIncluded + BanSlack THEN THROTTLED ELSE BANNED
  BY DEF EarnedStatus
<1>5. EarnedStatus(f) = IF q <= e.opsIncluded + 1 + ThrottlingSlack THEN OK
                        ELSE IF q <= e.opsIncluded + 1 + BanSlack THEN THROTTLED ELSE BANNED
  BY <1>3 DEF EarnedStatus
<1> HIDE DEF q, f
<1>6. /\ q <= e.opsIncluded + ThrottlingSlack => q <= e.opsIncluded + 1 + ThrottlingSlack
      /\ q <= e.opsIncluded + BanSlack => q <= e.opsIncluded + 1 + BanSlack
  BY <1>1, <1>2
<1>7. /\ Severity(OK) = 0 /\ Severity(THROTTLED) = 1 /\ Severity(BANNED) = 2
  BY DEF Severity, OK, THROTTLED, BANNED
<1>8. Severity(EarnedStatus(f)) <= Severity(EarnedStatus(e))
  BY <1>4, <1>5, <1>6, <1>7
<1> QED
  BY <1>8 DEF f

(* The second line of the cron derives the inclusions from the operations   *)
(* seen, so what it leaves is always enough when every second operation, or *)
(* fewer, must be included.                                                 *)
LEMMA BackedOffIsOK ==
    ASSUME MinInclusionDenominator >= 2, NEW e \in ReputationEntry
    PROVE  EarnedStatus(BackOff(e)) = OK
<1> DEFINE D == MinInclusionDenominator
           seen == (e.opsSeen * 23) \div 24
           included == (seen * 23) \div 24
           q == seen \div D
<1>1. D \in Nat \ {0} /\ D >= 2 /\ ThrottlingSlack \in Nat /\ e.opsSeen \in Nat
  BY ParamsAssumption DEF ReputationEntry
<1>2. seen \in Nat
  BY <1>1
<1>3. included \in Nat /\ seen * 23 < 24 * included + 24
  BY <1>2
<1>4. q \in Nat /\ D * q <= seen
  BY <1>1, <1>2, Quotient
<1> HIDE DEF D, seen, included, q
<1>5. 2 * q <= D * q
  <2>1. \E d \in Nat : D = 2 + d
    <3>1. D - 2 \in Nat /\ D = 2 + (D - 2)
      BY <1>1
    <3> QED
      BY <3>1
  <2>2. PICK d \in Nat : D = 2 + d
    BY <2>1
  <2>3. D * q = 2 * q + d * q /\ d * q \in Nat
    BY <1>4, <2>2, Z3
  <2> QED
    BY <1>4, <2>3
<1>6. D * q \in Nat
  BY <1>1, <1>4
<1>7. 2 * q <= seen
  BY <1>2, <1>4, <1>5, <1>6
<1>8. q <= included
  BY <1>2, <1>3, <1>4, <1>7
<1>9. q <= included + ThrottlingSlack
  BY <1>1, <1>3, <1>4, <1>8
<1> QED
  BY <1>9 DEF EarnedStatus, BackOff, D, seen, included, q

(* Rehabilitation is complete: after any cron step everybody who is not on  *)
(* the black list has status OK, however many of its operations failed.     *)
(* The run checks the denominator 2; those shipped are 10 and 100.          *)
THEOREM CronForgivesAll ==
    ASSUME MinInclusionDenominator >= 2
    PROVE  RepSpec => BanEndsAtCron
<1>1. ASSUME RepTypeOK, HourlyCron, NEW a \in Addr \ blackList
      PROVE  GetStatus(entries, a)' = OK
  <2>1. \A b \in DOMAIN entries' : EarnedStatus(entries'[b]) = OK
    BY <1>1, BackedOffIsOK DEF HourlyCron, Decayed, RepTypeOK
  <2>2. blackList' = blackList
    BY <1>1 DEF HourlyCron
  <2> QED
    BY <1>1, <2>1, <2>2 DEF GetStatus
<1>2. RepTypeOK /\ [RepNext]_repVars =>
          [HourlyCron => \A a \in Addr \ blackList : GetStatus(entries, a)' = OK]_repVars
  BY <1>1
<1> QED
  BY <1>2, RepTypeCorrect, PTL DEF RepSpec, BanEndsAtCron

(* What is done to forgive never hurts: the run checks the denominator 2,   *)
(* and for 1 it is false, as a cron step then takes an entity's inclusions  *)
(* away faster than the operations it has to answer for.                    *)
THEOREM ForgivingSteps ==
    ASSUME MinInclusionDenominator >= 2
    PROVE  RepSpec => ForgivingStepsNeverWorsen
<1> DEFINE NoWorse(a) == Severity(GetStatus(entries, a)') <= Severity(GetStatus(entries, a))
<1>1. /\ Severity(OK) = 0 /\ Severity(THROTTLED) = 1 /\ Severity(BANNED) = 2
  BY DEF Severity, OK, THROTTLED, BANNED
<1>2. \A e : EarnedStatus(e) \in {OK, THROTTLED, BANNED}
  BY DEF EarnedStatus
<1>3. \A a : GetStatus(entries, a) \in {OK, THROTTLED, BANNED}
  BY <1>2 DEF GetStatus
<1>4. \A a : Severity(GetStatus(entries, a)) \in 0..2
  BY <1>1, <1>3
<1>5. ASSUME RepTypeOK, NEW a \in Addr, HourlyCron
      PROVE  NoWorse(a)
  <2>1. whitelist' = whitelist /\ blackList' = blackList
    BY <1>5 DEF HourlyCron
  <2>2. \A b \in DOMAIN entries' : EarnedStatus(entries'[b]) = OK
    BY <1>5, BackedOffIsOK DEF HourlyCron, Decayed, RepTypeOK
  <2>3. GetStatus(entries, a)' = OK \/ GetStatus(entries, a)' = GetStatus(entries, a)
    BY <2>1, <2>2 DEF GetStatus
  <2> QED
    BY <1>1, <1>4, <2>3
<1>6. ASSUME RepTypeOK, NEW a \in Addr, NEW b \in Addr, UpdateIncludedStatus(b)
      PROVE  NoWorse(a)
  <2>1. whitelist' = whitelist /\ blackList' = blackList
        /\ entries' = CountIncluded(entries, b)
    BY <1>6 DEF UpdateIncludedStatus
  <2>2. CASE a # b
    <3>1. /\ a \in DOMAIN entries' <=> a \in DOMAIN entries
          /\ a \in DOMAIN entries => entries'[a] = entries[a]
      BY <2>1, <2>2 DEF CountIncluded, Put
    <3>2. GetStatus(entries, a)' = GetStatus(entries, a)
      BY <2>1, <3>1 DEF GetStatus
    <3> QED
      BY <1>4, <3>2
  <2>3. CASE a = b /\ a \in DOMAIN entries
    <3>1. entries[a] \in ReputationEntry
      BY <1>6, <2>3 DEF RepTypeOK
    <3>2. a \in DOMAIN entries' /\ entries'[a] = [entries[a] EXCEPT !.opsIncluded = @ + 1]
      BY <2>1, <2>3 DEF CountIncluded, Put, EntryOf
    <3>3. Severity(EarnedStatus(entries'[a])) <= Severity(EarnedStatus(entries[a]))
      BY <3>1, <3>2, MoreIncludedNoWorse
    <3>4. \/ GetStatus(entries, a)' = GetStatus(entries, a)
          \/ /\ GetStatus(entries, a)' = EarnedStatus(entries'[a])
             /\ GetStatus(entries, a) = EarnedStatus(entries[a])
      BY <2>1, <2>3, <3>2 DEF GetStatus
    <3> QED
      BY <1>4, <3>3, <3>4
  <2>4. CASE a = b /\ a \notin DOMAIN entries
    <3>1. EntryOf(entries, a) = [opsSeen |-> 0, opsIncluded |-> 0]
      BY <2>4 DEF EntryOf
    <3>2. a \in DOMAIN entries' /\ entries'[a] = [opsSeen |-> 0, opsIncluded |-> 1]
      BY <2>1, <2>4, <3>1 DEF CountIncluded, Put
    <3>3. 0 \div MinInclusionDenominator = 0
      <4>1. \A d \in Nat \ {0} : 0 \div d = 0
        BY Z3
      <4> QED
        BY <4>1, ParamsAssumption
    <3>4. EarnedStatus(entries'[a]) = OK
      BY <3>2, <3>3, ParamsAssumption DEF EarnedStatus
    <3>5. GetStatus(entries, a)' = GetStatus(entries, a)
      BY <2>1, <2>4, <3>2, <3>4 DEF GetStatus
    <3> QED
      BY <1>4, <3>5
  <2> QED
    BY <2>2, <2>3, <2>4
<1>7. ASSUME NEW a \in Addr, NEW b \in Addr \ {a},
             UpdateSeenStatus(b) \/ CrashedHandleOps(b) \/ AddBlacklist(b)
      PROVE  NoWorse(a)
  <2>1. /\ a \in DOMAIN entries' <=> a \in DOMAIN entries
        /\ a \in DOMAIN entries => entries'[a] = entries[a]
    BY <1>7 DEF UpdateSeenStatus, CountSeen, CrashedHandleOps, Crash, AddBlacklist, Put
  <2>2. whitelist' = whitelist /\ (a \in blackList' <=> a \in blackList)
    BY <1>7 DEF UpdateSeenStatus, CrashedHandleOps, AddBlacklist
  <2>3. GetStatus(entries, a)' = GetStatus(entries, a)
    BY <2>1, <2>2 DEF GetStatus
  <2> QED
    BY <1>4, <2>3
<1>8. RepTypeOK /\ [RepNext]_repVars =>
          [\A a \in Addr :
              \/ HourlyCron
              \/ \E b \in Addr : UpdateIncludedStatus(b)
              \/ \E b \in Addr \ {a} :
                    UpdateSeenStatus(b) \/ CrashedHandleOps(b) \/ AddBlacklist(b)
              => NoWorse(a)]_repVars
  BY <1>5, <1>6, <1>7
<1> QED
  BY <1>8, RepTypeCorrect, PTL DEF RepSpec, ForgivingStepsNeverWorsen

(* The two slacks of BundlerReputationParams, and of NonBundlerReputation-  *)
(* Params, are equal: getStatus then never answers THROTTLED, and the skip  *)
(* of throttled paymasters and factories in createBundle cannot happen.     *)
THEOREM EqualSlacksNeverThrottle ==
    ASSUME ThrottlingSlack = BanSlack, NEW es, NEW a
    PROVE  GetStatus(es, a) # THROTTLED
  BY DEF GetStatus, EarnedStatus, OK, THROTTLED, BANNED

(* The comment above crashedHandleOps says that the entity "should be       *)
(* banned immediately, by increasing its opSeen counter".  With the shipped *)
(* parameters the value 100 leaves it with status OK.                       *)
THEOREM ShippedCrashIsNoBan ==
    ASSUME MinInclusionDenominator = 10, ThrottlingSlack = 10, BanSlack = 10,
           NEW es, NEW a \in Addr \ blackList
    PROVE  GetStatus(Crash(es, a), a) = OK
<1>1. a # NoAddr
  BY NoAddrAssumption
<1>2. /\ a \in DOMAIN Crash(es, a)
      /\ Crash(es, a)[a] = [opsSeen |-> 100, opsIncluded |-> 0]
  BY <1>1 DEF Crash, Put
<1>3. 100 \div 10 = 10
  OBVIOUS
<1>4. EarnedStatus([opsSeen |-> 100, opsIncluded |-> 0]) = OK
  BY <1>3 DEF EarnedStatus
<1> QED
  BY <1>2, <1>4 DEF GetStatus

---------------------------------------------------------------------------
(* MempoolManager *)

(* The least element of a nonempty set of naturals is one of them. *)
LEMMA LeastElement ==
    ASSUME NEW I \in SUBSET Nat, I # {}
    PROVE  Min(I) \in I /\ \A j \in I : Min(I) <= j
<1>1. PICK i \in I : \A j \in I : ~ (<<j, i>> \in OpToRel(<, Nat))
  BY NatLessThanWellFounded, WFMin
<1>2. \A j \in I : i <= j
  <2> SUFFICES ASSUME NEW j \in I PROVE i <= j
    OBVIOUS
  <2>1. ~ (<<j, i>> \in OpToRel(<, Nat))
    BY <1>1
  <2>2. <<j, i>> \in Nat \X Nat
    OBVIOUS
  <2>3. ~ (j < i)
    BY <2>1, <2>2, Zenon DEF OpToRel
  <2> QED
    BY <2>3
<1> QED
  BY <1>2 DEF Min

(* What SelectInSeq returns: 0 when no element passes, else the first index. *)
LEMMA SearchByKey ==
    ASSUME NEW pool \in Seq(PoolEntry), NEW s, NEW n
    PROVE  LET i == FindBySenderNonce(pool, s, n)
           IN  /\ i = 0 => \A j \in DOMAIN pool :
                              ~ (pool[j].userOp.sender = s /\ pool[j].userOp.nonce = n)
               /\ i # 0 => /\ i \in DOMAIN pool
                           /\ pool[i].userOp.sender = s
                           /\ pool[i].userOp.nonce = n
<1> DEFINE I == {j \in 1..Len(pool) : pool[j].userOp.sender = s /\ pool[j].userOp.nonce = n}
<1>1. FindBySenderNonce(pool, s, n) = IF I # {} THEN Min(I) ELSE 0
  BY DEF FindBySenderNonce, SelectInSeq
<1>2. I \subseteq Nat /\ DOMAIN pool = 1..Len(pool)
  OBVIOUS
<1>3. I # {} => Min(I) \in I
  BY <1>2, LeastElement
<1> QED
  BY <1>1, <1>2, <1>3

(* findByHash answers -1 or the index of an entry. *)
LEMMA SearchByHash ==
    ASSUME NEW pool \in Seq(PoolEntry), NEW hash
    PROVE  LET i == FindByHash(pool, hash)
           IN  i = 0 \/ i \in DOMAIN pool
<1> DEFINE I == {j \in 1..Len(pool) : pool[j].userOpHash = hash}
<1>1. FindByHash(pool, hash) = IF I # {} THEN Min(I) ELSE 0
  BY DEF FindByHash, SelectInSeq
<1>2. I \subseteq Nat /\ DOMAIN pool = 1..Len(pool)
  OBVIOUS
<1>3. I # {} => Min(I) \in I
  BY <1>2, LeastElement
<1> QED
  BY <1>1, <1>2, <1>3

(* RemoveAt closes the gap and changes nothing else. *)
LEMMA RemoveAtIndex ==
    ASSUME NEW S, NEW seq \in Seq(S), NEW i \in 1..Len(seq)
    PROVE  /\ RemoveAt(seq, i) \in Seq(S)
           /\ Len(RemoveAt(seq, i)) = Len(seq) - 1
           /\ \A k \in 1..(Len(seq) - 1) :
                 RemoveAt(seq, i)[k] = IF k < i THEN seq[k] ELSE seq[k + 1]
<1> DEFINE a == SubSeq(seq, 1, i - 1)
           b == SubSeq(seq, i + 1, Len(seq))
<1>1. a \in Seq(S) /\ Len(a) = i - 1 /\ \A k \in 1..(i - 1) : a[k] = seq[k]
  BY SubSeqProperties
<1>2. b \in Seq(S) /\ Len(b) = Len(seq) - i /\ \A k \in 1..(Len(seq) - i) : b[k] = seq[i + k]
  BY SubSeqProperties
<1>3. /\ a \o b \in Seq(S)
      /\ Len(a \o b) = Len(a) + Len(b)
      /\ \A k \in 1..(Len(a) + Len(b)) :
            (a \o b)[k] = IF k <= Len(a) THEN a[k] ELSE b[k - Len(a)]
  <2> HIDE DEF a, b
  <2> QED BY <1>1, <1>2, ConcatProperties
<1>4. RemoveAt(seq, i) = a \o b
  BY DEF RemoveAt
<1>5. Len(a) + Len(b) = Len(seq) - 1
  <2> HIDE DEF a, b
  <2> QED BY <1>1, <1>2
<1>6. ASSUME NEW k \in 1..(Len(seq) - 1)
      PROVE  (a \o b)[k] = IF k < i THEN seq[k] ELSE seq[k + 1]
  <2>1. CASE k < i
    <3>1. (a \o b)[k] = a[k]
      <4> HIDE DEF a, b
      <4> QED BY <1>1, <1>3, <1>5, <2>1
    <3> QED BY <3>1, <1>1, <2>1
  <2>2. CASE ~ (k < i)
    <3>1. (a \o b)[k] = b[k - (i - 1)]
      <4> HIDE DEF a, b
      <4> QED BY <1>1, <1>3, <1>5, <2>2
    <3>2. k - (i - 1) \in 1..(Len(seq) - i) /\ i + (k - (i - 1)) = k + 1
      BY <2>2
    <3> QED BY <3>1, <3>2, <1>2, <2>2
  <2> QED BY <2>1, <2>2
<1> QED
  <2> HIDE DEF a, b
  <2> QED BY <1>3, <1>4, <1>5, <1>6

---------------------------------------------------------------------------
(* Counting the positions of a sequence that hold an element of a set.      *)

Where(seq, T) == {k \in DOMAIN seq : seq[k] \in T}

(* The positions of a sequence whose elements are in T can be counted. *)
LEMMA WhereFinite ==
    ASSUME NEW S, NEW seq \in Seq(S), NEW T
    PROVE  /\ IsFiniteSet(Where(seq, T))
           /\ Cardinality(Where(seq, T)) \in Nat
<1>1. IsFiniteSet(1..Len(seq))
  BY FS_Interval
<1>2. Where(seq, T) \subseteq 1..Len(seq)
  BY DEF Where
<1>3. IsFiniteSet(Where(seq, T))
  BY <1>1, <1>2, FS_Subset
<1> QED
  BY <1>3, FS_CardinalityType

(* mempool.push adds one to the count of what it pushes, and to no other. *)
LEMMA WhereAppend ==
    ASSUME NEW S, NEW seq \in Seq(S), NEW e \in S, NEW T
    PROVE  Cardinality(Where(Append(seq, e), T)) =
              Cardinality(Where(seq, T)) + (IF e \in T THEN 1 ELSE 0)
<1> DEFINE n == Len(seq) + 1
<1>1. /\ DOMAIN Append(seq, e) = 1..n
      /\ Append(seq, e)[n] = e
      /\ \A k \in 1..Len(seq) : Append(seq, e)[k] = seq[k]
  OBVIOUS
<1>2. DOMAIN seq = 1..Len(seq) /\ n \notin DOMAIN seq /\ 1..n = DOMAIN seq \cup {n}
  OBVIOUS
<1>3. CASE e \in T
  <2>1. Where(Append(seq, e), T) = Where(seq, T) \cup {n}
    <3> HIDE DEF n
    <3> QED BY <1>1, <1>2, <1>3 DEF Where
  <2>2. n \notin Where(seq, T)
    BY <1>2 DEF Where
  <2> QED
    BY <1>3, <2>1, <2>2, WhereFinite, FS_AddElement
<1>4. CASE e \notin T
  <2>1. Where(Append(seq, e), T) = Where(seq, T)
    <3> HIDE DEF n
    <3> QED BY <1>1, <1>2, <1>4 DEF Where
  <2> QED
    BY <1>4, <2>1, WhereFinite
<1> QED
  BY <1>3, <1>4

(* splice(index, 1) takes one off the count of what it removes, and off no  *)
(* other: the positions left are those before, closed up.                   *)
LEMMA WhereRemoveAt ==
    ASSUME NEW S, NEW seq \in Seq(S), NEW i \in 1..Len(seq), NEW T
    PROVE  Cardinality(Where(RemoveAt(seq, i), T)) =
              Cardinality(Where(seq, T)) - (IF seq[i] \in T THEN 1 ELSE 0)
<1> DEFINE r == RemoveAt(seq, i)
           A == Where(r, T)
           B == Where(seq, T) \ {i}
           Old(k) == IF k < i THEN k ELSE k + 1
           f == [k \in A |-> Old(k)]
<1>1. /\ r \in Seq(S)
      /\ Len(r) = Len(seq) - 1
      /\ \A k \in 1..(Len(seq) - 1) : r[k] = seq[Old(k)]
  BY RemoveAtIndex
<1>2. DOMAIN r = 1..(Len(seq) - 1) /\ DOMAIN seq = 1..Len(seq)
  BY <1>1
<1>3. f \in Bijection(A, B)
  <2> HIDE DEF r
  <2>1. \A k \in A : Old(k) \in B
    BY <1>1, <1>2 DEF Where
  <2>2. \A k, l \in A : Old(k) = Old(l) => k = l
    BY <1>1, <1>2 DEF Where
  <2>3. ASSUME NEW j \in B PROVE \E k \in A : Old(k) = j
    <3>1. j \in 1..Len(seq) /\ j # i /\ seq[j] \in T
      BY <1>2 DEF Where
    <3>2. CASE j < i
      <4>1. j \in A /\ Old(j) = j
        BY <1>1, <1>2, <3>1, <3>2 DEF Where
      <4> QED BY <4>1
    <3>3. CASE j > i
      <4>1. j - 1 \in A /\ Old(j - 1) = j
        BY <1>1, <1>2, <3>1, <3>3 DEF Where
      <4> QED BY <4>1
    <3> QED BY <3>1, <3>2, <3>3
  <2> HIDE DEF A, B
  <2>4. f \in [A -> B] /\ \A k \in A : f[k] = Old(k)
    BY <2>1
  <2> HIDE DEF f
  <2>5. f \in Injection(A, B)
    BY <2>2, <2>4 DEF Injection, IsInjective
  <2>6. f \in Surjection(A, B)
    BY <2>3, <2>4 DEF Surjection
  <2> QED
    BY <2>5, <2>6 DEF Bijection
<1>4. IsFiniteSet(Where(seq, T)) /\ Cardinality(Where(seq, T)) \in Nat
  BY WhereFinite
<1>5. /\ IsFiniteSet(B)
      /\ Cardinality(B) = IF i \in Where(seq, T) THEN Cardinality(Where(seq, T)) - 1
                                                ELSE Cardinality(Where(seq, T))
  BY <1>4, FS_RemoveElement
<1>6. Cardinality(A) = Cardinality(B)
  <2>1. IsFiniteSet(A)
    BY <1>1, WhereFinite
  <2>2. ExistsBijection(A, B)
    BY <1>3 DEF ExistsBijection
  <2> QED BY <2>1, <2>2, <1>5, FS_Bijection
<1>7. i \in Where(seq, T) <=> seq[i] \in T
  BY <1>2 DEF Where
<1> QED
  BY <1>4, <1>5, <1>6, <1>7

(* Overwriting an element by one of the same kind moves no position. *)
LEMMA WhereExcept ==
    ASSUME NEW S, NEW seq \in Seq(S), NEW i \in 1..Len(seq), NEW e \in S, NEW T,
           e \in T <=> seq[i] \in T
    PROVE  Where([seq EXCEPT ![i] = e], T) = Where(seq, T)
BY DEF Where

---------------------------------------------------------------------------
(* The counters of operations per sender.                                  *)

CountsType(counts) ==
    DOMAIN counts \subseteq Addr /\ counts \in [DOMAIN counts -> Nat \ {0}]

(* entryCount[sender] ?? 0 is a natural number. *)
LEMMA CountIsNat ==
    ASSUME NEW counts, CountsType(counts), NEW s
    PROVE  CountOf(counts, s) \in Nat
BY DEF CountsType, CountOf

(* Assigning a sender's counter changes that counter only. *)
LEMMA SetCountSets ==
    ASSUME NEW counts, CountsType(counts), NEW s \in Addr, NEW n \in Nat \ {0}
    PROVE  /\ CountsType(SetCount(counts, s, n))
           /\ \A t : CountOf(SetCount(counts, s, n), t) =
                     IF t = s THEN n ELSE CountOf(counts, t)
BY DEF CountsType, CountOf, SetCount

(* The counter code of removeUserOp takes one off the sender's count, or     *)
(* deletes it when nothing is left, and touches no other.                   *)
LEMMA UncountedLowers ==
    ASSUME NEW counts, CountsType(counts), NEW s \in Addr
    PROVE  /\ CountsType(Uncounted(counts, s))
           /\ \A t : CountOf(Uncounted(counts, s), t) =
                     IF t # s THEN CountOf(counts, t)
                     ELSE IF CountOf(counts, s) = 0 THEN 0 ELSE CountOf(counts, s) - 1
<1>1. CountOf(counts, s) \in Nat
  BY CountIsNat
<1>2. CASE CountOf(counts, s) - 1 <= 0
  <2>1. Uncounted(counts, s) = [t \in DOMAIN counts \ {s} |-> counts[t]]
    BY <1>2 DEF Uncounted
  <2>2. CountsType(Uncounted(counts, s))
    BY <2>1 DEF CountsType
  <2>3. ASSUME NEW t
        PROVE  CountOf(Uncounted(counts, s), t) = IF t = s THEN 0 ELSE CountOf(counts, t)
    BY <2>1 DEF CountOf
  <2> QED
    BY <1>1, <1>2, <2>2, <2>3
<1>3. CASE ~ (CountOf(counts, s) - 1 <= 0)
  <2>1. CountOf(counts, s) - 1 \in Nat \ {0}
    BY <1>1, <1>3
  <2>2. Uncounted(counts, s) = SetCount(counts, s, CountOf(counts, s) - 1)
    BY <1>3 DEF Uncounted
  <2> QED
    BY <1>1, <1>3, <2>1, <2>2, SetCountSets
<1> QED
  BY <1>2, <1>3

---------------------------------------------------------------------------
(* The inductive invariant.                                                *)

Inv ==
    /\ MempoolTypeOK
    /\ OneOpPerSenderNonce
    /\ CountCoversPool
    /\ UnstakedSendersLimited

OfSender(s) == {e \in PoolEntry : e.userOp.sender = s}

(* A sender's positions in the queue, as positions of a kind of entry. *)
LEMMA PositionsAreWhere ==
    ASSUME mempool \in Seq(PoolEntry), NEW s
    PROVE  /\ PositionsOf(s) = Where(mempool, OfSender(s))
           /\ IsFiniteSet(PositionsOf(s))
           /\ Cardinality(PositionsOf(s)) \in Nat
<1>1. \A i \in DOMAIN mempool : mempool[i] \in PoolEntry
  OBVIOUS
<1>2. PositionsOf(s) = Where(mempool, OfSender(s))
  BY <1>1 DEF PositionsOf, Where, OfSender
<1> QED
  BY <1>2, WhereFinite

(* An entry is about an operation that was submitted, of a known address. *)
LEMMA EntryFields ==
    ASSUME NEW e \in PoolEntry
    PROVE  /\ e.userOp \in UserOps
           /\ e.userOp.sender \in Addr
<1>1. PICK op \in UserOps, g \in Aggregators : e = MempoolEntry(op, g)
  BY DEF PoolEntry
<1>2. e.userOp = op
  BY <1>1 DEF MempoolEntry
<1> QED
  BY <1>2, MempoolAssumption DEF UserOperation

(* The empty mempool satisfies the invariant. *)
LEMMA InitInv == MempoolInit => Inv
<1> SUFFICES ASSUME MempoolInit PROVE Inv
  OBVIOUS
<1>1. mempool = <<>> /\ DOMAIN mempool = {}
  BY DEF MempoolInit
<1>2. MempoolTypeOK
  BY DEF MempoolInit, MempoolTypeOK
<1>3. \A s : Cardinality(PositionsOf(s)) = 0
  BY <1>1, FS_EmptySet DEF PositionsOf
<1>4. \A s : CountOf(entryCount, s) = 0
  BY DEF MempoolInit, CountOf
<1> QED
  BY <1>1, <1>2, <1>3, <1>4, MempoolAssumption
     DEF Inv, OneOpPerSenderNonce, CountCoversPool, UnstakedSendersLimited

(* A replacement keeps the key of the entry it overwrites. *)
LEMMA ReplaceKeepsInv ==
    ASSUME Inv, NEW op \in UserOps, NEW g \in Aggregators, ReplaceUserOp(op, g)
    PROVE  Inv'
<1> DEFINE i == FindBySenderNonce(mempool, op.sender, op.nonce)
           e == MempoolEntry(op, g)
<1>1. mempool \in Seq(PoolEntry) /\ i # 0
  BY DEF Inv, MempoolTypeOK, ReplaceUserOp
<1>2. i \in DOMAIN mempool /\ SameKey(mempool[i].userOp, op)
  BY <1>1, SearchByKey DEF SameKey
<1>3. i \in 1..Len(mempool) /\ e \in PoolEntry /\ e.userOp = op
  BY <1>1, <1>2 DEF PoolEntry, MempoolEntry
<1>4. /\ mempool' = [mempool EXCEPT ![i] = e]
      /\ entryCount' = entryCount
      /\ whitelist' = whitelist
  BY DEF ReplaceUserOp
<1> HIDE DEF i, e
<1>5. MempoolTypeOK'
  BY <1>1, <1>3, <1>4 DEF Inv, MempoolTypeOK
<1>6. DOMAIN mempool' = DOMAIN mempool
      /\ \A j \in DOMAIN mempool :
            mempool'[j] = IF j = i THEN e ELSE mempool[j]
  BY <1>1, <1>3, <1>4
<1>7. \A j \in DOMAIN mempool :
          /\ mempool'[j].userOp.sender = mempool[j].userOp.sender
          /\ mempool'[j].userOp.nonce = mempool[j].userOp.nonce
  BY <1>2, <1>3, <1>6 DEF SameKey
<1>8. OneOpPerSenderNonce'
  BY <1>6, <1>7 DEF Inv, OneOpPerSenderNonce, SameKey
<1>9. \A s : PositionsOf(s)' = PositionsOf(s)
  BY <1>6, <1>7 DEF PositionsOf
<1> QED
  BY <1>4, <1>5, <1>8, <1>9 DEF Inv, CountCoversPool, UnstakedSendersLimited

(* A push raises the count of its sender together with its positions; past *)
(* the limit only a stake or the whitelist lets it through.                *)
LEMMA PushKeepsInv ==
    ASSUME Inv, NEW op \in UserOps, NEW g \in Aggregators, PushUserOp(op, g)
    PROVE  Inv'
<1> DEFINE e == MempoolEntry(op, g)
           c == CountOf(entryCount, op.sender)
<1>1. /\ mempool \in Seq(PoolEntry)
      /\ e \in PoolEntry
      /\ e.userOp = op
      /\ op.sender \in Addr
      /\ CountsType(entryCount)
  BY MempoolAssumption
     DEF Inv, MempoolTypeOK, PoolEntry, MempoolEntry, UserOperation, CountsType
<1>2. /\ FindBySenderNonce(mempool, op.sender, op.nonce) = 0
      /\ c + 1 > MaxUserOpsPerSender => StakeAccepted(entries, SenderInfo(op))
      /\ mempool' = Append(mempool, e)
      /\ entryCount' = SetCount(entryCount, op.sender, c + 1)
      /\ whitelist' = whitelist
  BY DEF PushUserOp
<1>3. c \in Nat
  BY <1>1, CountIsNat
<1> HIDE DEF e, c
<1>4. CountsType(entryCount') /\ \A s : CountOf(entryCount', s) =
                                        IF s = op.sender THEN c + 1 ELSE CountOf(entryCount, s)
  BY <1>1, <1>2, <1>3, SetCountSets
<1>5. MempoolTypeOK'
  BY <1>1, <1>2, <1>4 DEF MempoolTypeOK, CountsType
<1>6. OneOpPerSenderNonce'
  <2>1. \A j \in DOMAIN mempool : ~ SameKey(mempool[j].userOp, op)
    BY <1>1, <1>2, SearchByKey DEF SameKey
  <2>2. /\ DOMAIN mempool' = DOMAIN mempool \cup {Len(mempool) + 1}
        /\ mempool'[Len(mempool) + 1] = e
        /\ \A j \in DOMAIN mempool : mempool'[j] = mempool[j]
    BY <1>1, <1>2
  <2> QED
    BY <1>1, <2>1, <2>2 DEF Inv, OneOpPerSenderNonce, SameKey
<1>7. ASSUME NEW s
      PROVE  Cardinality(PositionsOf(s)') =
                Cardinality(PositionsOf(s)) + (IF s = op.sender THEN 1 ELSE 0)
  <2>1. e \in OfSender(s) <=> s = op.sender
    BY <1>1 DEF OfSender
  <2>2. PositionsOf(s)' = Where(Append(mempool, e), OfSender(s))
    <3>1. mempool' \in Seq(PoolEntry)
      BY <1>5 DEF MempoolTypeOK
    <3>2. \A j \in DOMAIN mempool' : mempool'[j] \in PoolEntry
      BY <3>1
    <3> QED
      BY <1>2, <3>2 DEF PositionsOf, Where, OfSender
  <2> QED
    BY <1>1, <2>1, <2>2, WhereAppend, PositionsAreWhere
<1>8. \A s : Cardinality(PositionsOf(s)) \in Nat
  BY <1>1, PositionsAreWhere
<1>9. CountCoversPool'
  <2> SUFFICES ASSUME NEW s \in Addr
               PROVE  Cardinality(PositionsOf(s)') <= CountOf(entryCount', s)
    BY DEF CountCoversPool
  <2>1. Cardinality(PositionsOf(s)) <= CountOf(entryCount, s)
    BY DEF Inv, CountCoversPool
  <2>2. CountOf(entryCount, s) \in Nat /\ (s = op.sender => CountOf(entryCount, s) = c)
    BY <1>1, CountIsNat DEF c
  <2> QED
    BY <1>3, <1>4, <1>7, <1>8, <2>1, <2>2
<1>10. UnstakedSendersLimited'
  <2> SUFFICES ASSUME NEW s \in Addr, s \notin whitelist, ~ StakeIsEnough(s)
               PROVE  Cardinality(PositionsOf(s)') <= MaxUserOpsPerSender
    BY <1>2 DEF UnstakedSendersLimited, StakeIsEnough
  <2>1. CASE s # op.sender
    BY <1>7, <1>8, <2>1 DEF Inv, UnstakedSendersLimited
  <2>2. CASE s = op.sender
    <3>1. ~ StakeAccepted(entries, SenderInfo(op))
      BY <2>2, NoAddrAssumption DEF StakeAccepted, SenderInfo, StakeIsEnough
    <3>2. c + 1 <= MaxUserOpsPerSender
      BY <1>2, <1>3, <3>1, MempoolAssumption
    <3>3. Cardinality(PositionsOf(s)) <= c
      BY <2>2 DEF Inv, CountCoversPool, c
    <3> QED
      BY <1>3, <1>7, <1>8, <2>2, <3>2, <3>3, MempoolAssumption
  <2> QED
    BY <2>1, <2>2
<1> QED
  BY <1>5, <1>6, <1>9, <1>10 DEF Inv

(* A refusal only raises a count. *)
LEMMA RefuseKeepsInv ==
    ASSUME Inv, NEW op \in UserOps, RefuseUserOp(op)
    PROVE  Inv'
<1> DEFINE c == CountOf(entryCount, op.sender)
<1>1. op.sender \in Addr /\ CountsType(entryCount) /\ mempool \in Seq(PoolEntry)
  BY MempoolAssumption DEF Inv, MempoolTypeOK, UserOperation, CountsType
<1>2. /\ entryCount' = SetCount(entryCount, op.sender, c + 1)
      /\ mempool' = mempool
      /\ whitelist' = whitelist
  BY DEF RefuseUserOp
<1>3. c \in Nat
  BY <1>1, CountIsNat
<1>4. CountsType(entryCount') /\ \A s : CountOf(entryCount', s) =
                                        IF s = op.sender THEN c + 1 ELSE CountOf(entryCount, s)
  <2> HIDE DEF c
  <2> QED BY <1>1, <1>2, <1>3, SetCountSets
<1>5. \A s : PositionsOf(s)' = PositionsOf(s) /\ Cardinality(PositionsOf(s)) \in Nat
  BY <1>1, <1>2, PositionsAreWhere DEF PositionsOf
<1>6. CountCoversPool'
  BY <1>1, <1>3, <1>4, <1>5, CountIsNat DEF Inv, CountCoversPool
<1>7. MempoolTypeOK' /\ OneOpPerSenderNonce'
  BY <1>2, <1>4 DEF Inv, MempoolTypeOK, OneOpPerSenderNonce, CountsType
<1>8. UnstakedSendersLimited'
  BY <1>2, <1>5 DEF Inv, UnstakedSendersLimited
<1> QED
  BY <1>6, <1>7, <1>8 DEF Inv

(* Taking out the entry at a position, as both removals do, or none. *)
LEMMA RemovalKeepsInv ==
    ASSUME Inv, NEW i, i = 0 \/ i \in DOMAIN mempool,
           SetPool(RemovedAt(Pool, i)), UNCHANGED repVars
    PROVE  Inv'
<1>1. whitelist' = whitelist /\ mempool \in Seq(PoolEntry) /\ CountsType(entryCount)
  BY DEF repVars, Inv, MempoolTypeOK, CountsType
<1>2. CASE i = 0
  <2>1. UNCHANGED <<mempool, entryCount, whitelist>>
    BY <1>1, <1>2 DEF SetPool, RemovedAt, Pool
  <2> QED
    BY <2>1 DEF Inv, MempoolTypeOK, OneOpPerSenderNonce, CountCoversPool,
                UnstakedSendersLimited, PositionsOf
<1>3. CASE i # 0
  <2> DEFINE sender == mempool[i].userOp.sender
  <2>1. /\ i \in 1..Len(mempool)
        /\ mempool' = RemoveAt(mempool, i)
        /\ entryCount' = Uncounted(entryCount, sender)
    BY <1>1, <1>3 DEF SetPool, RemovedAt, Pool
  <2>2. mempool[i] \in PoolEntry /\ sender \in Addr
    BY <1>1, <2>1, EntryFields
  <2> HIDE DEF sender
  <2>3. /\ CountsType(entryCount')
        /\ \A s : CountOf(entryCount', s) =
                  IF s # sender THEN CountOf(entryCount, s)
                  ELSE IF CountOf(entryCount, sender) = 0 THEN 0
                       ELSE CountOf(entryCount, sender) - 1
    BY <1>1, <2>1, <2>2, UncountedLowers
  <2>4. /\ mempool' \in Seq(PoolEntry)
        /\ Len(mempool') = Len(mempool) - 1
        /\ \A k \in 1..(Len(mempool) - 1) :
              mempool'[k] = IF k < i THEN mempool[k] ELSE mempool[k + 1]
    BY <1>1, <2>1, RemoveAtIndex
  <2>5. MempoolTypeOK'
    BY <2>3, <2>4 DEF MempoolTypeOK, CountsType
  <2>6. OneOpPerSenderNonce'
    <3> DEFINE Old(k) == IF k < i THEN k ELSE k + 1
    <3> SUFFICES ASSUME NEW j \in DOMAIN mempool', NEW k \in DOMAIN mempool',
                        SameKey(mempool'[j].userOp, mempool'[k].userOp)
                 PROVE  j = k
      BY DEF OneOpPerSenderNonce
    <3>1. j \in 1..(Len(mempool) - 1) /\ k \in 1..(Len(mempool) - 1)
      BY <2>4
    <3>2. Old(j) \in DOMAIN mempool /\ Old(k) \in DOMAIN mempool
      BY <1>1, <2>1, <3>1
    <3>3. mempool'[j] = mempool[Old(j)] /\ mempool'[k] = mempool[Old(k)]
      BY <2>4, <3>1
    <3>4. Old(j) = Old(k)
      <4> HIDE DEF Old
      <4> QED BY <3>2, <3>3 DEF Inv, OneOpPerSenderNonce
    <3> QED
      BY <2>1, <3>1, <3>4
  <2>7. ASSUME NEW s
        PROVE  Cardinality(PositionsOf(s)') =
                  Cardinality(PositionsOf(s)) - (IF s = sender THEN 1 ELSE 0)
    <3>1. mempool[i] \in OfSender(s) <=> s = sender
      BY <2>2 DEF OfSender, sender
    <3>2. PositionsOf(s)' = Where(mempool', OfSender(s))
      <4>1. \A j \in DOMAIN mempool' : mempool'[j] \in PoolEntry
        BY <2>4
      <4> QED
        BY <4>1 DEF PositionsOf, Where, OfSender
    <3>3. Cardinality(Where(RemoveAt(mempool, i), OfSender(s))) =
             Cardinality(Where(mempool, OfSender(s)))
             - (IF mempool[i] \in OfSender(s) THEN 1 ELSE 0)
      BY <1>1, <2>1, WhereRemoveAt
    <3>4. PositionsOf(s) = Where(mempool, OfSender(s))
      BY <1>1, PositionsAreWhere
    <3> QED
      BY <2>1, <3>1, <3>2, <3>3, <3>4
  <2>8. \A s : Cardinality(PositionsOf(s)) \in Nat /\ CountOf(entryCount, s) \in Nat
    BY <1>1, PositionsAreWhere, CountIsNat
  <2>9. Cardinality(PositionsOf(sender)) >= 1
    <3>1. i \in PositionsOf(sender)
      BY <1>1, <2>1 DEF PositionsOf, sender
    <3>2. IsFiniteSet(PositionsOf(sender))
      BY <1>1, PositionsAreWhere
    <3>3. Cardinality(PositionsOf(sender)) # 0
      BY <3>1, <3>2, FS_EmptySet
    <3> QED
      BY <2>8, <3>3
  <2>10. CountCoversPool'
    BY <2>2, <2>3, <2>7, <2>8, <2>9 DEF Inv, CountCoversPool
  <2>11. UnstakedSendersLimited'
    BY <1>1, <2>7, <2>8, MempoolAssumption
       DEF Inv, UnstakedSendersLimited, StakeIsEnough
  <2> QED
    BY <2>5, <2>6, <2>10, <2>11 DEF Inv
<1> QED
  BY <1>2, <1>3

(* clearState leaves the empty mempool. *)
LEMMA ClearKeepsInv ==
    ASSUME ClearState
    PROVE  Inv'
<1>1. mempool' = <<>> /\ DOMAIN mempool' = {} /\ entryCount' = [s \in {} |-> 0]
  BY DEF ClearState
<1>2. MempoolTypeOK'
  BY <1>1 DEF MempoolTypeOK
<1>3. \A s : Cardinality(PositionsOf(s)') = 0
  BY <1>1, FS_EmptySet DEF PositionsOf
<1>4. \A s : CountOf(entryCount', s) = 0
  BY <1>1 DEF CountOf
<1> QED
  BY <1>1, <1>2, <1>3, <1>4, MempoolAssumption
     DEF Inv, OneOpPerSenderNonce, CountCoversPool, UnstakedSendersLimited

(* Steps that only touch reputations. *)
LEMMA StutterKeepsInv ==
    ASSUME Inv, UNCHANGED <<mempool, entryCount, whitelist>>
    PROVE  Inv'
BY DEF Inv, MempoolTypeOK, OneOpPerSenderNonce, CountCoversPool,
       UnstakedSendersLimited, PositionsOf

(* Every method of the mempool, and every removal the events and the        *)
(* bundler make, keeps the invariant.                                       *)
LEMMA NextKeepsInv == Inv /\ [MempoolNext]_mempoolVars => Inv'
<1> SUFFICES ASSUME Inv, [MempoolNext]_mempoolVars PROVE Inv'
  OBVIOUS
<1>0. mempool \in Seq(PoolEntry)
  BY DEF Inv, MempoolTypeOK
<1>1. ASSUME NEW op \in UserOps, NEW g \in Aggregators, AddUserOp(op, g)
      PROVE  Inv'
  BY <1>1, ReplaceKeepsInv, PushKeepsInv, RefuseKeepsInv DEF AddUserOp
<1>2. ASSUME NEW op \in UserOps, RemoveUserOp(op)
      PROVE  Inv'
  <2> DEFINE i == FindBySenderNonce(mempool, op.sender, op.nonce)
  <2>1. i = 0 \/ i \in DOMAIN mempool
    BY <1>0, SearchByKey
  <2>2. SetPool(RemovedAt(Pool, i)) /\ UNCHANGED repVars
    BY <1>2 DEF RemoveUserOp, RemovedOp, Pool
  <2> HIDE DEF i
  <2> QED
    BY <2>1, <2>2, RemovalKeepsInv
<1>3. ASSUME NEW hash, RemoveUserOpHash(hash)
      PROVE  Inv'
  <2> DEFINE i == FindByHash(mempool, hash)
  <2>1. i = 0 \/ i \in DOMAIN mempool
    BY <1>0, SearchByHash
  <2>2. SetPool(RemovedAt(Pool, i)) /\ UNCHANGED repVars
    BY <1>3 DEF RemoveUserOpHash, RemovedHash, Pool
  <2> HIDE DEF i
  <2> QED
    BY <2>1, <2>2, RemovalKeepsInv
<1>4. CASE ReputationStep
  BY <1>4, StutterKeepsInv
     DEF ReputationStep, HourlyCron, CrashedHandleOps, SetReputation, poolVars
<1>5. CASE ClearState
  BY <1>5, ClearKeepsInv
<1>6. CASE UNCHANGED mempoolVars
  BY <1>6, StutterKeepsInv DEF mempoolVars
<1> QED
  BY <1>1, <1>2, <1>3, <1>4, <1>5, <1>6 DEF MempoolNext

---------------------------------------------------------------------------
(* The results.                                                            *)

(* Type correctness of the pool and its counters, whatever operations,      *)
(* stakes, limits and removals there are.                                   *)
THEOREM TypeCorrect == MempoolSpec => []MempoolTypeOK
<1>1. Inv => MempoolTypeOK
  BY DEF Inv
<1> QED
  BY InitInv, NextKeepsInv, <1>1, PTL DEF MempoolSpec

(* The pool never holds two operations with the same sender and nonce.     *)
THEOREM OneOp == MempoolSpec => []OneOpPerSenderNonce
<1>1. Inv => OneOpPerSenderNonce
  BY DEF Inv
<1> QED
  BY InitInv, NextKeepsInv, <1>1, PTL DEF MempoolSpec

(* entryCount never undercounts a sender, although a refused operation      *)
(* makes it overcount.                                                     *)
THEOREM CountsCover == MempoolSpec => []CountCoversPool
<1>1. Inv => CountCoversPool
  BY DEF Inv
<1> QED
  BY InitInv, NextKeepsInv, <1>1, PTL DEF MempoolSpec

(* No sender without a stake or a place in the whitelist ever has more than *)
(* MaxUserOpsPerSender operations in the pool: the check that addUserOp     *)
(* makes on its counter is a check on the pool.                            *)
THEOREM UnstakedLimit == MempoolSpec => []UnstakedSendersLimited
<1>1. Inv => UnstakedSendersLimited
  BY DEF Inv
<1> QED
  BY InitInv, NextKeepsInv, <1>1, PTL DEF MempoolSpec

---------------------------------------------------------------------------
(* The sort for inclusion.                                                 *)

CostAt(pool, i) == pool[i].userOp.maxPriorityFeePerGas

SortsBefore(pool, i, j) ==
    CostAt(pool, i) < CostAt(pool, j) \/ (CostAt(pool, i) = CostAt(pool, j) /\ i < j)

Earlier(pool, j) == {i \in DOMAIN pool : SortsBefore(pool, i, j)}

RankIn(pool, j) == Cardinality(Earlier(pool, j)) + 1

(* The order of the sort is strict and total, since fees are numbers. *)
LEMMA SortsBeforeIsOrder ==
    ASSUME NEW pool \in Seq(PoolEntry)
    PROVE  /\ \A i \in DOMAIN pool : ~ SortsBefore(pool, i, i)
           /\ \A i, j \in DOMAIN pool :
                 i # j => SortsBefore(pool, i, j) \/ SortsBefore(pool, j, i)
           /\ \A i, j, k \in DOMAIN pool :
                 SortsBefore(pool, i, j) /\ SortsBefore(pool, j, k) => SortsBefore(pool, i, k)
<1>1. \A i \in DOMAIN pool : i \in Nat /\ CostAt(pool, i) \in Nat
  <2> SUFFICES ASSUME NEW i \in DOMAIN pool PROVE i \in Nat /\ CostAt(pool, i) \in Nat
    OBVIOUS
  <2>1. pool[i] \in PoolEntry /\ i \in Nat
    OBVIOUS
  <2>2. pool[i].userOp \in UserOps
    BY <2>1, EntryFields
  <2> QED
    BY <2>1, <2>2, MempoolAssumption DEF UserOperation, CostAt
<1> HIDE DEF CostAt
<1> QED
  BY <1>1 DEF SortsBefore

(* The rank of a place is a place, and it grows with the order. *)
LEMMA RankOrders ==
    ASSUME NEW pool \in Seq(PoolEntry)
    PROVE  /\ \A j \in DOMAIN pool : RankIn(pool, j) \in DOMAIN pool
           /\ \A i, j \in DOMAIN pool :
                 SortsBefore(pool, i, j) => RankIn(pool, i) < RankIn(pool, j)
<1>0. /\ DOMAIN pool = 1..Len(pool) /\ Len(pool) \in Nat
      /\ IsFiniteSet(DOMAIN pool) /\ Cardinality(DOMAIN pool) = Len(pool)
  <2>1. DOMAIN pool = 1..Len(pool) /\ Len(pool) \in Nat
    OBVIOUS
  <2>2. IsFiniteSet(1..Len(pool)) /\ Cardinality(1..Len(pool)) = Len(pool)
    BY <2>1, FS_Interval
  <2> QED
    BY <2>1, <2>2
<1>1. ASSUME NEW j \in DOMAIN pool
      PROVE  /\ Earlier(pool, j) \subseteq DOMAIN pool \ {j}
             /\ IsFiniteSet(Earlier(pool, j))
             /\ Cardinality(Earlier(pool, j)) \in 0..(Len(pool) - 1)
  <2>1. Earlier(pool, j) \subseteq DOMAIN pool \ {j}
    BY SortsBeforeIsOrder DEF Earlier
  <2>2. IsFiniteSet(DOMAIN pool \ {j}) /\ Cardinality(DOMAIN pool \ {j}) = Len(pool) - 1
    BY <1>0, FS_RemoveElement
  <2>3. IsFiniteSet(Earlier(pool, j)) /\ Cardinality(Earlier(pool, j)) <= Len(pool) - 1
    BY <2>1, <2>2, FS_Subset
  <2>4. Cardinality(Earlier(pool, j)) \in Nat
    BY <2>3, FS_CardinalityType
  <2> QED
    BY <1>0, <2>1, <2>3, <2>4
<1>2. \A j \in DOMAIN pool : RankIn(pool, j) \in DOMAIN pool
  BY <1>0, <1>1 DEF RankIn
<1>3. ASSUME NEW i \in DOMAIN pool, NEW j \in DOMAIN pool, SortsBefore(pool, i, j)
      PROVE  RankIn(pool, i) < RankIn(pool, j)
  <2>1. Earlier(pool, i) \subseteq Earlier(pool, j) /\ i \in Earlier(pool, j) /\ i \notin Earlier(pool, i)
    BY <1>3, SortsBeforeIsOrder DEF Earlier
  <2>2. /\ Cardinality(Earlier(pool, i)) <= Cardinality(Earlier(pool, j))
        /\ Cardinality(Earlier(pool, i)) # Cardinality(Earlier(pool, j))
    BY <1>1, <2>1, FS_Subset
  <2> QED
    BY <1>1, <2>2 DEF RankIn
<1> QED
  BY <1>2, <1>3

(* Every place is the rank of exactly one. *)
LEMMA RankIsPermutation ==
    ASSUME NEW pool \in Seq(PoolEntry)
    PROVE  /\ \A i, j \in DOMAIN pool : RankIn(pool, i) = RankIn(pool, j) => i = j
           /\ \A r \in DOMAIN pool : \E j \in DOMAIN pool : RankIn(pool, j) = r
<1> DEFINE D == DOMAIN pool
           rank == [j \in D |-> RankIn(pool, j)]
<1>1. \A j \in D : RankIn(pool, j) \in D
  BY RankOrders
<1>2. ASSUME NEW i \in D, NEW j \in D, RankIn(pool, i) = RankIn(pool, j) PROVE i = j
  <2>1. \A k \in D : RankIn(pool, k) \in Nat
    BY <1>1
  <2>2. ~ SortsBefore(pool, i, j) /\ ~ SortsBefore(pool, j, i)
    BY <1>2, <2>1, RankOrders
  <2> QED
    BY <2>2, SortsBeforeIsOrder
<1>3. IsFiniteSet(D)
  <2>1. IsFiniteSet(1..Len(pool)) /\ D = 1..Len(pool)
    BY FS_Interval
  <2> QED
    BY <2>1
<1> HIDE DEF D
<1>4. rank \in Injection(D, D)
  BY <1>1, <1>2 DEF Injection, IsInjective
<1>5. rank \in Surjection(D, D)
  BY <1>3, <1>4, FS_Injection
<1>6. \A r \in D : \E j \in D : rank[j] = r
  BY <1>5 DEF Surjection
<1> QED
  BY <1>2, <1>6 DEF D

(* The place that the sort fills with an entry is the entry's rank. *)
LEMMA SortedByRank ==
    ASSUME NEW pool \in Seq(PoolEntry)
    PROVE  /\ SortedForInclusion(pool) \in Seq(PoolEntry)
           /\ Len(SortedForInclusion(pool)) = Len(pool)
           /\ \A j \in DOMAIN pool : SortedForInclusion(pool)[RankIn(pool, j)] = pool[j]
<1> DEFINE At(r) == CHOOSE j \in DOMAIN pool : RankIn(pool, j) = r
<1>1. SortedForInclusion(pool) = [r \in DOMAIN pool |-> pool[At(r)]]
  BY DEF SortedForInclusion, RankIn, Earlier, SortsBefore, CostAt
<1>2. \A r \in DOMAIN pool : At(r) \in DOMAIN pool /\ RankIn(pool, At(r)) = r
  BY RankIsPermutation
<1>3. \A j \in DOMAIN pool : RankIn(pool, j) \in DOMAIN pool
  BY RankOrders
<1> HIDE DEF At
<1>4. \A j \in DOMAIN pool : At(RankIn(pool, j)) = j
  BY <1>2, <1>3, RankIsPermutation
<1>5. \A r \in DOMAIN pool : pool[At(r)] \in PoolEntry
  BY <1>2
<1>6. DOMAIN pool = 1..Len(pool) /\ Len(pool) \in Nat
  OBVIOUS
<1>7. [r \in DOMAIN pool |-> pool[At(r)]] \in Seq(PoolEntry)
      /\ Len([r \in DOMAIN pool |-> pool[At(r)]]) = Len(pool)
  BY <1>5, <1>6
<1> QED
  BY <1>1, <1>3, <1>4, <1>7

---------------------------------------------------------------------------
(* The queue implements the abstract map.                                  *)

ListIsConfigured == whitelist = ConfigWhitelist

(* No method of the mempool touches the whitelist. *)
LEMMA ListStays ==
    /\ MempoolInit => ListIsConfigured
    /\ ListIsConfigured /\ [MempoolNext]_mempoolVars => ListIsConfigured'
<1>1. MempoolInit => ListIsConfigured
  BY DEF MempoolInit, RepInit, ListIsConfigured
<1>2. ASSUME [MempoolNext]_mempoolVars PROVE UNCHANGED whitelist
  BY <1>2 DEF MempoolNext, AddUserOp, ReplaceUserOp, PushUserOp, RefuseUserOp,
              RemoveUserOp, RemoveUserOpHash, ReputationStep, HourlyCron,
              CrashedHandleOps, SetReputation,
              ClearState, RepClearState, repVars, mempoolVars
<1> QED
  BY <1>1, <1>2 DEF ListIsConfigured

(* The map's key is what _findBySenderNonce compares. *)
LEMMA KeysAgree ==
    ASSUME NEW e, NEW f
    PROVE  KeyOf(e) = KeyOf(f) <=> SameKey(e.userOp, f.userOp)
BY DEF KeyOf, SameKey

(* With one entry per key the map is determined by the entries. *)
KeysUnique(pool) ==
    \A i, j \in DOMAIN pool : KeyOf(pool[i]) = KeyOf(pool[j]) => i = j

KeysIn(pool) == {KeyOf(pool[i]) : i \in DOMAIN pool}

(* Looking a key up in the map gives the entry of the queue that has it. *)
LEMMA MapOfPool ==
    ASSUME NEW pool, KeysUnique(pool)
    PROVE  /\ DOMAIN MapOf(pool) = KeysIn(pool)
           /\ \A i \in DOMAIN pool : MapOf(pool)[KeyOf(pool[i])] = pool[i]
<1>1. DOMAIN MapOf(pool) = KeysIn(pool)
  BY DEF MapOf, KeysIn
<1>2. ASSUME NEW i \in DOMAIN pool
      PROVE  MapOf(pool)[KeyOf(pool[i])] = pool[i]
  <2> DEFINE j == CHOOSE j \in DOMAIN pool : KeyOf(pool[j]) = KeyOf(pool[i])
  <2>1. j \in DOMAIN pool /\ KeyOf(pool[j]) = KeyOf(pool[i])
    OBVIOUS
  <2>2. j = i
    BY <2>1 DEF KeysUnique
  <2>3. MapOf(pool)[KeyOf(pool[i])] = pool[j]
    BY DEF MapOf
  <2> QED
    BY <2>2, <2>3
<1> QED
  BY <1>1, <1>2

(* A function with the keys and entries of the queue is the queue's map. *)
LEMMA MapIsDetermined ==
    ASSUME NEW pool, KeysUnique(pool), NEW f,
           f = [k \in KeysIn(pool) |-> f[k]],
           \A i \in DOMAIN pool : f[KeyOf(pool[i])] = pool[i]
    PROVE  MapOf(pool) = f
<1>1. ASSUME NEW k \in KeysIn(pool) PROVE MapOf(pool)[k] = f[k]
  <2>1. PICK i \in DOMAIN pool : k = KeyOf(pool[i])
    BY DEF KeysIn
  <2>2. MapOf(pool)[KeyOf(pool[i])] = pool[i]
    BY MapOfPool
  <2> QED
    BY <2>1, <2>2
<1>2. MapOf(pool) = [k \in KeysIn(pool) |-> MapOf(pool)[k]]
  BY DEF MapOf, KeysIn
<1> QED
  BY <1>1, <1>2

(* The invariant gives the map one entry per key, before and after a step. *)
LEMMA InvKeys ==
    /\ Inv => KeysUnique(mempool)
    /\ Inv' => KeysUnique(mempool')
BY KeysAgree DEF Inv, OneOpPerSenderNonce, KeysUnique

(* A replacement overwrites the map at the operation's key, by a dearer one. *)
LEMMA ReplaceOverwrites ==
    ASSUME Inv, NEW op \in UserOps, NEW g \in Aggregators, ReplaceUserOp(op, g)
    PROVE  Map!Overwrite(MempoolEntry(op, g))
<1> DEFINE i == FindBySenderNonce(mempool, op.sender, op.nonce)
           e == MempoolEntry(op, g)
           k == KeyOf(e)
<1>1. mempool \in Seq(PoolEntry) /\ i # 0
  BY DEF Inv, MempoolTypeOK, ReplaceUserOp
<1>2. i \in DOMAIN mempool /\ mempool[i].userOp.sender = op.sender
                          /\ mempool[i].userOp.nonce = op.nonce
  BY <1>1, SearchByKey
<1>3. e.userOp = op /\ k = KeyOf(mempool[i])
  BY <1>2 DEF MempoolEntry, KeyOf
<1>4. PaysForReplacement(mempool[i].userOp, op) /\ mempool' = [mempool EXCEPT ![i] = e]
  BY DEF ReplaceUserOp
<1>5. KeysUnique(mempool) /\ KeysUnique(mempool')
  BY InvKeys, ReplaceKeepsInv
<1> HIDE DEF i, e
<1>6. DOMAIN mempool' = DOMAIN mempool
      /\ \A j \in DOMAIN mempool : mempool'[j] = IF j = i THEN e ELSE mempool[j]
  BY <1>1, <1>2, <1>4
<1>7. KeysIn(mempool') = KeysIn(mempool) /\ k \in KeysIn(mempool)
  BY <1>2, <1>3, <1>6 DEF KeysIn
<1>8. /\ DOMAIN PoolMap = KeysIn(mempool)
      /\ \A j \in DOMAIN mempool : PoolMap[KeyOf(mempool[j])] = mempool[j]
  BY <1>5, MapOfPool DEF PoolMap
<1> DEFINE f == [l \in DOMAIN PoolMap \cup {k} |-> IF l = k THEN e ELSE PoolMap[l]]
<1>9. MapOf(mempool') = f
  <2>1. f = [l \in KeysIn(mempool') |-> f[l]]
    BY <1>7, <1>8
  <2>2. ASSUME NEW j \in DOMAIN mempool'
        PROVE  f[KeyOf(mempool'[j])] = mempool'[j]
    <3>1. CASE j = i
      BY <3>1, <1>2, <1>6, <1>7, <1>8
    <3>2. CASE j # i
      <4>1. mempool'[j] = mempool[j] /\ KeyOf(mempool[j]) # k
        BY <3>2, <1>2, <1>3, <1>5, <1>6 DEF KeysUnique
      <4> QED
        BY <4>1, <1>6, <1>8 DEF KeysIn
    <3> QED
      BY <3>1, <3>2
  <2> HIDE DEF f
  <2> QED
    BY <1>5, <2>1, <2>2, MapIsDetermined
<1>10. Map!Dearer(PoolMap[k], e)
  BY <1>2, <1>3, <1>4, <1>8 DEF Map!Dearer, PaysForReplacement
<1> QED
  BY <1>7, <1>8, <1>9, <1>10 DEF Map!Overwrite, Map!With, PoolMap, e

(* A push is an entrance: its key is new, and the sender is below its limit *)
(* in the map because its keys are no more than its positions.             *)
LEMMA PushEnters ==
    ASSUME Inv, ListIsConfigured, NEW op \in UserOps, NEW g \in Aggregators,
           PushUserOp(op, g)
    PROVE  Map!Enter(MempoolEntry(op, g))
<1> DEFINE e == MempoolEntry(op, g)
           c == CountOf(entryCount, op.sender)
           k == KeyOf(e)
           n == Len(mempool) + 1
<1>1. /\ mempool \in Seq(PoolEntry)
      /\ e.userOp = op
      /\ k = <<op.sender, op.nonce>>
      /\ op.sender \in Addr
      /\ CountsType(entryCount)
  BY MempoolAssumption
     DEF Inv, MempoolTypeOK, MempoolEntry, UserOperation, CountsType, KeyOf
<1>2. /\ FindBySenderNonce(mempool, op.sender, op.nonce) = 0
      /\ c + 1 > MaxUserOpsPerSender => StakeAccepted(entries, SenderInfo(op))
      /\ mempool' = Append(mempool, e)
  BY DEF PushUserOp
<1>3. KeysUnique(mempool) /\ KeysUnique(mempool')
  BY InvKeys, PushKeepsInv
<1>4. c \in Nat
  BY <1>1, CountIsNat
<1> HIDE DEF e, c
<1>5. /\ DOMAIN mempool' = DOMAIN mempool \cup {n}
      /\ mempool'[n] = e
      /\ \A j \in DOMAIN mempool : mempool'[j] = mempool[j]
  BY <1>1, <1>2
<1>6. \A j \in DOMAIN mempool : KeyOf(mempool[j]) # k
  <2>1. \A j \in DOMAIN mempool :
           ~ (mempool[j].userOp.sender = op.sender /\ mempool[j].userOp.nonce = op.nonce)
    BY <1>1, <1>2, SearchByKey
  <2> QED
    BY <1>1, <2>1 DEF KeyOf
<1>7. /\ DOMAIN PoolMap = KeysIn(mempool)
      /\ \A j \in DOMAIN mempool : PoolMap[KeyOf(mempool[j])] = mempool[j]
  BY <1>3, MapOfPool DEF PoolMap
<1>8. k \notin KeysIn(mempool) /\ KeysIn(mempool') = KeysIn(mempool) \cup {k}
  BY <1>5, <1>6 DEF KeysIn
<1> DEFINE f == [l \in DOMAIN PoolMap \cup {k} |-> IF l = k THEN e ELSE PoolMap[l]]
<1>9. MapOf(mempool') = f
  <2>1. f = [l \in KeysIn(mempool') |-> f[l]]
    BY <1>7, <1>8
  <2>2. ASSUME NEW j \in DOMAIN mempool'
        PROVE  f[KeyOf(mempool'[j])] = mempool'[j]
    <3>1. CASE j = n
      BY <3>1, <1>5
    <3>2. CASE j # n
      <4>1. j \in DOMAIN mempool /\ mempool'[j] = mempool[j] /\ KeyOf(mempool[j]) # k
        BY <3>2, <1>5, <1>6
      <4> QED
        BY <4>1, <1>7 DEF KeysIn
    <3> QED
      BY <3>1, <3>2
  <2> HIDE DEF f
  <2> QED
    BY <1>3, <2>1, <2>2, MapIsDetermined
<1>10. \/ Unlimited(op.sender)
       \/ Cardinality({l \in DOMAIN PoolMap : l[1] = op.sender}) < MaxUserOpsPerSender
  <2>1. CASE c + 1 > MaxUserOpsPerSender
    <3>1. StakeAccepted(entries, SenderInfo(op))
      BY <1>2, <2>1
    <3> QED
      BY <1>1, <3>1, NoAddrAssumption
         DEF StakeAccepted, SenderInfo, Unlimited, StakeIsEnough, ListIsConfigured
  <2>2. CASE ~ (c + 1 > MaxUserOpsPerSender)
    <3> DEFINE P == PositionsOf(op.sender)
               K == {l \in DOMAIN PoolMap : l[1] = op.sender}
               keyAt == [j \in P |-> KeyOf(mempool[j])]
    <3>1. IsFiniteSet(P) /\ Cardinality(P) \in Nat /\ Cardinality(P) <= c
      BY <1>1, PositionsAreWhere DEF Inv, CountCoversPool, c
    <3>2. keyAt \in Surjection(P, K)
      <4>1. \A j \in P : KeyOf(mempool[j]) \in K
        BY <1>7 DEF PositionsOf, KeysIn, KeyOf
      <4>2. \A l \in K : \E j \in P : KeyOf(mempool[j]) = l
        BY <1>7 DEF PositionsOf, KeysIn, KeyOf
      <4> HIDE DEF P, K
      <4> QED
        BY <4>1, <4>2 DEF Surjection
    <3> HIDE DEF P, K, keyAt
    <3>3. IsFiniteSet(K) /\ Cardinality(K) <= Cardinality(P)
      BY <3>1, <3>2, FS_Surjection
    <3>4. Cardinality(K) \in Nat
      BY <3>3, FS_CardinalityType
    <3> QED
      BY <1>4, <2>2, <3>1, <3>3, <3>4, MempoolAssumption DEF K
  <2> QED
    BY <2>1, <2>2
<1>11. \A S : Map!Cardinality(S) = Cardinality(S)
  BY DEF Map!Cardinality, Cardinality
<1> QED
  BY <1>1, <1>7, <1>8, <1>9, <1>10, <1>11 DEF Map!Enter, Map!With, PoolMap, e

(* A removal that found something drops its key. *)
LEMMA RemovalDrops ==
    ASSUME Inv, NEW i, i = 0 \/ i \in DOMAIN mempool,
           SetPool(RemovedAt(Pool, i)), UNCHANGED repVars
    PROVE  (\E k \in DOMAIN PoolMap : Map!Drop(k)) \/ UNCHANGED PoolMap
<1>1. CASE i = 0
  BY <1>1 DEF SetPool, RemovedAt, Pool, PoolMap
<1>2. CASE i # 0
  <2> DEFINE k == KeyOf(mempool[i])
             Old(j) == IF j < i THEN j ELSE j + 1
  <2>1. mempool \in Seq(PoolEntry) /\ i \in 1..Len(mempool) /\ mempool' = RemoveAt(mempool, i)
    BY <1>2 DEF SetPool, RemovedAt, Pool, Inv, MempoolTypeOK
  <2>2. /\ mempool' \in Seq(PoolEntry)
        /\ Len(mempool') = Len(mempool) - 1
        /\ \A j \in 1..(Len(mempool) - 1) : mempool'[j] = mempool[Old(j)]
    BY <2>1, RemoveAtIndex
  <2>3. /\ DOMAIN mempool = 1..Len(mempool)
        /\ DOMAIN mempool' = 1..(Len(mempool) - 1)
        /\ \A j \in DOMAIN mempool' : Old(j) \in DOMAIN mempool /\ Old(j) # i
    BY <2>1, <2>2
  <2>4. KeysUnique(mempool) /\ KeysUnique(mempool')
    BY InvKeys, RemovalKeepsInv
  <2>5. /\ DOMAIN PoolMap = KeysIn(mempool)
        /\ \A j \in DOMAIN mempool : PoolMap[KeyOf(mempool[j])] = mempool[j]
    BY <2>4, MapOfPool DEF PoolMap
  <2>6. KeysIn(mempool') = KeysIn(mempool) \ {k}
    <3>1. ASSUME NEW j \in DOMAIN mempool'
          PROVE  KeyOf(mempool'[j]) \in KeysIn(mempool) \ {k}
      <4>1. mempool'[j] = mempool[Old(j)] /\ Old(j) \in DOMAIN mempool /\ Old(j) # i
        BY <2>2, <2>3
      <4> HIDE DEF Old
      <4> QED
        BY <4>1, <2>1, <2>3, <2>4 DEF KeysIn, KeysUnique
    <3>2. ASSUME NEW j \in DOMAIN mempool, KeyOf(mempool[j]) # k
          PROVE  KeyOf(mempool[j]) \in KeysIn(mempool')
      <4>1. j # i
        BY <3>2
      <4>2. CASE j < i
        <5>1. j \in DOMAIN mempool' /\ Old(j) = j
          BY <2>1, <2>3, <4>2
        <5> QED
          BY <5>1, <2>2, <2>3 DEF KeysIn
      <4>3. CASE j > i
        <5>1. j - 1 \in DOMAIN mempool' /\ Old(j - 1) = j
          BY <2>1, <2>3, <4>3
        <5> QED
          BY <5>1, <2>2, <2>3 DEF KeysIn
      <4> QED
        BY <4>1, <4>2, <4>3, <2>1, <2>3
    <3> QED
      BY <3>1, <3>2 DEF KeysIn
  <2> DEFINE f == [l \in DOMAIN PoolMap \ {k} |-> PoolMap[l]]
  <2>7. MapOf(mempool') = f
    <3>1. f = [l \in KeysIn(mempool') |-> f[l]]
      BY <2>5, <2>6
    <3>2. ASSUME NEW j \in DOMAIN mempool'
          PROVE  f[KeyOf(mempool'[j])] = mempool'[j]
      <4>1. mempool'[j] = mempool[Old(j)] /\ Old(j) \in DOMAIN mempool
        BY <2>2, <2>3
      <4>2. KeyOf(mempool'[j]) \in DOMAIN PoolMap \ {k}
        BY <2>5, <2>6 DEF KeysIn
      <4> HIDE DEF Old
      <4> QED
        BY <4>1, <4>2, <2>5
    <3> HIDE DEF f
    <3> QED
      BY <2>4, <3>1, <3>2, MapIsDetermined
  <2>8. k \in DOMAIN PoolMap
    BY <2>1, <2>3, <2>5 DEF KeysIn
  <2> QED
    BY <2>7, <2>8 DEF Map!Drop, PoolMap
<1> QED
  BY <1>1, <1>2

(* Every step of the queue is a step of the map or leaves it alone. *)
LEMMA StepIsMapStep ==
    Inv /\ ListIsConfigured /\ [MempoolNext]_mempoolVars => [Map!PoolNext]_PoolMap
<1> SUFFICES ASSUME Inv, ListIsConfigured, [MempoolNext]_mempoolVars
             PROVE  Map!PoolNext \/ UNCHANGED PoolMap
  OBVIOUS
<1>0. mempool \in Seq(PoolEntry)
  BY DEF Inv, MempoolTypeOK
<1>1. ASSUME NEW op \in UserOps, NEW g \in Aggregators, AddUserOp(op, g)
      PROVE  Map!PoolNext \/ UNCHANGED PoolMap
  <2>1. MempoolEntry(op, g) \in PoolEntry
    BY DEF PoolEntry
  <2>2. CASE ReplaceUserOp(op, g)
    BY <2>1, <2>2, ReplaceOverwrites DEF Map!PoolNext
  <2>3. CASE PushUserOp(op, g)
    BY <2>1, <2>3, PushEnters DEF Map!PoolNext
  <2>4. CASE RefuseUserOp(op)
    BY <2>4 DEF RefuseUserOp, PoolMap
  <2> QED
    BY <1>1, <2>2, <2>3, <2>4 DEF AddUserOp
<1>2. ASSUME NEW op \in UserOps, RemoveUserOp(op)
      PROVE  Map!PoolNext \/ UNCHANGED PoolMap
  <2> DEFINE i == FindBySenderNonce(mempool, op.sender, op.nonce)
  <2>1. i = 0 \/ i \in DOMAIN mempool
    BY <1>0, SearchByKey
  <2>2. SetPool(RemovedAt(Pool, i)) /\ UNCHANGED repVars
    BY <1>2 DEF RemoveUserOp, RemovedOp, Pool
  <2> HIDE DEF i
  <2> QED
    BY <2>1, <2>2, RemovalDrops DEF Map!PoolNext
<1>3. ASSUME NEW hash, RemoveUserOpHash(hash)
      PROVE  Map!PoolNext \/ UNCHANGED PoolMap
  <2> DEFINE i == FindByHash(mempool, hash)
  <2>1. i = 0 \/ i \in DOMAIN mempool
    BY <1>0, SearchByHash
  <2>2. SetPool(RemovedAt(Pool, i)) /\ UNCHANGED repVars
    BY <1>3 DEF RemoveUserOpHash, RemovedHash, Pool
  <2> HIDE DEF i
  <2> QED
    BY <2>1, <2>2, RemovalDrops DEF Map!PoolNext
<1>4. CASE ReputationStep
  BY <1>4 DEF ReputationStep, poolVars, PoolMap
<1>5. CASE ClearState
  <2>1. mempool' = <<>> /\ DOMAIN mempool' = {}
    BY <1>5 DEF ClearState
  <2>2. MapOf(mempool') = [k \in {} |-> {}]
    BY <2>1 DEF MapOf
  <2> QED
    BY <2>2 DEF Map!PoolNext, Map!Empty, PoolMap
<1>6. CASE UNCHANGED mempoolVars
  BY <1>6 DEF mempoolVars, PoolMap
<1> QED
  BY <1>1, <1>2, <1>3, <1>4, <1>5, <1>6 DEF MempoolNext

(* The queue of entries, its searches and its counters implement the map of *)
(* OpPool, for every set of operations, stakes and limit.                   *)
THEOREM Refinement == MempoolSpec => ImplementsOpPool
<1>1. MempoolInit => Map!PoolInit
  <2>1. ASSUME MempoolInit PROVE MapOf(mempool) = [k \in {} |-> {}]
    BY <2>1 DEF MempoolInit, MapOf
  <2> QED
    BY <2>1 DEF Map!PoolInit, PoolMap
<1> QED
  BY <1>1, InitInv, NextKeepsInv, ListStays, StepIsMapStep, PTL
     DEF MempoolSpec, ImplementsOpPool, Map!PoolSpec
=============================================================================
