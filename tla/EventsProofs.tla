---------------------------- MODULE EventsProofs ----------------------------
(***************************************************************************)
(* Proofs about EventsManager, for every number of overlapping scans and   *)
(* chains of any length.                                                   *)
(*                                                                         *)
(* HandleAll folds the handler of one event over a log.  HandleAllEffect   *)
(* says what that does to the pool, whatever the names that the            *)
(* reputation is given: no entry is new, and with unique hashes nothing    *)
(* with a hash of the log is left.  EventsInv is the invariant of the      *)
(* mempool, the shape of the chain (ChainOK), the cursor, and the answers  *)
(* in flight.  The last part is about clients with one spelling: what is   *)
(* mined enters the pool again only if its request was validated before,   *)
(* and then it is late; the rest of what the listener has heard stays out  *)
(* (NoneLeft), and so does what is below the cursor (CursorSkipsNothing).  *)
(***************************************************************************)
EXTENDS EventsManager, MempoolProofs, InductionFacts

---------------------------------------------------------------------------
(* Removal from a pool.                                                    *)

(* The invariant of the mempool that removals rest on, about any pool. *)
PoolOK(pool) ==
    /\ pool.mempool \in Seq(PoolEntry)
    /\ CountsType(pool.entryCount)
    /\ KeysUnique(pool.mempool)
    /\ \A s \in Addr :
          Cardinality(Where(pool.mempool, OfSender(s))) <= CountOf(pool.entryCount, s)

(* What removals leave of a pool: nothing new, no more of any sender. *)
LeftOf(old, new) ==
    /\ PoolOK(new)
    /\ ToSet(new.mempool) \subseteq ToSet(old.mempool)
    /\ \A s \in Addr : Cardinality(Where(new.mempool, OfSender(s)))
                          <= Cardinality(Where(old.mempool, OfSender(s)))

HasHash(pool, hash) == \E e \in ToSet(pool.mempool) : e.userOpHash = hash

HashesUnique(pool) ==
    \A i, j \in DOMAIN pool.mempool :
        pool.mempool[i].userOpHash = pool.mempool[j].userOpHash => i = j

(* findByHash finds an entry when there is one. *)
LEMMA HashIsFound ==
    ASSUME NEW queue \in Seq(PoolEntry), NEW hash
    PROVE  LET i == FindByHash(queue, hash)
           IN  /\ i = 0 => \A j \in DOMAIN queue : queue[j].userOpHash # hash
               /\ i # 0 => i \in DOMAIN queue /\ queue[i].userOpHash = hash
<1> DEFINE I == {j \in 1..Len(queue) : queue[j].userOpHash = hash}
<1>1. FindByHash(queue, hash) = IF I # {} THEN Min(I) ELSE 0
  BY DEF FindByHash, SelectInSeq
<1>2. I \subseteq Nat /\ DOMAIN queue = 1..Len(queue)
  OBVIOUS
<1>3. I # {} => Min(I) \in I
  BY <1>2, LeastElement
<1> QED
  BY <1>1, <1>2, <1>3

(* Taking out one entry leaves the others; when hashes do not repeat, none  *)
(* with its hash is left.                                                   *)
LEMMA RemovedAtLeaves ==
    ASSUME NEW pool, PoolOK(pool), NEW i \in DOMAIN pool.mempool,
           NEW hash, hash = pool.mempool[i].userOpHash
    PROVE  LET r == RemovedAt(pool, i)
           IN  /\ LeftOf(pool, r)
               /\ \A e \in ToSet(pool.mempool) : e.userOpHash # hash => e \in ToSet(r.mempool)
               /\ HashesUnique(pool) => HashesUnique(r) /\ ~ HasHash(r, hash)
<1> DEFINE queue == pool.mempool
           r == RemovedAt(pool, i)
<1>0. /\ queue \in Seq(PoolEntry) /\ CountsType(pool.entryCount) /\ DOMAIN queue = 1..Len(queue)
      /\ i \in 1..Len(queue) /\ queue[i].userOpHash = hash
  BY DEF PoolOK
<1> DEFINE sender == queue[i].userOp.sender
           Old(k) == IF k < i THEN k ELSE k + 1
<1>1. i \in 1..Len(queue) /\ queue[i].userOpHash = hash
  BY <1>0
<1>2. r.mempool = RemoveAt(queue, i) /\ r.entryCount = Uncounted(pool.entryCount, sender)
  <2>1. i # 0
    BY <1>1
  <2> QED
    BY <2>1 DEF RemovedAt
<1>3. queue[i] \in PoolEntry /\ sender \in Addr
  BY <1>0, <1>1, EntryFields
<1> HIDE DEF sender
<1>4. /\ CountsType(r.entryCount)
      /\ \A s : CountOf(r.entryCount, s) =
                IF s # sender THEN CountOf(pool.entryCount, s)
                ELSE IF CountOf(pool.entryCount, sender) = 0 THEN 0
                     ELSE CountOf(pool.entryCount, sender) - 1
  BY <1>0, <1>2, <1>3, UncountedLowers
<1> HIDE DEF queue
<1>5. /\ r.mempool \in Seq(PoolEntry)
      /\ Len(r.mempool) = Len(queue) - 1
      /\ \A k \in 1..(Len(queue) - 1) : r.mempool[k] = queue[Old(k)]
  BY <1>0, <1>1, <1>2, RemoveAtIndex
<1> HIDE DEF r
<1>6. /\ DOMAIN r.mempool = 1..(Len(queue) - 1)
      /\ \A k \in DOMAIN r.mempool :
            Old(k) \in DOMAIN queue /\ Old(k) # i /\ r.mempool[k] = queue[Old(k)]
      /\ \A k, l \in DOMAIN r.mempool : Old(k) = Old(l) => k = l
  <2>1. DOMAIN r.mempool = 1..(Len(queue) - 1)
    BY <1>5
  <2>2. \A k \in 1..(Len(queue) - 1) : Old(k) \in 1..Len(queue) /\ Old(k) # i
    BY <1>0, <1>1
  <2>3. \A k, l \in 1..(Len(queue) - 1) : Old(k) = Old(l) => k = l
    BY <1>0, <1>1
  <2> HIDE DEF Old
  <2> QED
    BY <1>0, <1>5, <2>1, <2>2, <2>3 DEF queue
<1>7. \A j \in DOMAIN queue : j # i => \E k \in DOMAIN r.mempool : Old(k) = j
  <2> SUFFICES ASSUME NEW j \in DOMAIN queue, j # i
               PROVE  \E k \in DOMAIN r.mempool : Old(k) = j
    OBVIOUS
  <2>1. CASE j < i
    <3>1. j \in DOMAIN r.mempool /\ Old(j) = j
      BY <1>0, <1>1, <1>6, <2>1
    <3> QED BY <3>1
  <2>2. CASE j > i
    <3>1. j - 1 \in DOMAIN r.mempool /\ Old(j - 1) = j
      BY <1>0, <1>1, <1>6, <2>2
    <3> QED BY <3>1
  <2> QED
    BY <1>0, <1>1, <2>1, <2>2
<1> HIDE DEF Old
<1>8. KeysUnique(r.mempool)
  <2>1. KeysUnique(queue)
    BY DEF PoolOK, queue
  <2> QED
    BY <1>6, <2>1 DEF KeysUnique
<1>9. ASSUME NEW s \in Addr
      PROVE  Cardinality(Where(r.mempool, OfSender(s))) =
                Cardinality(Where(queue, OfSender(s))) - (IF s = sender THEN 1 ELSE 0)
  <2>1. queue[i] \in OfSender(s) <=> s = sender
    BY <1>3 DEF OfSender, sender
  <2> QED
    BY <1>0, <1>1, <1>2, <2>1, WhereRemoveAt
<1>10. ASSUME NEW s \in Addr
       PROVE  /\ Cardinality(Where(r.mempool, OfSender(s))) <= CountOf(r.entryCount, s)
              /\ Cardinality(Where(r.mempool, OfSender(s)))
                    <= Cardinality(Where(queue, OfSender(s)))
  <2>1. /\ Cardinality(Where(r.mempool, OfSender(s))) \in Nat
        /\ Cardinality(Where(queue, OfSender(s))) \in Nat
        /\ CountOf(pool.entryCount, s) \in Nat
    BY <1>0, <1>5, WhereFinite, CountIsNat
  <2>2. Cardinality(Where(queue, OfSender(s))) <= CountOf(pool.entryCount, s)
    BY DEF PoolOK, queue
  <2> QED
    BY <1>4, <1>9, <2>1, <2>2
<1>11. ToSet(r.mempool) \subseteq ToSet(queue)
  BY <1>6 DEF ToSet
<1>12. LeftOf(pool, r)
  BY <1>4, <1>5, <1>8, <1>10, <1>11 DEF LeftOf, PoolOK, queue
<1>13. \A e \in ToSet(queue) : e.userOpHash # hash => e \in ToSet(r.mempool)
  BY <1>1, <1>6, <1>7 DEF ToSet
<1>14. ASSUME HashesUnique(pool) PROVE HashesUnique(r) /\ ~ HasHash(r, hash)
  <2>1. \A j, k \in DOMAIN queue : queue[j].userOpHash = queue[k].userOpHash => j = k
    BY <1>14 DEF HashesUnique, queue
  <2>2. i \in DOMAIN queue
    BY <1>0, <1>1
  <2> QED
    BY <1>1, <1>6, <2>1, <2>2 DEF HashesUnique, HasHash, ToSet
<1> QED
  BY <1>12, <1>13, <1>14 DEF r, queue

(* A removal that finds nothing changes nothing. *)
LEMMA LeftOfItself == ASSUME NEW pool, PoolOK(pool) PROVE LeftOf(pool, pool)
<1>1. \A s \in Addr : Cardinality(Where(pool.mempool, OfSender(s))) \in Nat
  BY WhereFinite DEF PoolOK
<1> QED
  BY <1>1 DEF LeftOf

(* removeUserOp(hash) takes out an entry with the hash if there is one, and *)
(* nothing else; when hashes do not repeat, none with the hash is left.     *)
LEMMA RemovedHashLeaves ==
    ASSUME NEW pool, PoolOK(pool), NEW hash
    PROVE  LET r == RemovedHash(pool, hash)
           IN  /\ LeftOf(pool, r)
               /\ \A e \in ToSet(pool.mempool) : e.userOpHash # hash => e \in ToSet(r.mempool)
               /\ HashesUnique(pool) => HashesUnique(r) /\ ~ HasHash(r, hash)
<1> DEFINE i == FindByHash(pool.mempool, hash)
<1>1. RemovedHash(pool, hash) = RemovedAt(pool, i)
  BY DEF RemovedHash
<1>2. /\ i = 0 => \A j \in DOMAIN pool.mempool : pool.mempool[j].userOpHash # hash
      /\ i # 0 => i \in DOMAIN pool.mempool /\ pool.mempool[i].userOpHash = hash
  BY HashIsFound DEF PoolOK
<1> HIDE DEF i
<1>3. CASE i = 0
  <2>1. RemovedHash(pool, hash) = pool
    BY <1>1, <1>3 DEF RemovedAt
  <2>2. ~ HasHash(pool, hash)
    BY <1>2, <1>3 DEF HasHash, ToSet
  <2> QED
    BY <2>1, <2>2, LeftOfItself
<1>4. CASE i # 0
  BY <1>1, <1>2, <1>4, RemovedAtLeaves
<1> QED
  BY <1>3, <1>4

(* removeUserOp(op) takes out at most one entry. *)
LEMMA RemovedOpLeaves ==
    ASSUME NEW pool, PoolOK(pool), NEW op
    PROVE  LeftOf(pool, RemovedOp(pool, op))
<1> DEFINE i == FindBySenderNonce(pool.mempool, op.sender, op.nonce)
<1>1. RemovedOp(pool, op) = RemovedAt(pool, i)
  BY DEF RemovedOp
<1>2. i = 0 \/ i \in DOMAIN pool.mempool
  BY SearchByKey DEF PoolOK
<1> HIDE DEF i
<1>3. CASE i = 0
  BY <1>1, <1>3, LeftOfItself DEF RemovedAt
<1>4. CASE i \in DOMAIN pool.mempool
  BY <1>1, <1>4, RemovedAtLeaves
<1> QED
  BY <1>2, <1>3, <1>4

(* LeftOf composes. *)
LEMMA LeftOfTrans ==
    ASSUME NEW a, NEW b, NEW c, PoolOK(a), LeftOf(a, b), LeftOf(b, c)
    PROVE  LeftOf(a, c)
<1>1. \A s \in Addr : /\ Cardinality(Where(a.mempool, OfSender(s))) \in Nat
                      /\ Cardinality(Where(b.mempool, OfSender(s))) \in Nat
                      /\ Cardinality(Where(c.mempool, OfSender(s))) \in Nat
  BY WhereFinite DEF LeftOf, PoolOK
<1> QED
  BY <1>1 DEF LeftOf

---------------------------------------------------------------------------
(* What the loop over events computes.                                     *)

HandlerState(st) ==
    st = [pool |-> st.pool, entries |-> st.entries, lastBlock |-> st.lastBlock]

StateNow == [pool |-> Pool, entries |-> entries, lastBlock |-> lastBlock]

(* handleEvent removes by the hash of a UserOperationEvent and moves the     *)
(* cursor behind the event's block.                                         *)
LEMMA HandleEventEffect ==
    ASSUME NEW st, HandlerState(st), NEW ev
    PROVE  LET r == HandleEvent(st, ev)
           IN  /\ HandlerState(r)
               /\ r.pool = IF IsOpEvent(ev) THEN RemovedHash(st.pool, ev.userOpHash) ELSE st.pool
               /\ r.lastBlock = ev.blockNumber + 1
<1> DEFINE u == HandleUserOperationEvent(st, ev)
           d == HandleAccountDeployedEvent(st, ev)
           handled == IF IsOpEvent(ev) THEN u
                      ELSE IF ev.event = "AccountDeployed" THEN d ELSE st
           p == IF IsOpEvent(ev) THEN RemovedHash(st.pool, ev.userOpHash) ELSE st.pool
           number == ev.blockNumber + 1
<1>1. u = [pool |-> RemovedHash(st.pool, ev.userOpHash), entries |-> u.entries,
           lastBlock |-> u.lastBlock]
  <2> DEFINE rp == RemovedHash(st.pool, ev.userOpHash)
             re == IncludedAddress(IncludedAddress(st.entries, ev.sender), ev.paymaster)
             st1 == [st EXCEPT !.pool = rp]
  <2>1. u = [st1 EXCEPT !.entries = re]
    BY DEF HandleUserOperationEvent
  <2> HIDE DEF rp, re, u
  <2>2. st1 = [pool |-> rp, entries |-> st.entries, lastBlock |-> st.lastBlock]
    BY DEF HandlerState
  <2> HIDE DEF st1
  <2>3. u = [pool |-> rp, entries |-> re, lastBlock |-> st.lastBlock]
    BY <2>1, <2>2
  <2> QED
    BY <2>3 DEF rp
<1>2. d = [pool |-> st.pool, entries |-> d.entries, lastBlock |-> d.lastBlock]
  BY DEF HandleAccountDeployedEvent, HandlerState
<1>3. HandleEvent(st, ev) = [handled EXCEPT !.lastBlock = number]
  BY DEF HandleEvent, IsOpEvent
<1> HIDE DEF u, d
<1>4. handled = [pool |-> p, entries |-> handled.entries, lastBlock |-> handled.lastBlock]
  BY <1>1, <1>2 DEF HandlerState
<1> HIDE DEF handled, p, number
<1>5. HandleEvent(st, ev) = [pool |-> p, entries |-> handled.entries, lastBlock |-> number]
  BY <1>3, <1>4
<1> QED
  BY <1>5 DEF HandlerState, p, number

(* The recursive function of HandleAll exists. *)
LEMMA HandleAllExists ==
    ASSUME NEW events, Len(events) \in Nat, NEW names
    PROVE  \E g : g = [n \in 0..Len(events) |->
                          IF n = 0 THEN StateNow
                          ELSE IF events[n].event \in names THEN HandleEvent(g[n - 1], events[n])
                          ELSE g[n - 1]]
<1> DEFINE Next1(st, n) == IF events[n].event \in names THEN HandleEvent(st, events[n]) ELSE st
           Is(g, m) == g = [n \in 0..m |-> IF n = 0 THEN StateNow ELSE Next1(g[n - 1], n)]
           Built == {m \in Nat : \E g : Is(g, m)}
<1>1. 0 \in Built
  <2> DEFINE g == [n \in 0..0 |-> StateNow]
  <2>1. Is(g, 0)
    OBVIOUS
  <2> QED
    BY <2>1
<1>2. ASSUME NEW m \in 0..(Len(events) - 1), m \in Built PROVE m + 1 \in Built
  <2>1. PICK g : Is(g, m)
    BY <1>2
  <2> HIDE DEF Next1
  <2> DEFINE h == [n \in 0..(m + 1) |-> IF n = m + 1 THEN Next1(g[m], m + 1) ELSE g[n]]
  <2>2. \A n \in 0..m : g[n] = IF n = 0 THEN StateNow ELSE Next1(g[n - 1], n)
    BY <2>1
  <2>3. /\ h = [n \in 0..(m + 1) |-> h[n]]
        /\ h[m + 1] = Next1(g[m], m + 1)
        /\ \A n \in 0..(m + 1) : n # m + 1 => n \in 0..m /\ h[n] = g[n]
    OBVIOUS
  <2> HIDE DEF h
  <2>4. ASSUME NEW n \in 0..(m + 1)
        PROVE  h[n] = IF n = 0 THEN StateNow ELSE Next1(h[n - 1], n)
    <3>1. CASE n = 0
      BY <2>2, <2>3, <3>1
    <3>2. CASE n # 0
      <4>1. n - 1 \in 0..(m + 1) /\ n - 1 # m + 1 /\ h[n - 1] = g[n - 1]
        BY <2>3, <3>2
      <4>2. CASE n = m + 1
        <5>1. n - 1 = m
          BY <4>2
        <5> QED
          BY <2>3, <3>2, <4>1, <4>2, <5>1
      <4>3. CASE n # m + 1
        BY <2>2, <2>3, <3>2, <4>1, <4>3
      <4> QED
        BY <4>2, <4>3
    <3> QED
      BY <3>1, <3>2
  <2>5. Is(h, m + 1)
    BY <2>3, <2>4
  <2> HIDE DEF Is
  <2> QED
    BY <2>5
<1> HIDE DEF Built
<1>3. \A k \in 0..Len(events) : k \in Built
  BY <1>1, <1>2, SetInduction
<1>4. Len(events) \in Built
  BY <1>3
<1> QED
  BY <1>4 DEF Built

(* HandleAll is the last of a sequence of states, one per event. *)
LEMMA HandleAllSteps ==
    ASSUME NEW events, Len(events) \in Nat, NEW names
    PROVE  \E after :
              /\ HandleAll(events, names) = after[Len(events)]
              /\ after[0] = StateNow
              /\ \A n \in 0..(Len(events) - 1) :
                    after[n + 1] = IF events[n + 1].event \in names
                                   THEN HandleEvent(after[n], events[n + 1])
                                   ELSE after[n]
<1> DEFINE Is(g) == g = [n \in 0..Len(events) |->
                          IF n = 0 THEN StateNow
                          ELSE IF events[n].event \in names THEN HandleEvent(g[n - 1], events[n])
                          ELSE g[n - 1]]
           after == CHOOSE g : Is(g)
<1>1. HandleAll(events, names) = after[Len(events)]
  BY DEF HandleAll, StateNow
<1>2. Is(after)
  BY HandleAllExists
<1> HIDE DEF after
<1>3. \A n \in 0..Len(events) :
          after[n] = IF n = 0 THEN StateNow
                     ELSE IF events[n].event \in names THEN HandleEvent(after[n - 1], events[n])
                     ELSE after[n - 1]
  BY <1>2
<1>4. after[0] = StateNow
  BY <1>3
<1>5. ASSUME NEW n \in 0..(Len(events) - 1)
      PROVE  after[n + 1] = IF events[n + 1].event \in names
                            THEN HandleEvent(after[n], events[n + 1])
                            ELSE after[n]
  <2>1. n + 1 \in 0..Len(events) /\ n + 1 # 0 /\ (n + 1) - 1 = n
    OBVIOUS
  <2>2. after[n + 1] = IF events[n + 1].event \in names
                       THEN HandleEvent(after[(n + 1) - 1], events[n + 1])
                       ELSE after[(n + 1) - 1]
    BY <1>3, <2>1
  <2> QED
    BY <2>1, <2>2
<1> QED
  BY <1>1, <1>4, <1>5

(* What the handlers have done when they were called for n of the events. *)
Handled(st, events, n) ==
    /\ HandlerState(st)
    /\ LeftOf(Pool, st.pool)
    /\ \A e \in ToSet(mempool) :
          \/ e \in ToSet(st.pool.mempool)
          \/ \E k \in 1..n : IsOpEvent(events[k]) /\ events[k].userOpHash = e.userOpHash
    /\ HashesUnique(Pool) =>
          /\ HashesUnique(st.pool)
          /\ \A k \in 1..n : IsOpEvent(events[k]) => ~ HasHash(st.pool, events[k].userOpHash)
    /\ \/ st.lastBlock = lastBlock
       \/ \E k \in 1..n : st.lastBlock = events[k].blockNumber + 1

(* One more event is handled. *)
LEMMA HandleOneMore ==
    ASSUME PoolOK(Pool), NEW events, NEW n \in Nat, NEW st, Handled(st, events, n)
    PROVE  /\ Handled(HandleEvent(st, events[n + 1]), events, n + 1)
           /\ ~ IsOpEvent(events[n + 1]) => Handled(st, events, n + 1)
<1> DEFINE ev == events[n + 1]
           r == HandleEvent(st, ev)
<1>0. 1..(n + 1) = (1..n) \cup {n + 1}
  OBVIOUS
<1>1. ASSUME ~ IsOpEvent(ev) PROVE Handled(st, events, n + 1)
  BY <1>0, <1>1 DEF Handled
<1>2. /\ HandlerState(r)
      /\ r.pool = IF IsOpEvent(ev) THEN RemovedHash(st.pool, ev.userOpHash) ELSE st.pool
      /\ r.lastBlock = ev.blockNumber + 1
  BY HandleEventEffect DEF Handled
<1>3. CASE ~ IsOpEvent(ev)
  <2> HIDE DEF ev, r
  <2>1. r.lastBlock = events[n + 1].blockNumber + 1
    BY <1>2 DEF ev
  <2>2. r.pool = st.pool /\ HandlerState(r)
    BY <1>2, <1>3
  <2>3. ~ IsOpEvent(events[n + 1])
    BY <1>3 DEF ev
  <2>4. Handled(r, events, n + 1)
    BY <1>0, <2>1, <2>2, <2>3 DEF Handled
  <2> QED
    BY <1>1, <2>4 DEF ev, r
<1>4. CASE IsOpEvent(ev)
  <2> DEFINE hash == ev.userOpHash
  <2>1. r.pool = RemovedHash(st.pool, hash)
    BY <1>2, <1>4
  <2>2. LeftOf(Pool, st.pool) /\ PoolOK(st.pool)
    BY DEF Handled, LeftOf
  <2> HIDE DEF r
  <2>3. /\ LeftOf(st.pool, r.pool)
        /\ \A e \in ToSet(st.pool.mempool) : e.userOpHash # hash => e \in ToSet(r.pool.mempool)
        /\ HashesUnique(st.pool) => HashesUnique(r.pool) /\ ~ HasHash(r.pool, hash)
    BY <2>1, <2>2, RemovedHashLeaves
  <2>4. LeftOf(Pool, r.pool)
    BY <2>2, <2>3, LeftOfTrans
  <2>5. \A h : ~ HasHash(st.pool, h) => ~ HasHash(r.pool, h)
    BY <2>3 DEF LeftOf, HasHash
  <2>6. ASSUME NEW e \in ToSet(mempool)
        PROVE  \/ e \in ToSet(r.pool.mempool)
               \/ \E k \in 1..(n + 1) :
                     IsOpEvent(events[k]) /\ events[k].userOpHash = e.userOpHash
    BY <1>0, <1>4, <2>3 DEF Handled
  <2>7. ASSUME HashesUnique(Pool)
        PROVE  /\ HashesUnique(r.pool)
               /\ \A k \in 1..(n + 1) :
                     IsOpEvent(events[k]) => ~ HasHash(r.pool, events[k].userOpHash)
    <3>1. /\ HashesUnique(st.pool)
          /\ \A k \in 1..n : IsOpEvent(events[k]) => ~ HasHash(st.pool, events[k].userOpHash)
      BY <2>7 DEF Handled
    <3> QED
      BY <1>0, <2>3, <2>5, <3>1
  <2>8. \E k \in 1..(n + 1) : r.lastBlock = events[k].blockNumber + 1
    BY <1>0, <1>2
  <2>9. Handled(r, events, n + 1)
    <3> HIDE DEF ev
    <3> QED
      BY <1>2, <2>4, <2>6, <2>7, <2>8 DEF Handled
  <2> QED
    BY <1>1, <2>9 DEF r
<1> QED
  BY <1>3, <1>4

(* The loop handles every event that has one of the names: when those       *)
(* include the UserOperationEvents, the operations of all of them leave     *)
(* the pool, no other operation does, and the cursor stays or comes to      *)
(* stand behind one of the events.                                          *)
LEMMA HandleAllEffect ==
    ASSUME PoolOK(Pool), NEW events, Len(events) \in Nat,
           NEW names, "UserOperationEvent" \in names
    PROVE  Handled(HandleAll(events, names), events, Len(events))
<1>1. PICK after :
        /\ HandleAll(events, names) = after[Len(events)]
        /\ after[0] = StateNow
        /\ \A n \in 0..(Len(events) - 1) :
              after[n + 1] = IF events[n + 1].event \in names
                             THEN HandleEvent(after[n], events[n + 1])
                             ELSE after[n]
  BY HandleAllSteps
<1> DEFINE Good == {n \in Nat : Handled(after[n], events, n)}
<1>2. 0 \in Good
  <2>1. LeftOf(Pool, Pool)
    <3>1. \A s \in Addr : Cardinality(Where(Pool.mempool, OfSender(s))) \in Nat
      BY WhereFinite DEF PoolOK
    <3> QED
      BY <3>1 DEF LeftOf
  <2>2. StateNow.pool = Pool /\ StateNow.lastBlock = lastBlock /\ HandlerState(StateNow)
    BY DEF StateNow, HandlerState
  <2>3. Pool.mempool = mempool
    BY DEF Pool
  <2>4. Handled(StateNow, events, 0)
    BY <2>1, <2>2, <2>3 DEF Handled
  <2> QED
    BY <1>1, <2>4
<1>3. ASSUME NEW n \in 0..(Len(events) - 1), n \in Good PROVE n + 1 \in Good
  <2>1. Handled(after[n], events, n)
    BY <1>3
  <2>2. /\ Handled(HandleEvent(after[n], events[n + 1]), events, n + 1)
        /\ ~ IsOpEvent(events[n + 1]) => Handled(after[n], events, n + 1)
    BY <2>1, HandleOneMore
  <2>3. events[n + 1].event \notin names => ~ IsOpEvent(events[n + 1])
    BY DEF IsOpEvent
  <2>4. Handled(after[n + 1], events, n + 1)
    BY <1>1, <2>2, <2>3
  <2> QED
    BY <2>4
<1> HIDE DEF Good
<1>4. \A n \in 0..Len(events) : n \in Good
  BY <1>2, <1>3, SetInduction
<1>5. Len(events) \in Good
  BY <1>4
<1> QED
  BY <1>1, <1>5 DEF Good

---------------------------------------------------------------------------
(* The mempool's invariant through the removals.                           *)

(* The invariant of the mempool, as one about the pair Pool. *)
LEMMA InvGivesPoolOK == Inv => PoolOK(Pool)
<1> SUFFICES ASSUME Inv PROVE PoolOK(Pool)
  OBVIOUS
<1>1. mempool \in Seq(PoolEntry) /\ CountsType(entryCount) /\ KeysUnique(mempool)
  BY InvKeys DEF Inv, MempoolTypeOK, CountsType
<1>2. \A s \in Addr : PositionsOf(s) = Where(mempool, OfSender(s))
  BY <1>1, PositionsAreWhere
<1> QED
  BY <1>1, <1>2 DEF PoolOK, Pool, Inv, CountCoversPool

(* Whatever a run of removals leaves satisfies the mempool's invariant. *)
LEMMA RemovalsKeepInv ==
    ASSUME Inv, NEW st, LeftOf(Pool, st), SetPool(st), whitelist' = whitelist
    PROVE  Inv'
<1>1. PoolOK(st) /\ mempool' = st.mempool /\ entryCount' = st.entryCount
  BY DEF LeftOf, SetPool
<1>2. mempool' \in Seq(PoolEntry) /\ mempool \in Seq(PoolEntry)
  BY <1>1 DEF PoolOK, Inv, MempoolTypeOK
<1>3. MempoolTypeOK'
  BY <1>1 DEF PoolOK, MempoolTypeOK, CountsType
<1>4. OneOpPerSenderNonce'
  BY <1>1, KeysAgree DEF PoolOK, OneOpPerSenderNonce, KeysUnique
<1>5. ASSUME NEW s PROVE PositionsOf(s)' = Where(mempool', OfSender(s))
  <2>1. \A i \in DOMAIN mempool' : mempool'[i] \in PoolEntry
    BY <1>2
  <2> QED
    BY <2>1 DEF PositionsOf, Where, OfSender
<1>6. CountCoversPool'
  BY <1>1, <1>5 DEF PoolOK, CountCoversPool
<1>7. UnstakedSendersLimited'
  <2> SUFFICES ASSUME NEW s \in Addr, s \notin whitelist, ~ StakeIsEnough(s)
               PROVE  Cardinality(PositionsOf(s)') <= MaxUserOpsPerSender
    BY DEF UnstakedSendersLimited, StakeIsEnough
  <2>1. Cardinality(PositionsOf(s)) <= MaxUserOpsPerSender
    BY DEF Inv, UnstakedSendersLimited
  <2>2. Cardinality(PositionsOf(s)') <= Cardinality(PositionsOf(s))
    BY <1>1, <1>2, <1>5, PositionsAreWhere DEF LeftOf, Pool
  <2>3. Cardinality(PositionsOf(s)') \in Nat /\ Cardinality(PositionsOf(s)) \in Nat
    BY <1>2, <1>5, WhereFinite, PositionsAreWhere
  <2> QED
    BY <2>1, <2>2, <2>3, MempoolAssumption
<1> QED
  BY <1>3, <1>4, <1>6, <1>7 DEF Inv

---------------------------------------------------------------------------
(* The chain.                                                              *)

Logged(number) ==
    {OpEvent(op, number) : op \in UserOps} \cup {DeployedEvent(op, number) : op \in UserOps}
    \cup {OtherEvent(number)}

AnyEvent == UNION {Logged(number) : number \in Nat}

(* Every event of the chain carries the number of its block. *)
ChainOK ==
    /\ chain \in Seq(Seq(AnyEvent))
    /\ \A n \in DOMAIN chain : chain[n] \in Seq(Logged(n))

(* A block of operations holds their events and those of their factories. *)
LEMMA LogOfType ==
    ASSUME NEW ops \in Seq(UserOps), NEW number \in Nat
    PROVE  LogOf(ops, number) \in Seq(Logged(number)) /\ LogOf(ops, number) \in Seq(AnyEvent)
<1> DEFINE D(i) == IF ops[i].factory # NoAddr THEN <<DeployedEvent(ops[i], number)>> ELSE <<>>
           deployed == [i \in DOMAIN ops |-> D(i)]
           included == [i \in DOMAIN ops |-> OpEvent(ops[i], number)]
<1>1. DOMAIN ops = 1..Len(ops) /\ Len(ops) \in Nat /\ \A i \in 1..Len(ops) : ops[i] \in UserOps
  OBVIOUS
<1>2. \A i \in 1..Len(ops) : DeployedEvent(ops[i], number) \in Logged(number)
                             /\ OpEvent(ops[i], number) \in Logged(number)
  BY <1>1 DEF Logged
<1>3. \A i \in 1..Len(ops) : D(i) \in Seq(Logged(number))
  BY <1>2
<1> HIDE DEF D
<1>4. deployed \in Seq(Seq(Logged(number)))
  BY <1>1, <1>3
<1>5. included \in Seq(Logged(number))
  BY <1>1, <1>2
<1> HIDE DEF deployed, included
<1>6. FlattenSeq(deployed) \in Seq(Logged(number))
  BY <1>4, FlattenSeqProperties
<1>7. LogOf(ops, number) = FlattenSeq(deployed) \o <<OtherEvent(number)>> \o included
  BY DEF LogOf, deployed, included, D
<1>8. LogOf(ops, number) \in Seq(Logged(number))
  <2>1. <<OtherEvent(number)>> \in Seq(Logged(number))
    BY DEF Logged
  <2> QED
    BY <1>5, <1>6, <1>7, <2>1
<1>9. Logged(number) \subseteq AnyEvent
  BY DEF AnyEvent
<1> QED
  BY <1>8, <1>9, SeqMonotonic

(* queryFilter returns the events of the blocks asked for. *)
LEMMA EventsFromBlocks ==
    ASSUME ChainOK, NEW from \in Nat \ {0}, NEW to \in 0..Len(chain)
    PROVE  /\ EventsFrom(from, to) \in Seq(AnyEvent)
           /\ ToSet(EventsFrom(from, to)) = UNION {ToSet(chain[n]) : n \in from..to}
<1> DEFINE count == IF from <= to THEN to - from + 1 ELSE 0
           blocks == [n \in 1..count |-> chain[from + n - 1]]
<1>1. count \in Nat /\ \A n \in 1..count : from + n - 1 \in from..to /\ from + n - 1 \in 1..Len(chain)
  BY DEF ChainOK
<1>2. \A n \in from..to : n - from + 1 \in 1..count /\ from + (n - from + 1) - 1 = n
  OBVIOUS
<1> HIDE DEF count
<1>3. blocks \in Seq(Seq(AnyEvent)) /\ Len(blocks) = count
  <2>1. \A n \in 1..Len(chain) : chain[n] \in Seq(AnyEvent)
    BY DEF ChainOK
  <2>2. \A n \in 1..count : chain[from + n - 1] \in Seq(AnyEvent)
    BY <1>1, <2>1
  <2> QED
    BY <1>1, <2>2
<1>4. EventsFrom(from, to) = FlattenSeq(blocks)
  BY DEF EventsFrom, blocks, count
<1>5. UNION {ToSet(blocks[n]) : n \in 1..count} = UNION {ToSet(chain[n]) : n \in from..to}
  <2>1. \A n \in 1..count : blocks[n] = chain[from + n - 1]
    OBVIOUS
  <2> HIDE DEF blocks
  <2>2. \A n \in 1..count : \E m \in from..to : blocks[n] = chain[m]
    BY <1>1, <2>1
  <2>3. \A m \in from..to : \E n \in 1..count : blocks[n] = chain[m]
    BY <1>2, <2>1
  <2> QED
    BY <2>2, <2>3
<1> HIDE DEF blocks
<1> QED
  BY <1>3, <1>4, <1>5, FlattenSeqProperties

(* The hashes included in a range of blocks, block by block. *)
IncludedIsLogged(from, to) ==
    \A h : h \in IncludedIn(from, to) <=>
              \E n \in from..to : \E ev \in ToSet(chain[n]) : IsOpEvent(ev) /\ h = ev.userOpHash

(* A hash is included in a range of blocks if one of them has its event. *)
LEMMA IncludedInBlocks ==
    ASSUME ChainOK, NEW from \in Nat \ {0}, NEW to \in 0..Len(chain)
    PROVE  IncludedIsLogged(from, to)
<1> DEFINE E == ToSet(EventsFrom(from, to))
<1>1. E = UNION {ToSet(chain[n]) : n \in from..to}
  BY EventsFromBlocks
<1> HIDE DEF E
<1>2. \A ev : ev \in E <=> \E n \in from..to : ev \in ToSet(chain[n])
  BY <1>1
<1>3. IncludedIn(from, to) = {ev.userOpHash : ev \in {e \in E : IsOpEvent(e)}}
  BY DEF IncludedIn, E
<1> HIDE DEF IsOpEvent
<1> QED
  BY <1>2, <1>3 DEF IncludedIsLogged

(* The same after a step. *)
LEMMA IncludedInBlocksNext ==
    \A n : (ChainOK /\ n \in 0..Len(chain) => IncludedIsLogged(1, n))'
<1>1. \A n : ChainOK /\ n \in 0..Len(chain) => IncludedIsLogged(1, n)
  BY IncludedInBlocks
<1>2. (\A n : ChainOK /\ n \in 0..Len(chain) => IncludedIsLogged(1, n))'
  BY <1>1, PTL
<1> QED
  BY <1>2

(* The first blocks hold what a shorter prefix of them and the rest hold. *)
LEMMA IncludedSplits ==
    ASSUME ChainOK, NEW from \in Nat \ {0}, NEW to \in 0..Len(chain), from <= Len(chain) + 1
    PROVE  \A h \in IncludedIn(1, to) :
              h \in IncludedIn(1, from - 1) \/ h \in IncludedIn(from, to)
<1>0. Len(chain) \in Nat
  BY DEF ChainOK
<1>1. IncludedIsLogged(1, to) /\ IncludedIsLogged(1, from - 1) /\ IncludedIsLogged(from, to)
  BY <1>0, IncludedInBlocks
<1>2. \A n \in 1..to : n \in 1..(from - 1) \/ n \in from..to
  BY <1>0
<1> QED
  BY <1>1, <1>2 DEF IncludedIsLogged

(* What is included in a prefix of the chain is included in a longer one. *)
LEMMA IncludedGrows ==
    ASSUME ChainOK, NEW m \in 0..Len(chain), NEW n \in 0..m
    PROVE  IncludedIn(1, n) \subseteq IncludedIn(1, m)
<1>1. IncludedIsLogged(1, m) /\ IncludedIsLogged(1, n) /\ 1..n \subseteq 1..m
  <2>1. Len(chain) \in Nat /\ n \in 0..Len(chain)
    BY DEF ChainOK
  <2> QED
    BY <2>1, IncludedInBlocks
<1> QED
  BY <1>1 DEF IncludedIsLogged

---------------------------------------------------------------------------
(* The inductive invariant.                                                *)

(* The states of one scan while the chain has the given length. *)
ScanOK(scan, length) ==
    \/ scan \in [pc : {"idle", "number"}]
    \/ scan \in [pc : {"query"}, from : 1..(length + 1)]
    \/ scan \in [pc : {"answer"}, from : 1..(length + 1), to : 0..length]

(* Nothing the manager remembers is beyond the chain. *)
CursorOK(length) ==
    /\ heard \in 0..length
    /\ lastBlock \in 0..(length + 1)
    /\ DOMAIN scans = Scanner
    /\ \A s \in Scanner : ScanOK(scans[s], length)

(* The invariant whoever mines, and the one with MineBlock's bound. *)
EventsCore == Inv /\ ChainOK /\ CursorOK(Len(chain))

EventsInv == EventsCore /\ Len(chain) <= MaxBlocks /\ arriving \subseteq UserOps

(* The ranges of the properties follow. *)
LEMMA CoreKeepsRanges ==
    /\ EventsCore => CursorWithinChain
    /\ EventsInv => EventsTypeOK
<1>1. ASSUME EventsCore PROVE CursorWithinChain
  <2>1. Len(chain) \in Nat /\ CursorOK(Len(chain))
    BY <1>1 DEF EventsCore, ChainOK
  <2>2. ASSUME NEW s \in Scanner, scans[s].pc \in {"query", "answer"}
        PROVE  scans[s].from <= Len(chain) + 1
    BY <2>1, <2>2 DEF CursorOK, ScanOK
  <2> QED
    BY <2>1, <2>2 DEF CursorOK, CursorWithinChain, BlockNumber
<1>2. ASSUME EventsInv PROVE EventsTypeOK
  <2>1. /\ Len(chain) \in Nat /\ Len(chain) <= MaxBlocks /\ MaxBlocks \in Nat
        /\ CursorOK(Len(chain))
    BY <1>2, EventsAssumption DEF EventsInv, EventsCore, ChainOK
  <2>2. 1..(Len(chain) + 1) \subseteq 1..(MaxBlocks + 1) /\ 0..Len(chain) \subseteq 0..MaxBlocks
    BY <2>1
  <2>3. ASSUME NEW s \in Scanner
        PROVE  \/ scans[s] \in [pc : {"idle", "number"}]
               \/ scans[s] \in [pc : {"query"}, from : 1..(MaxBlocks + 1)]
               \/ scans[s] \in [pc : {"answer"}, from : 1..(MaxBlocks + 1), to : 0..MaxBlocks]
    <3>1. ScanOK(scans[s], Len(chain))
      BY <2>1 DEF CursorOK
    <3>2. CASE scans[s] \in [pc : {"idle", "number"}]
      BY <3>2
    <3>3. CASE scans[s] \in [pc : {"query"}, from : 1..(Len(chain) + 1)]
      BY <2>2, <3>3
    <3>4. CASE scans[s] \in [pc : {"answer"}, from : 1..(Len(chain) + 1), to : 0..Len(chain)]
      BY <2>2, <3>4
    <3> QED
      BY <3>1, <3>2, <3>3, <3>4 DEF ScanOK
  <2> QED
    BY <1>2, <2>1, <2>3 DEF CursorOK, EventsTypeOK, BlockNumber, EventsInv
<1> QED
  BY <1>1, <1>2

---------------------------------------------------------------------------
(* The steps.                                                              *)

(* What a run of the handlers over blocks from..to does to the pool and the *)
(* cursor, whichever path calls them.                                       *)
Flushes(from, to) ==
    /\ ToSet(mempool') \subseteq ToSet(mempool)
    /\ \A e \in ToSet(mempool) : e \in ToSet(mempool') \/ e.userOpHash \in IncludedIn(from, to)
    /\ HashesUnique(Pool) => \A h \in IncludedIn(from, to) : ~ InPool(h)'
    /\ lastBlock' = lastBlock \/ \E n \in from..to : lastBlock' = n + 1

(* InPool looks for the hash among the entries. *)
LEMMA InPoolIsHasHash ==
    /\ \A h : InPool(h) <=> \E e \in ToSet(mempool) : e.userOpHash = h
    /\ \A h : InPool(h)' <=> \E e \in ToSet(mempool') : e.userOpHash = h
BY DEF InPool, ToSet

(* Both paths: the listener and the end of a scan. *)
LEMMA HandlingStep ==
    ASSUME Inv, ChainOK, NEW from \in Nat \ {0}, NEW to \in 0..Len(chain),
           NEW names, "UserOperationEvent" \in names,
           SetHandled(HandleAll(EventsFrom(from, to), names))
    PROVE  Inv' /\ Flushes(from, to)
<1> DEFINE events == EventsFrom(from, to)
           st == HandleAll(events, names)
<1>1. events \in Seq(AnyEvent) /\ ToSet(events) = UNION {ToSet(chain[n]) : n \in from..to}
  BY EventsFromBlocks
<1>2. SetPool(st.pool) /\ lastBlock' = st.lastBlock /\ whitelist' = whitelist
  BY Zenon DEF SetHandled
<1>3. PoolOK(Pool)
  BY InvGivesPoolOK
<1> HIDE DEF events
<1>4. Len(events) \in Nat /\ DOMAIN events = 1..Len(events)
  BY <1>1
<1>5. Handled(st, events, Len(events))
  BY <1>3, <1>4, HandleAllEffect
<1> HIDE DEF st
<1>6. Inv'
  BY <1>2, <1>5, RemovalsKeepInv DEF Handled
<1>7. IncludedIsLogged(from, to)
  BY IncludedInBlocks
<1>a. \A h : h \in IncludedIn(from, to) <=>
                \E ev \in ToSet(events) : IsOpEvent(ev) /\ h = ev.userOpHash
  BY <1>1, <1>7, Zenon DEF IncludedIsLogged
<1>b. \A ev : ev \in ToSet(events) <=> \E k \in 1..Len(events) : ev = events[k]
  BY <1>4 DEF ToSet
<1>8. \A k \in 1..Len(events) : IsOpEvent(events[k]) => events[k].userOpHash \in IncludedIn(from, to)
  BY <1>a, <1>b, Zenon
<1>9. \A h \in IncludedIn(from, to) :
          \E k \in 1..Len(events) : IsOpEvent(events[k]) /\ events[k].userOpHash = h
  BY <1>a, <1>b
<1>10. mempool' = st.pool.mempool /\ mempool = Pool.mempool
  BY <1>2 DEF SetPool, Pool
<1>11. ToSet(mempool') \subseteq ToSet(mempool)
  BY <1>5, <1>10 DEF Handled, LeftOf
<1>12. \A e \in ToSet(mempool) : e \in ToSet(mempool') \/ e.userOpHash \in IncludedIn(from, to)
  BY <1>5, <1>8, <1>10 DEF Handled
<1>13. HashesUnique(Pool) => \A h \in IncludedIn(from, to) : ~ InPool(h)'
  BY <1>5, <1>9, <1>10, InPoolIsHasHash DEF Handled, HasHash
<1>14. \A k \in 1..Len(events) : events[k].blockNumber \in from..to
  <2> SUFFICES ASSUME NEW k \in 1..Len(events) PROVE events[k].blockNumber \in from..to
    OBVIOUS
  <2>1. PICK n \in from..to : events[k] \in ToSet(chain[n])
    BY <1>1, <1>4 DEF ToSet
  <2>2. n \in 1..Len(chain) /\ chain \in Seq(Seq(AnyEvent))
    BY DEF ChainOK
  <2>3. chain[n] \in Seq(Logged(n))
    BY <2>2 DEF ChainOK
  <2>4. events[k] \in Logged(n)
    BY <2>1, <2>3 DEF ToSet
  <2> QED
    BY <2>1, <2>4 DEF Logged, OpEvent, DeployedEvent, OtherEvent
<1>15. lastBlock' = lastBlock \/ \E n \in from..to : lastBlock' = n + 1
  <2>1. CASE st.lastBlock = lastBlock
    BY <1>2, <2>1
  <2>2. CASE \E k \in 1..Len(events) : st.lastBlock = events[k].blockNumber + 1
    BY <1>2, <1>14, <2>2
  <2> QED
    BY <1>5, <2>1, <2>2 DEF Handled
<1> QED
  BY <1>6, <1>11, <1>12, <1>13, <1>15 DEF Flushes

(* A scan moves on and the chain stays. *)
LEMMA OneScanMoves ==
    ASSUME ChainOK, CursorOK(Len(chain)), NEW s \in Scanner, NEW scan, ScanOK(scan, Len(chain)),
           scans' = [scans EXCEPT ![s] = scan],
           lastBlock' \in 0..(Len(chain) + 1), chain' = chain, heard' = heard
    PROVE  ChainOK' /\ CursorOK(Len(chain))'
<1>1. ChainOK'
  BY DEF ChainOK
<1>2. DOMAIN scans' = Scanner /\ \A t \in Scanner : scans'[t] = IF t = s THEN scan ELSE scans[t]
  BY DEF CursorOK
<1>3. CursorOK(Len(chain))'
  BY <1>2 DEF CursorOK
<1> QED
  BY <1>1, <1>3

(* The mempool's invariant does not read the manager's state. *)
LEMMA InvStays ==
    ASSUME Inv, UNCHANGED mempoolVars
    PROVE  Inv'
BY StutterKeepsInv DEF mempoolVars

(* Nor does the manager's read the mempool. *)
LEMMA PoolStepKeepsCore ==
    ASSUME EventsCore, Inv', UNCHANGED eventsVars
    PROVE  EventsCore'
BY DEF EventsCore, eventsVars, ChainOK, CursorOK

(* The listener and every step of a scan. *)
LEMMA EventActionsKeepCore ==
    ASSUME EventsCore,
           (\E to \in 1..BlockNumber : HearEvents(to)) \/ (\E s \in Scanner : ScanStep(s))
    PROVE  EventsCore' /\ chain' = chain
<1>0. Len(chain) \in Nat /\ CursorOK(Len(chain)) /\ Inv /\ ChainOK
  BY DEF EventsCore, ChainOK
<1>1. ASSUME NEW to \in 1..BlockNumber, HearEvents(to) PROVE EventsCore' /\ chain' = chain
  <2>1. /\ to \in 0..Len(chain) /\ heard + 1 \in Nat \ {0} /\ heard' = to
        /\ SetHandled(HandleAll(EventsFrom(heard + 1, to), {"UserOperationEvent"}))
        /\ chain' = chain /\ scans' = scans
    BY <1>0, <1>1 DEF HearEvents, BlockNumber, CursorOK
  <2>2. Inv' /\ Flushes(heard + 1, to)
    BY <1>0, <2>1, HandlingStep
  <2>3. lastBlock' \in 0..(Len(chain) + 1)
    BY <1>0, <2>1, <2>2 DEF Flushes, CursorOK
  <2>4. CursorOK(Len(chain))' /\ ChainOK'
    BY <1>0, <2>1, <2>3 DEF CursorOK, ChainOK
  <2> QED
    BY <2>1, <2>2, <2>4 DEF EventsCore
<1>2. ASSUME NEW s \in Scanner, StartScan(s) PROVE EventsCore' /\ chain' = chain
  <2> DEFINE scan == IF lastBlock = 0 THEN [pc |-> "number"] ELSE [pc |-> "query", from |-> lastBlock]
  <2>1. ScanOK(scan, Len(chain))
    BY <1>0 DEF CursorOK, ScanOK
  <2>2. scans' = [scans EXCEPT ![s] = scan] /\ UNCHANGED <<mempoolVars, chain, heard, lastBlock>>
    BY <1>2 DEF StartScan
  <2>3. lastBlock' \in 0..(Len(chain) + 1)
    BY <1>0, <2>2 DEF CursorOK
  <2> HIDE DEF scan
  <2> QED
    BY <1>0, <2>1, <2>2, <2>3, OneScanMoves, InvStays DEF EventsCore
<1>3. ASSUME NEW s \in Scanner, GotBlockNumber(s) PROVE EventsCore' /\ chain' = chain
  <2> DEFINE scan == [pc |-> "query", from |-> lastBlock']
  <2>1. /\ lastBlock' = (IF Len(chain) - LookBack > 1 THEN Len(chain) - LookBack ELSE 1)
        /\ scans' = [scans EXCEPT ![s] = scan]
        /\ UNCHANGED <<mempoolVars, chain, heard>>
    BY <1>3 DEF GotBlockNumber, BlockNumber
  <2>2. lastBlock' \in 1..(Len(chain) + 1) /\ lastBlock' \in 0..(Len(chain) + 1)
    BY <1>0, <2>1, EventsAssumption
  <2>3. ScanOK(scan, Len(chain))
    BY <2>2 DEF ScanOK
  <2>4. chain' = chain /\ heard' = heard /\ Inv'
    BY <1>0, <2>1, InvStays
  <2> HIDE DEF scan
  <2> QED
    BY <1>0, <2>1, <2>2, <2>3, <2>4, OneScanMoves, InvStays DEF EventsCore
<1>4. ASSUME NEW s \in Scanner, NodeAnswers(s) PROVE EventsCore' /\ chain' = chain
  <2> DEFINE scan == [pc |-> "answer", from |-> scans[s].from, to |-> Len(chain)]
  <2>1. /\ scans[s].pc = "query"
        /\ scans' = [scans EXCEPT ![s] = scan]
        /\ UNCHANGED <<mempoolVars, chain, heard, lastBlock>>
    BY <1>4 DEF NodeAnswers, BlockNumber
  <2>2. scans[s].from \in 1..(Len(chain) + 1)
    BY <1>0, <2>1 DEF CursorOK, ScanOK
  <2>3. ScanOK(scan, Len(chain))
    BY <1>0, <2>2 DEF ScanOK
  <2>4. lastBlock' \in 0..(Len(chain) + 1)
    BY <1>0, <2>1 DEF CursorOK
  <2> HIDE DEF scan
  <2> QED
    BY <1>0, <2>1, <2>3, <2>4, OneScanMoves, InvStays DEF EventsCore
<1>5. ASSUME NEW s \in Scanner, HandlePastEvents(s) PROVE EventsCore' /\ chain' = chain
  <2>1. /\ scans[s].pc = "answer"
        /\ SetHandled(HandleAll(EventsFrom(scans[s].from, scans[s].to),
                                {"UserOperationEvent", "AccountDeployed", "other"}))
        /\ scans' = [scans EXCEPT ![s] = [pc |-> "idle"]]
        /\ UNCHANGED <<chain, heard>>
    BY <1>5 DEF HandlePastEvents
  <2>2. scans[s].from \in Nat \ {0} /\ scans[s].to \in 0..Len(chain)
    BY <1>0, <2>1 DEF CursorOK, ScanOK
  <2>3. Inv' /\ Flushes(scans[s].from, scans[s].to)
    BY <1>0, <2>1, <2>2, HandlingStep
  <2>4. lastBlock' \in 0..(Len(chain) + 1)
    BY <1>0, <2>2, <2>3 DEF Flushes, CursorOK
  <2>5. ScanOK([pc |-> "idle"], Len(chain))
    BY DEF ScanOK
  <2> QED
    BY <1>0, <2>1, <2>3, <2>4, <2>5, OneScanMoves DEF EventsCore
<1>6. ASSUME NEW s \in Scanner, ScanFails(s) PROVE EventsCore' /\ chain' = chain
  <2>1. /\ scans' = [scans EXCEPT ![s] = [pc |-> "idle"]]
        /\ UNCHANGED <<mempoolVars, chain, heard, lastBlock>>
    BY <1>6 DEF ScanFails
  <2>2. ScanOK([pc |-> "idle"], Len(chain)) /\ lastBlock' \in 0..(Len(chain) + 1)
    BY <1>0, <2>1 DEF ScanOK, CursorOK
  <2> QED
    BY <1>0, <2>1, <2>2, OneScanMoves, InvStays DEF EventsCore
<1> QED
  BY <1>1, <1>2, <1>3, <1>4, <1>5, <1>6 DEF ScanStep

(* A block with the events of a transaction, or with none. *)
LEMMA LogKeepsCore ==
    ASSUME EventsCore, NEW block, block \in Seq(Logged(Len(chain) + 1)),
           block \in Seq(AnyEvent), chain' = Append(chain, block),
           UNCHANGED <<mempoolVars, heard, lastBlock, scans>>
    PROVE  EventsCore' /\ Len(chain') = Len(chain) + 1
<1>0. Len(chain) \in Nat /\ CursorOK(Len(chain)) /\ Inv /\ ChainOK
  BY DEF EventsCore, ChainOK
<1>1. block \in Seq(Logged(Len(chain) + 1)) /\ block \in Seq(AnyEvent)
  OBVIOUS
<1>2. chain' = Append(chain, block)
  OBVIOUS
<1>3. /\ chain' \in Seq(Seq(AnyEvent))
      /\ Len(chain') = Len(chain) + 1
      /\ \A n \in 1..Len(chain) : chain'[n] = chain[n]
      /\ chain'[Len(chain) + 1] = block
  BY <1>0, <1>1, <1>2 DEF ChainOK
<1>4. ChainOK'
  BY <1>0, <1>1, <1>3 DEF ChainOK
<1>5. \A scan : ScanOK(scan, Len(chain)) => ScanOK(scan, Len(chain'))
  <2>1. 1..(Len(chain) + 1) \subseteq 1..(Len(chain') + 1) /\ 0..Len(chain) \subseteq 0..Len(chain')
    BY <1>0, <1>3
  <2> QED
    BY <2>1 DEF ScanOK
<1>6. CursorOK(Len(chain))'
  BY <1>0, <1>3, <1>5 DEF CursorOK
<1> QED
  BY <1>0, <1>3, <1>4, <1>6, InvStays DEF EventsCore

(* A block with the events of some operations. *)
LEMMA BlockKeepsCore ==
    ASSUME EventsCore, NEW ops \in Seq(UserOps),
           chain' = Append(chain, LogOf(ops, BlockNumber + 1)),
           UNCHANGED <<mempoolVars, heard, lastBlock, scans>>
    PROVE  EventsCore' /\ Len(chain') = Len(chain) + 1
<1> DEFINE block == LogOf(ops, Len(chain) + 1)
<1>1. Len(chain) + 1 \in Nat
  BY DEF EventsCore, ChainOK
<1>2. block \in Seq(Logged(Len(chain) + 1)) /\ block \in Seq(AnyEvent)
  BY <1>1, LogOfType
<1>3. chain' = Append(chain, block)
  BY DEF BlockNumber
<1> HIDE DEF block
<1> QED
  BY <1>2, <1>3, LogKeepsCore

(* The manager starts without a mempool, a chain or a scan. *)
LEMMA EventsInitInv == EventsInit => EventsInv
<1> SUFFICES ASSUME EventsInit PROVE EventsInv
  OBVIOUS
<1>1. Inv
  BY InitInv DEF EventsInit
<1>2. ChainOK /\ Len(chain) <= MaxBlocks /\ arriving \subseteq UserOps
  BY EventsAssumption DEF EventsInit, ChainOK
<1>3. CursorOK(Len(chain))
  BY DEF EventsInit, CursorOK, ScanOK
<1> QED
  BY <1>1, <1>2, <1>3 DEF EventsInv, EventsCore

(* What sendUserOperation is about to add comes and goes. *)
LEMMA ArrivalTypes ==
    ASSUME arriving \subseteq UserOps, [EventsNext]_allEventsVars
    PROVE  arriving' \subseteq UserOps
BY DEF EventsNext, ValidateOp, AddOp, arrivalVars, allEventsVars

(* The end of sendUserOperation keeps the invariant of the mempool. *)
LEMMA AddOpKeepsInv ==
    ASSUME Inv, arriving \subseteq UserOps, AddOp
    PROVE  Inv'
<1>1. PICK op \in UserOps : AddUserOp(op, NoAddr) \/ UNCHANGED mempoolVars
  BY DEF AddOp
<1>2. CASE AddUserOp(op, NoAddr)
  <2>1. MempoolNext
    BY <1>2, EventsAssumption DEF MempoolNext
  <2> QED
    BY <2>1, NextKeepsInv
<1>3. CASE UNCHANGED mempoolVars
  BY <1>3, InvStays
<1> QED
  BY <1>1, <1>2, <1>3

(* Every step keeps the invariant. *)
LEMMA EventsNextKeepsInv ==
    EventsInv /\ [EventsNext]_allEventsVars => EventsInv'
<1> SUFFICES ASSUME EventsInv, [EventsNext]_allEventsVars PROVE EventsInv'
  OBVIOUS
<1>0. Len(chain) \in Nat /\ Inv /\ EventsCore /\ MaxBlocks \in Nat /\ arriving \subseteq UserOps
  BY EventsAssumption DEF EventsInv, EventsCore, ChainOK
<1>a. arriving' \subseteq UserOps
  BY <1>0, ArrivalTypes
<1>1. ASSUME (\E to \in 1..BlockNumber : HearEvents(to)) \/ (\E s \in Scanner : ScanStep(s))
      PROVE  EventsInv'
  BY <1>0, <1>a, <1>1, EventActionsKeepCore DEF EventsInv
<1>2. ASSUME UNCHANGED eventsVars, Inv' PROVE EventsInv'
  BY <1>0, <1>a, <1>2, PoolStepKeepsCore DEF EventsInv, eventsVars
<1>3. ASSUME AddOp PROVE EventsInv'
  BY <1>0, <1>2, <1>3, AddOpKeepsInv DEF AddOp
<1>b. ASSUME NEW op \in UserOps, ValidateOp(op) PROVE EventsInv'
  BY <1>0, <1>2, <1>b, InvStays DEF ValidateOp
<1>c. ASSUME ReputationStep, UNCHANGED eventsVars PROVE EventsInv'
  <2>1. MempoolNext
    BY <1>c DEF MempoolNext
  <2> QED
    BY <1>0, <1>2, <1>c, <2>1, NextKeepsInv
<1>4. ASSUME NEW ops \in Batch, MineBlock(ops) PROVE EventsInv'
  <2>1. ops \in Seq(UserOps)
    <3>1. CASE ops = <<>>
      BY <3>1
    <3>2. CASE \E op \in UserOps : ops = <<op>>
      BY <3>2
    <3>3. CASE \E op1, op2 \in UserOps : ops = <<op1, op2>>
      BY <3>3
    <3> QED
      BY <3>1, <3>2, <3>3 DEF Batch
  <2>2. /\ chain' = Append(chain, LogOf(ops, BlockNumber + 1))
        /\ Len(chain) < MaxBlocks
        /\ UNCHANGED <<mempoolVars, heard, lastBlock, scans>>
    BY <1>4 DEF MineBlock, BlockNumber
  <2>3. EventsCore' /\ Len(chain') = Len(chain) + 1
    BY <1>0, <2>1, <2>2, BlockKeepsCore
  <2> QED
    BY <1>0, <1>a, <2>2, <2>3 DEF EventsInv
<1>d. ASSUME MineQuietBlock PROVE EventsInv'
  <2>1. /\ chain' = Append(chain, <<>>) /\ Len(chain) < MaxBlocks
        /\ UNCHANGED <<mempoolVars, heard, lastBlock, scans>>
    BY <1>d DEF MineQuietBlock, BlockNumber
  <2>2. EventsCore' /\ Len(chain') = Len(chain) + 1
    <3>1. PICK block : block = <<>>
      OBVIOUS
    <3>2. block \in Seq(Logged(Len(chain) + 1)) /\ block \in Seq(AnyEvent)
      BY <3>1
    <3> QED
      BY <1>0, <2>1, <3>1, <3>2, LogKeepsCore
  <2> QED
    BY <1>0, <1>a, <2>1, <2>2 DEF EventsInv
<1>5. CASE UNCHANGED allEventsVars
  BY <1>0, <1>2, <1>5, InvStays DEF allEventsVars
<1> QED
  BY <1>1, <1>3, <1>b, <1>c, <1>4, <1>d, <1>5 DEF EventsNext

(* Every reachable state satisfies the invariant. *)
LEMMA EventsInvariant == EventsSpec => []EventsInv
<1> QED
  BY EventsInitInv, EventsNextKeepsInv, PTL DEF EventsSpec

(* The cursor, the listener's position and the scans stay within their      *)
(* ranges, for every number of scanners.                                    *)
THEOREM EventsTypeCorrect == EventsSpec => []EventsTypeOK
<1>1. EventsInv => EventsTypeOK
  BY CoreKeepsRanges
<1> QED
  BY <1>1, EventsInvariant, PTL

(* The cursor never runs past the first block not yet mined.               *)
THEOREM CursorStaysWithinChain == EventsSpec => []CursorWithinChain
<1>1. EventsInv => CursorWithinChain
  BY CoreKeepsRanges DEF EventsInv
<1> QED
  BY <1>1, EventsInvariant, PTL

(* The mempool keeps its invariants while events take operations out of it. *)
THEOREM PoolInvariantsWithEvents ==
    EventsSpec => [](OneOpPerSenderNonce /\ CountCoversPool /\ UnstakedSendersLimited)
<1>1. EventsInv => OneOpPerSenderNonce /\ CountCoversPool /\ UnstakedSendersLimited
  BY DEF EventsInv, EventsCore, Inv
<1> QED
  BY <1>1, EventsInvariant, PTL

---------------------------------------------------------------------------
(* What events take out.                                                   *)

(* The blocks that one of the two paths handles are blocks of the chain. *)
LEMMA BothPathsFlush ==
    ASSUME EventsInv
    PROVE  /\ \A to \in 1..BlockNumber : HearEvents(to) =>
                 /\ heard + 1 \in Nat \ {0} /\ heard \in 0..Len(chain) /\ to \in 0..Len(chain)
                 /\ Inv' /\ Flushes(heard + 1, to)
           /\ \A s \in Scanner : HandlePastEvents(s) =>
                 /\ scans[s].pc = "answer"
                 /\ scans[s].from \in Nat \ {0} /\ scans[s].from <= Len(chain) + 1
                 /\ scans[s].to \in 0..Len(chain)
                 /\ Inv' /\ Flushes(scans[s].from, scans[s].to)
<1>0. Len(chain) \in Nat /\ CursorOK(Len(chain)) /\ Inv /\ ChainOK
  BY DEF EventsInv, EventsCore, ChainOK
<1>1. ASSUME NEW to \in 1..BlockNumber, HearEvents(to)
      PROVE  /\ heard + 1 \in Nat \ {0} /\ heard \in 0..Len(chain) /\ to \in 0..Len(chain)
             /\ Inv' /\ Flushes(heard + 1, to)
  <2>1. /\ heard + 1 \in Nat \ {0} /\ heard \in 0..Len(chain) /\ to \in 0..Len(chain)
        /\ SetHandled(HandleAll(EventsFrom(heard + 1, to), {"UserOperationEvent"}))
    BY <1>0, <1>1 DEF HearEvents, BlockNumber, CursorOK
  <2> QED
    BY <1>0, <2>1, HandlingStep
<1>2. ASSUME NEW s \in Scanner, HandlePastEvents(s)
      PROVE  /\ scans[s].pc = "answer"
             /\ scans[s].from \in Nat \ {0} /\ scans[s].from <= Len(chain) + 1
             /\ scans[s].to \in 0..Len(chain)
             /\ Inv' /\ Flushes(scans[s].from, scans[s].to)
  <2>1. /\ scans[s].pc = "answer"
        /\ SetHandled(HandleAll(EventsFrom(scans[s].from, scans[s].to),
                                {"UserOperationEvent", "AccountDeployed", "other"}))
    BY <1>2 DEF HandlePastEvents
  <2>2. /\ scans[s].from \in Nat \ {0} /\ scans[s].from <= Len(chain) + 1
        /\ scans[s].to \in 0..Len(chain)
    BY <1>0, <2>1 DEF CursorOK, ScanOK
  <2> QED
    BY <1>0, <2>1, <2>2, HandlingStep
<1> QED
  BY <1>1, <1>2

(* Whatever order the listener and old scans run in, an event takes an       *)
(* operation out of the pool only if the chain includes that operation.     *)
THEOREM EventsRemoveIncluded == EventsSpec => EventsRemoveOnlyIncluded
<1> DEFINE Goal == \A i \in DOMAIN mempool :
                      mempool[i].userOpHash \in MinedHashes
                      \/ \E j \in DOMAIN mempool' : mempool'[j] = mempool[i]
           Step == (\E to \in 1..BlockNumber : HearEvents(to))
                   \/ (\E s \in Scanner : HandlePastEvents(s))
<1>1. ASSUME EventsInv, Step PROVE Goal
  <2>1. \E from \in Nat \ {0} : \E to \in 0..Len(chain) : Flushes(from, to)
    BY <1>1, BothPathsFlush
  <2>2. PICK from \in Nat \ {0}, to \in 0..Len(chain) : Flushes(from, to)
    BY <2>1
  <2>3. Len(chain) \in Nat /\ Len(chain) \in 0..Len(chain)
    BY <1>1 DEF EventsInv, EventsCore, ChainOK
  <2>4. IncludedIsLogged(from, to) /\ IncludedIsLogged(1, Len(chain))
    BY <1>1, <2>3, IncludedInBlocks DEF EventsInv, EventsCore
  <2>5. \A n \in from..to : n \in 1..Len(chain)
    OBVIOUS
  <2>6. IncludedIn(from, to) \subseteq MinedHashes
    BY <2>4, <2>5 DEF IncludedIsLogged, MinedHashes, BlockNumber
  <2> QED
    BY <2>2, <2>6 DEF Flushes, ToSet
<1>2. EventsInv => [Step => Goal]_allEventsVars
  BY <1>1
<1> HIDE DEF Step, Goal
<1>3. EventsSpec => [][Step => Goal]_allEventsVars
  BY <1>2, EventsInvariant, PTL DEF EventsSpec
<1> QED
  BY <1>3 DEF EventsRemoveOnlyIncluded, Step, Goal

---------------------------------------------------------------------------
(* What the pool no longer holds.  An event carries one hash and takes out  *)
(* one entry: the theorems below are about clients that spell an account    *)
(* and a nonce in one way.  With a second spelling the pool can hold the    *)
(* same operation twice, and one event leaves one of them.                  *)

OneSpelling ==
    /\ \A a, b \in Addr : AccountOf[a] = AccountOf[b] => a = b
    /\ \A m, n \in Nonce : NonceValue[m] = NonceValue[n] => m = n

(* The fields of a hash that say which nonce of which account it uses up. *)
LEMMA HashFields ==
    ASSUME NEW op \in UserOps
    PROVE  /\ UserOpHash(op).sender = AccountOf[op.sender]
           /\ UserOpHash(op).nonce = NonceValue[op.nonce]
           /\ op.sender \in Addr /\ op.nonce \in Nonce
BY MempoolAssumption DEF UserOpHash, UserOperation

(* With one spelling, two entries of the pool never have the same hash. *)
LEMMA OneSpellingHashes ==
    ASSUME Inv, OneSpelling
    PROVE  HashesUnique(Pool)
<1>1. mempool \in Seq(PoolEntry) /\ Pool.mempool = mempool
  BY DEF Inv, MempoolTypeOK, Pool
<1>2. ASSUME NEW i \in DOMAIN mempool, NEW j \in DOMAIN mempool,
             mempool[i].userOpHash = mempool[j].userOpHash
      PROVE  i = j
  <2>1. mempool[i] \in PoolEntry /\ mempool[j] \in PoolEntry
    BY <1>1
  <2>2. \A e \in PoolEntry : e.userOp \in UserOps /\ e.userOpHash = UserOpHash(e.userOp)
    BY DEF PoolEntry, MempoolEntry
  <2>3. SameKey(mempool[i].userOp, mempool[j].userOp)
    BY <1>2, <2>1, <2>2, HashFields DEF OneSpelling, SameKey
  <2> QED
    BY <2>3 DEF Inv, OneOpPerSenderNonce
<1> QED
  BY <1>1, <1>2 DEF HashesUnique

(* No operation included in the first n blocks is in the pool, but late. *)
NoneLeft(n) == \A h \in IncludedIn(1, n) \ late : ~ InPool(h)

(* The chain only grows. *)
LEMMA ChainGrows ==
    ASSUME EventsInv, [EventsNext]_allEventsVars
    PROVE  /\ Len(chain') \in Nat /\ Len(chain) \in 0..Len(chain')
           /\ \A n \in 1..Len(chain) : chain'[n] = chain[n]
<1>0. Len(chain) \in Nat
  BY DEF EventsInv, EventsCore, ChainOK
<1>1. CASE chain' = chain
  BY <1>0, <1>1
<1>2. ASSUME NEW block, chain' = Append(chain, block)
      PROVE  /\ Len(chain') \in Nat /\ Len(chain) \in 0..Len(chain')
             /\ \A n \in 1..Len(chain) : chain'[n] = chain[n]
  <2>1. chain \in Seq(Seq(AnyEvent) \cup {block})
    BY DEF EventsInv, EventsCore, ChainOK
  <2> QED
    BY <1>0, <1>2, <2>1
<1>3. chain' = chain \/ \E block : chain' = Append(chain, block)
  BY DEF EventsNext, HearEvents, ScanStep, StartScan, GotBlockNumber, NodeAnswers,
         HandlePastEvents, ScanFails, MineBlock, MineQuietBlock, ValidateOp, AddOp,
         eventsVars, allEventsVars
<1> QED
  BY <1>1, <1>2, <1>3

(* Only the end of sendUserOperation adds to what was late. *)
LEMMA LateGrows ==
    ASSUME [EventsNext]_allEventsVars
    PROVE  late \subseteq late' /\ (late' = late \/ AddOp)
BY DEF EventsNext, ValidateOp, AddOp, arrivalVars, allEventsVars

(* An operation that is on the chain enters the pool only late. *)
LEMMA NothingMinedEnters ==
    ASSUME EventsInv, [EventsNext]_allEventsVars
    PROVE  \A h \in MinedHashes : InPool(h)' => InPool(h) \/ h \in late'
<1>1. ASSUME NEW from, NEW to, Flushes(from, to)
      PROVE  \A h \in MinedHashes : InPool(h)' => InPool(h)
  BY <1>1, InPoolIsHasHash DEF Flushes
<1>2. CASE \E to \in 1..BlockNumber : HearEvents(to)
  BY <1>1, <1>2, BothPathsFlush
<1>3. CASE \E s \in Scanner : HandlePastEvents(s)
  BY <1>1, <1>3, BothPathsFlush
<1>4. ASSUME mempool' = mempool PROVE \A h \in MinedHashes : InPool(h)' => InPool(h)
  BY <1>4 DEF InPool
<1>5. CASE AddOp
  <2> HIDE DEF InPool
  <2> QED
    BY <1>5 DEF AddOp
<1>6. \/ \E to \in 1..BlockNumber : HearEvents(to)
      \/ \E s \in Scanner : HandlePastEvents(s)
      \/ AddOp
      \/ mempool' = mempool
  BY DEF EventsNext, ScanStep, StartScan, GotBlockNumber, NodeAnswers, ScanFails, MineBlock,
         MineQuietBlock, ReputationStep, ValidateOp, poolVars, mempoolVars, allEventsVars
<1> QED
  BY <1>2, <1>3, <1>4, <1>5, <1>6

(* What was out of the pool stays out. *)
LEMMA NoneLeftStays ==
    ASSUME EventsInv, [EventsNext]_allEventsVars
    PROVE  \A n \in 0..Len(chain) : NoneLeft(n) => NoneLeft(n)'
<1> SUFFICES ASSUME NEW n \in 0..Len(chain), NoneLeft(n) PROVE NoneLeft(n)'
  OBVIOUS
<1>1. ChainOK /\ ChainOK' /\ Len(chain) \in Nat
  BY EventsNextKeepsInv DEF EventsInv, EventsCore, ChainOK
<1>2. /\ Len(chain') \in Nat /\ Len(chain) \in 0..Len(chain')
      /\ \A k \in 1..Len(chain) : chain'[k] = chain[k]
  BY ChainGrows
<1>3. IncludedIsLogged(1, n) /\ IncludedIsLogged(1, Len(chain))
  BY <1>1, IncludedInBlocks
<1>5. IncludedIsLogged(1, n)'
  BY <1>1, <1>2, IncludedInBlocksNext
<1>6. 1..n \subseteq 1..Len(chain)
  OBVIOUS
<1>7. IncludedIn(1, n)' \subseteq IncludedIn(1, n)
  BY <1>2, <1>3, <1>5, <1>6 DEF IncludedIsLogged
<1>8. IncludedIn(1, n) \subseteq MinedHashes
  BY <1>3, <1>6 DEF IncludedIsLogged, MinedHashes, BlockNumber
<1> QED
  BY <1>7, <1>8, NothingMinedEnters, LateGrows DEF NoneLeft

(* When the handlers run over blocks from..to and nothing of the blocks      *)
(* before is left, nothing up to block to is.                               *)
LEMMA FlushedSoFar ==
    ASSUME EventsInv, OneSpelling, [EventsNext]_allEventsVars, chain' = chain,
           NEW from \in Nat \ {0}, from <= Len(chain) + 1, NEW to \in 0..Len(chain),
           NoneLeft(from - 1), Flushes(from, to)
    PROVE  \A n \in 0..to : NoneLeft(n)'
<1>1. ChainOK /\ Len(chain) \in Nat /\ from - 1 \in 0..Len(chain)
  BY DEF EventsInv, EventsCore, ChainOK
<1>2. ASSUME NEW m, m = from - 1 PROVE \A h \in IncludedIn(1, m) \ late' : ~ InPool(h)'
  <2>1. NoneLeft(m) /\ m \in 0..Len(chain)
    BY <1>1, <1>2
  <2>2. NoneLeft(m)'
    BY <2>1, NoneLeftStays
  <2>3. IncludedIn(1, m)' = IncludedIn(1, m)
    BY DEF IncludedIn, EventsFrom
  <2> QED
    BY <2>2, <2>3 DEF NoneLeft
<1>3. \A h \in IncludedIn(from, to) : ~ InPool(h)'
  BY OneSpellingHashes DEF Flushes, EventsInv, EventsCore
<1>4. \A h \in IncludedIn(1, to) \ late' : ~ InPool(h)'
  BY <1>1, <1>2, <1>3, IncludedSplits
<1>5. ASSUME NEW n \in 0..to PROVE NoneLeft(n)'
  <2>1. IncludedIn(1, n) \subseteq IncludedIn(1, to)
    BY <1>1, IncludedGrows
  <2>2. IncludedIn(1, n)' = IncludedIn(1, n)
    BY DEF IncludedIn, EventsFrom
  <2> QED
    BY <1>4, <2>1, <2>2 DEF NoneLeft
<1> QED
  BY <1>5

(* Nothing is included in no blocks. *)
LEMMA NothingAtFirst == ChainOK => NoneLeft(0)
<1>1. ASSUME ChainOK PROVE IncludedIn(1, 0) = {}
  <2>1. IncludedIsLogged(1, 0)
    <3>1. 0 \in 0..Len(chain)
      BY <1>1 DEF ChainOK
    <3> QED
      BY <1>1, <3>1, IncludedInBlocks
  <2> QED
    BY <2>1 DEF IncludedIsLogged
<1> QED
  BY <1>1 DEF NoneLeft

(* A step of the listener moves what it heard; no other step does. *)
LEMMA HeardMoves ==
    ASSUME [EventsNext]_allEventsVars
    PROVE  heard' = heard \/ \E to \in 1..BlockNumber : HearEvents(to)
BY DEF EventsNext, ScanStep, StartScan, GotBlockNumber, NodeAnswers, HandlePastEvents,
       ScanFails, MineBlock, MineQuietBlock, ValidateOp, AddOp, eventsVars, allEventsVars

(* IncludedAwaitsItsEvent follows from itself: no scan puts back what the     *)
(* listener took out.                                                       *)
LEMMA HeardIsFlushed ==
    ASSUME EventsInv, OneSpelling, IncludedAwaitsItsEvent, [EventsNext]_allEventsVars
    PROVE  IncludedAwaitsItsEvent'
<1>0. NoneLeft(heard) /\ heard \in 0..Len(chain)
  BY DEF IncludedAwaitsItsEvent, NoneLeft, EventsInv, EventsCore, CursorOK, BlockNumber
<1>1. CASE heard' = heard
  <2>1. PICK n \in 0..Len(chain) : n = heard
    BY <1>0
  <2>2. NoneLeft(n)'
    BY <1>0, <2>1, NoneLeftStays
  <2> QED
    BY <1>1, <2>1, <2>2 DEF IncludedAwaitsItsEvent, NoneLeft
<1>2. ASSUME NEW to \in 1..BlockNumber, HearEvents(to) PROVE IncludedAwaitsItsEvent'
  <2>1. heard' = to /\ chain' = chain
    BY <1>2 DEF HearEvents
  <2>2. /\ heard + 1 \in Nat \ {0} /\ heard + 1 <= Len(chain) + 1
        /\ to \in 0..Len(chain) /\ Flushes(heard + 1, to) /\ (heard + 1) - 1 = heard
        /\ to \in 0..to
    BY <1>0, <1>2, BothPathsFlush
  <2>3. PICK from \in Nat \ {0} : from = heard + 1
    BY <2>2
  <2>4. Flushes(from, to) /\ from <= Len(chain) + 1 /\ NoneLeft(from - 1)
    BY <1>0, <2>2, <2>3
  <2>5. NoneLeft(to)'
    BY <2>1, <2>2, <2>4, FlushedSoFar
  <2> QED
    BY <2>1, <2>5 DEF IncludedAwaitsItsEvent, NoneLeft
<1> QED
  BY <1>1, <1>2, HeardMoves

(* An operation of the pool that the chain has included is one whose event   *)
(* the listener has not heard or one that was added late, for clients with  *)
(* one spelling.                                                            *)
THEOREM IncludedAwaits ==
    ASSUME OneSpelling
    PROVE  EventsSpec => []IncludedAwaitsItsEvent
<1>1. EventsInit => IncludedAwaitsItsEvent
  BY EventsInitInv, NothingAtFirst DEF EventsInit, EventsInv, EventsCore, IncludedAwaitsItsEvent, NoneLeft
<1>2. EventsInv /\ IncludedAwaitsItsEvent /\ [EventsNext]_allEventsVars => IncludedAwaitsItsEvent'
  BY HeardIsFlushed
<1> QED
  BY <1>1, <1>2, EventsInvariant, PTL DEF EventsSpec

(* What makes the end of a scan a flush: no operation included before the   *)
(* cursor, or before the block a waiting scan asked from, is in the pool.   *)
CursorSkipsNothing ==
    /\ lastBlock # 0 => NoneLeft(lastBlock - 1)
    /\ \A s \in Scanner : scans[s].pc \in {"query", "answer"} => NoneLeft(scans[s].from - 1)

(* The same after a step, from what is left up to given blocks. *)
LEMMA CursorSkipsNothingNext ==
    ASSUME NEW n, n # 0 => NoneLeft(n - 1)', lastBlock' = n,
           \A s \in Scanner : \A m :
              scans'[s].pc \in {"query", "answer"} /\ scans'[s].from = m => NoneLeft(m - 1)'
    PROVE  CursorSkipsNothing'
<1>1. lastBlock' # 0 => \A h \in IncludedIn(1, lastBlock - 1)' \ late' : ~ InPool(h)'
  BY DEF NoneLeft, IncludedIn, EventsFrom
<1>2. ASSUME NEW s \in Scanner, scans'[s].pc \in {"query", "answer"}
      PROVE  \A h \in IncludedIn(1, scans[s].from - 1)' \ late' : ~ InPool(h)'
  BY <1>2 DEF NoneLeft, IncludedIn, EventsFrom
<1> QED
  BY <1>1, <1>2 DEF CursorSkipsNothing, NoneLeft

(* Every step leaves nothing behind the cursor or a scan, while the chain    *)
(* has not outgrown the blocks the first scan looks back.                   *)
LEMMA CursorSkipsNothingStays ==
    ASSUME EventsInv, OneSpelling, MaxBlocks <= LookBack + 1, CursorSkipsNothing,
           IncludedAwaitsItsEvent, [EventsNext]_allEventsVars
    PROVE  CursorSkipsNothing'
<1>0. Len(chain) \in Nat /\ Len(chain) <= MaxBlocks /\ CursorOK(Len(chain)) /\ ChainOK
  BY DEF EventsInv, EventsCore, ChainOK
<1>1. ASSUME NEW n \in 1..(Len(chain) + 1), NoneLeft(n - 1) PROVE NoneLeft(n - 1)'
  <2>1. PICK m \in 0..Len(chain) : m = n - 1
    BY <1>0
  <2>2. NoneLeft(m)'
    BY <1>1, <2>1, NoneLeftStays
  <2> QED
    BY <2>1, <2>2
<1>2. ASSUME NEW n, lastBlock = n, n # 0 PROVE NoneLeft(n - 1)'
  <2>1. n \in 1..(Len(chain) + 1) /\ NoneLeft(n - 1)
    BY <1>0, <1>2 DEF CursorOK, CursorSkipsNothing
  <2> QED
    BY <1>1, <2>1
<1>3. ASSUME NEW s \in Scanner, NEW n, scans[s].pc \in {"query", "answer"}, scans[s].from = n
      PROVE  NoneLeft(n - 1)'
  <2>1. NoneLeft(n - 1)
    BY <1>3 DEF CursorSkipsNothing
  <2>2. n \in 1..(Len(chain) + 1)
    BY <1>0, <1>3 DEF CursorOK, ScanOK
  <2> QED
    BY <1>1, <2>1, <2>2
<1>4. ASSUME NEW n, lastBlock' = n, n # 0 => NoneLeft(n - 1)',
             \A s \in Scanner : scans'[s] = scans[s] \/ scans'[s].pc \in {"idle", "number"}
      PROVE  CursorSkipsNothing'
  BY <1>3, <1>4, CursorSkipsNothingNext
<1>5. ASSUME lastBlock' = lastBlock,
             \A s \in Scanner : scans'[s] = scans[s] \/ scans'[s].pc \in {"idle", "number"}
      PROVE  CursorSkipsNothing'
  <2>1. PICK n : n = lastBlock
    OBVIOUS
  <2> QED
    BY <1>2, <1>4, <1>5, <2>1
<1>6. ASSUME NEW from \in Nat \ {0}, from <= Len(chain) + 1, NEW to \in 0..Len(chain),
             NoneLeft(from - 1), Flushes(from, to), chain' = chain,
             \A s \in Scanner : scans'[s] = scans[s] \/ scans'[s].pc \in {"idle", "number"}
      PROVE  CursorSkipsNothing'
  <2>1. \A n \in 0..to : NoneLeft(n)'
    BY <1>6, FlushedSoFar
  <2>2. CASE lastBlock' = lastBlock
    BY <1>5, <1>6, <2>2
  <2>3. CASE \E n \in from..to : lastBlock' = n + 1
    <3>1. PICK n \in from..to : lastBlock' = n + 1
      BY <2>3
    <3>2. n \in 0..to /\ (n + 1) - 1 = n
      BY <3>1
    <3>3. NoneLeft((n + 1) - 1)'
      BY <2>1, <3>2
    <3> QED
      BY <1>4, <1>6, <3>1, <3>3
  <2> QED
    BY <1>6, <2>2, <2>3 DEF Flushes
<1>7. ASSUME NEW to \in 1..BlockNumber, HearEvents(to) PROVE CursorSkipsNothing'
  <2>1. /\ heard + 1 \in Nat \ {0} /\ heard + 1 <= Len(chain) + 1 /\ (heard + 1) - 1 = heard
        /\ to \in 0..Len(chain) /\ Flushes(heard + 1, to)
    BY <1>0, <1>7, BothPathsFlush
  <2>2. NoneLeft((heard + 1) - 1)
    BY <2>1 DEF IncludedAwaitsItsEvent, NoneLeft
  <2>3. chain' = chain /\ scans' = scans
    BY <1>7 DEF HearEvents
  <2>4. PICK from \in Nat \ {0} : from = heard + 1
    BY <2>1
  <2> QED
    BY <1>6, <2>1, <2>2, <2>3, <2>4
<1>8. ASSUME NEW s \in Scanner, HandlePastEvents(s) PROVE CursorSkipsNothing'
  <2>1. /\ scans[s].pc = "answer"
        /\ scans[s].from \in Nat \ {0} /\ scans[s].from <= Len(chain) + 1
        /\ scans[s].to \in 0..Len(chain) /\ Flushes(scans[s].from, scans[s].to)
    BY <1>8, BothPathsFlush
  <2>2. NoneLeft(scans[s].from - 1)
    BY <2>1 DEF CursorSkipsNothing
  <2>3. chain' = chain /\ scans' = [scans EXCEPT ![s] = [pc |-> "idle"]]
    BY <1>8 DEF HandlePastEvents
  <2>4. \A t \in Scanner : scans'[t] = scans[t] \/ scans'[t].pc \in {"idle", "number"}
    BY <1>0, <2>3 DEF CursorOK
  <2>5. PICK from \in Nat \ {0}, to \in 0..Len(chain) : from = scans[s].from /\ to = scans[s].to
    BY <2>1
  <2> QED
    BY <1>6, <2>1, <2>2, <2>3, <2>4, <2>5
<1>9. ASSUME NEW s \in Scanner, StartScan(s) PROVE CursorSkipsNothing'
  <2>1. /\ scans' = [scans EXCEPT ![s] =
              IF lastBlock = 0 THEN [pc |-> "number"] ELSE [pc |-> "query", from |-> lastBlock]]
        /\ lastBlock' = lastBlock
    BY <1>9 DEF StartScan
  <2>2. PICK n : n = lastBlock
    OBVIOUS
  <2>3. n # 0 => NoneLeft(n - 1)'
    BY <1>2, <2>2
  <2>4. ASSUME NEW t \in Scanner, NEW m,
               scans'[t].pc \in {"query", "answer"}, scans'[t].from = m
        PROVE  NoneLeft(m - 1)'
    <3>1. CASE t = s
      <4>1. n # 0 /\ m = n
        BY <1>0, <2>1, <2>2, <2>4, <3>1 DEF CursorOK
      <4> QED
        BY <2>3, <4>1
    <3>2. CASE t # s
      <4>1. scans'[t] = scans[t]
        BY <1>0, <2>1, <3>2 DEF CursorOK
      <4> QED
        BY <1>3, <2>4, <4>1
    <3> QED
      BY <3>1, <3>2
  <2> QED
    BY <2>1, <2>2, <2>3, <2>4, CursorSkipsNothingNext
<1>10. ASSUME NEW s \in Scanner, GotBlockNumber(s) PROVE CursorSkipsNothing'
  <2>1. /\ lastBlock' = 1
        /\ scans' = [scans EXCEPT ![s] = [pc |-> "query", from |-> 1]]
    <3>1. ~ (Len(chain) - LookBack > 1)
      BY <1>0, EventsAssumption
    <3> QED
      BY <1>10, <3>1 DEF GotBlockNumber, BlockNumber
  <2>2. NoneLeft(1 - 1)'
    <3>1. NoneLeft(0)
      BY <1>0, NothingAtFirst
    <3>2. NoneLeft(0)'
      BY <1>0, <3>1, NoneLeftStays
    <3>3. 1 - 1 = 0
      OBVIOUS
    <3> QED
      BY <3>2, <3>3
  <2>3. ASSUME NEW t \in Scanner, NEW m,
               scans'[t].pc \in {"query", "answer"}, scans'[t].from = m
        PROVE  NoneLeft(m - 1)'
    <3>1. CASE t = s
      <4>1. m = 1
        BY <1>0, <2>1, <2>3, <3>1 DEF CursorOK
      <4> QED
        BY <2>2, <4>1
    <3>2. CASE t # s
      <4>1. scans'[t] = scans[t]
        BY <1>0, <2>1, <3>2 DEF CursorOK
      <4> QED
        BY <1>3, <2>3, <4>1
    <3> QED
      BY <3>1, <3>2
  <2> QED
    BY <2>1, <2>2, <2>3, CursorSkipsNothingNext
<1>11. ASSUME NEW s \in Scanner, NodeAnswers(s) PROVE CursorSkipsNothing'
  <2>1. /\ scans[s].pc = "query" /\ lastBlock' = lastBlock
        /\ scans' = [scans EXCEPT ![s] =
              [pc |-> "answer", from |-> scans[s].from, to |-> Len(chain)]]
    BY <1>11 DEF NodeAnswers, BlockNumber
  <2>2. PICK n : n = lastBlock
    OBVIOUS
  <2>3. ASSUME NEW t \in Scanner, NEW m,
               scans'[t].pc \in {"query", "answer"}, scans'[t].from = m
        PROVE  NoneLeft(m - 1)'
    <3>1. scans[t].pc \in {"query", "answer"} /\ scans[t].from = m
      BY <1>0, <2>1, <2>3 DEF CursorOK
    <3> QED
      BY <1>3, <3>1
  <2> QED
    BY <1>2, <2>1, <2>2, <2>3, CursorSkipsNothingNext
<1>12. ASSUME NEW s \in Scanner, ScanFails(s) PROVE CursorSkipsNothing'
  <2>1. scans' = [scans EXCEPT ![s] = [pc |-> "idle"]] /\ lastBlock' = lastBlock
    BY <1>12 DEF ScanFails
  <2>2. \A t \in Scanner : scans'[t] = scans[t] \/ scans'[t].pc \in {"idle", "number"}
    BY <1>0, <2>1 DEF CursorOK
  <2> QED
    BY <1>5, <2>1, <2>2
<1>13. CASE UNCHANGED <<lastBlock, scans>>
  BY <1>5, <1>13
<1>14. \/ \E to \in 1..BlockNumber : HearEvents(to)
       \/ \E s \in Scanner : ScanStep(s)
       \/ UNCHANGED <<lastBlock, scans>>
  BY DEF EventsNext, MineBlock, MineQuietBlock, ValidateOp, AddOp, eventsVars, allEventsVars
<1> QED
  BY <1>7, <1>8, <1>9, <1>10, <1>11, <1>12, <1>13, <1>14 DEF ScanStep

(* When a scan ends, nothing included in a block its answer covers is left   *)
(* but what was added late, whatever moved the cursor meanwhile; for        *)
(* clients with one spelling, and a chain that was not longer than          *)
(* LookBack + 1 when the first scan looked back.                            *)
THEOREM ScansFlush ==
    ASSUME OneSpelling, MaxBlocks <= LookBack + 1
    PROVE  EventsSpec => ScanFlushes
<1> DEFINE Goal == \A s \in Scanner : HandlePastEvents(s) =>
                      \A h \in IncludedIn(1, scans[s].to) \ late : ~ InPool(h)'
<1>1. EventsInit => IncludedAwaitsItsEvent /\ CursorSkipsNothing
  <2>1. EventsInit => IncludedAwaitsItsEvent
    BY EventsInitInv, NothingAtFirst DEF EventsInit, EventsInv, EventsCore, IncludedAwaitsItsEvent, NoneLeft
  <2>2. EventsInit => CursorSkipsNothing
    BY DEF EventsInit, CursorSkipsNothing
  <2> QED
    BY <2>1, <2>2
<1>2. EventsInv /\ IncludedAwaitsItsEvent /\ CursorSkipsNothing /\ [EventsNext]_allEventsVars
      => IncludedAwaitsItsEvent' /\ CursorSkipsNothing'
  BY HeardIsFlushed, CursorSkipsNothingStays
<1>3. EventsInv /\ CursorSkipsNothing /\ [EventsNext]_allEventsVars => [Goal]_allEventsVars
  <2> SUFFICES ASSUME EventsInv, CursorSkipsNothing, [EventsNext]_allEventsVars,
                      NEW s \in Scanner, HandlePastEvents(s)
               PROVE  \A h \in IncludedIn(1, scans[s].to) \ late : ~ InPool(h)'
    OBVIOUS
  <2>1. /\ scans[s].pc = "answer"
        /\ scans[s].from \in Nat \ {0} /\ scans[s].from <= Len(chain) + 1
        /\ scans[s].to \in 0..Len(chain) /\ Flushes(scans[s].from, scans[s].to)
    BY BothPathsFlush
  <2>2. NoneLeft(scans[s].from - 1)
    BY <2>1 DEF CursorSkipsNothing
  <2>3. chain' = chain
    BY DEF HandlePastEvents
  <2>4. PICK from \in Nat \ {0}, to \in 0..Len(chain) : from = scans[s].from /\ to = scans[s].to
    BY <2>1
  <2>5. NoneLeft(to)'
    <3>1. \A n \in 0..to : NoneLeft(n)'
      BY <2>1, <2>2, <2>3, <2>4, FlushedSoFar
    <3> QED
      BY <3>1
  <2>6. IncludedIn(1, to)' = IncludedIn(1, to)
    BY <2>3 DEF IncludedIn, EventsFrom
  <2>7. late' = late
    <3>1. CASE AddOp
      <4>1. scans' = scans /\ scans[s].pc = "answer"
        BY <2>1, <3>1 DEF AddOp, eventsVars
      <4>2. scans' = [scans EXCEPT ![s] = [pc |-> "idle"]] /\ DOMAIN scans = Scanner
        BY DEF HandlePastEvents, EventsInv, EventsCore, CursorOK
      <4> QED
        BY <4>1, <4>2
    <3> QED
      BY <3>1, LateGrows
  <2> QED
    BY <2>4, <2>5, <2>6, <2>7 DEF NoneLeft
<1> HIDE DEF Goal
<1>4. EventsSpec => [][Goal]_allEventsVars
  BY <1>1, <1>2, <1>3, EventsInvariant, PTL DEF EventsSpec
<1> QED
  BY <1>4 DEF ScanFlushes, Goal
=============================================================================
