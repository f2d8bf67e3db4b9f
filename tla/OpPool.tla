------------------------------- MODULE OpPool -------------------------------
(***************************************************************************)
(* What the mempool promises: at most one pending operation per (sender,   *)
(* nonce), overwritten only by one that pays a tenth more in both fees,    *)
(* and at most MaxUserOpsPerSender operations of a sender that has neither *)
(* a stake nor a place in the whitelist.  Order, counters and searches are *)
(* the concern of the implementation.                                      *)
(***************************************************************************)
EXTENDS Integers, FiniteSets

CONSTANTS PoolEntry,            \* the entries the pool may hold
          KeyOf(_),             \* entry -> <<sender, nonce>>
          Unlimited(_),         \* may this sender have any number of entries?
          MaxUserOpsPerSender

VARIABLE pool    \* partial function: key -> entry

PoolInit == pool = [k \in {} |-> {}]

Dearer(old, new) ==
    /\ 10 * new.userOp.maxPriorityFeePerGas >= 11 * old.userOp.maxPriorityFeePerGas
    /\ 10 * new.userOp.maxFeePerGas >= 11 * old.userOp.maxFeePerGas

With(e) == [k \in DOMAIN pool \cup {KeyOf(e)} |-> IF k = KeyOf(e) THEN e ELSE pool[k]]

Enter(e) ==
    /\ KeyOf(e) \notin DOMAIN pool
    /\ \/ Unlimited(KeyOf(e)[1])
       \/ Cardinality({k \in DOMAIN pool : k[1] = KeyOf(e)[1]}) < MaxUserOpsPerSender
    /\ pool' = With(e)

Overwrite(e) ==
    /\ KeyOf(e) \in DOMAIN pool
    /\ Dearer(pool[KeyOf(e)], e)
    /\ pool' = With(e)

Drop(k) ==
    /\ k \in DOMAIN pool
    /\ pool' = [j \in DOMAIN pool \ {k} |-> pool[j]]

Empty == pool' = [k \in {} |-> {}]

PoolNext ==
    \/ \E e \in PoolEntry : Enter(e) \/ Overwrite(e)
    \/ \E k \in DOMAIN pool : Drop(k)
    \/ Empty

PoolSpec == PoolInit /\ [][PoolNext]_pool
=============================================================================
