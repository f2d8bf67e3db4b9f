--------------------------- MODULE MempoolManager ---------------------------
(***************************************************************************)
(* The bundler's MempoolManager: the queue of accepted UserOperations and  *)
(* a count of operations per sender, with the reputation it updates.       *)
(*                                                                         *)
(* Senders and nonces are the texts of the JSON request: the code compares *)
(* them as strings, so two spellings of an account or of a nonce are two   *)
(* values here.  AccountOf and NonceValue say what a text denotes on       *)
(* chain; userOpHash is computed on chain from the denoted values, and is  *)
(* modelled by the operation with its texts replaced by those.             *)
(*                                                                         *)
(* Left out of a pool entry: prefund, which nothing reads back from the    *)
(* pool, and referencedContracts, which only the second validation reads.  *)
(***************************************************************************)
EXTENDS ReputationManager, SequencesExt

CONSTANTS
    UserOps,              \* the operations clients submit
    Nonce,                \* nonce texts
    AccountOf,            \* sender text -> account
    NonceValue,           \* nonce text -> number
    StakeOf,              \* sender text -> [stake, unstakeDelaySec] it has
    Aggregators,          \* what validation may report, NoAddr for none
    MaxUserOpsPerSender,  \* MAX_MEMPOOL_USEROPS_PER_SENDER, 4 in the code
    Judged,               \* bound: entities a crash or a dump is about
    MaxCount              \* bound: refused operations stop being counted here

UserOperation ==
    [sender : Addr, nonce : Nonce,
     maxPriorityFeePerGas : Nat, maxFeePerGas : Nat,
     paymaster : Addr \cup {NoAddr}, factory : Addr \cup {NoAddr}]

ASSUME MempoolAssumption ==
    /\ UserOps \subseteq UserOperation
    /\ StakeOf \in [Addr -> [stake : Nat, unstakeDelaySec : Nat]]
    /\ Aggregators \subseteq Addr \cup {NoAddr}
    /\ MaxUserOpsPerSender \in Nat
    /\ Judged \subseteq Addr
    /\ MaxCount \in Nat

VARIABLES
    mempool,      \* sequence of entries, oldest first
    entryCount    \* partial function: sender text -> number

poolVars == <<mempool, entryCount>>
mempoolVars == <<mempool, entryCount, entries, whitelist, blackList>>

UserOpHash(op) ==
    [op EXCEPT !.sender = AccountOf[op.sender], !.nonce = NonceValue[op.nonce]]

MempoolEntry(op, aggregator) ==
    [userOp |-> op, userOpHash |-> UserOpHash(op), aggregator |-> aggregator]

(* senderInfo of the validation result: addr is the sender's own text. *)
SenderInfo(op) ==
    [addr |-> op.sender,
     stake |-> StakeOf[op.sender].stake,
     unstakeDelaySec |-> StakeOf[op.sender].unstakeDelaySec]

---------------------------------------------------------------------------
(* Searches.  An index of 0 stands for -1.                                 *)

(* Mutant: the first place taken for "not found". *)
FindBySenderNonceAfterFirst(pool, sender, nonce) ==
    LET i == SelectInSeq(pool, LAMBDA e : e.userOp.sender = sender /\ e.userOp.nonce = nonce)
    IN  IF i = 1 THEN 0 ELSE i

FindBySenderNonce(pool, sender, nonce) ==
    SelectInSeq(pool, LAMBDA e : e.userOp.sender = sender /\ e.userOp.nonce = nonce)

FindByHash(pool, hash) ==
    SelectInSeq(pool, LAMBDA e : e.userOpHash = hash)

CountOf(counts, sender) == IF sender \in DOMAIN counts THEN counts[sender] ELSE 0

SetCount(counts, sender, n) ==
    [s \in DOMAIN counts \cup {sender} |-> IF s = sender THEN n ELSE counts[s]]

(* Mutants: a count of zero is kept; the count is always deleted. *)
UncountedToZero(counts, sender) ==
    SetCount(counts, sender, CountOf(counts, sender) - 1)

UncountedAltogether(counts, sender) ==
    [s \in DOMAIN counts \ {sender} |-> counts[s]]

Uncounted(counts, sender) ==
    IF CountOf(counts, sender) - 1 <= 0
    THEN [s \in DOMAIN counts \ {sender} |-> counts[s]]
    ELSE SetCount(counts, sender, CountOf(counts, sender) - 1)

(* Mutant: the factor 1.1 is on the wrong side. *)
PaysALittleLess(old, new) ==
    /\ 11 * new.maxPriorityFeePerGas >= 10 * old.maxPriorityFeePerGas
    /\ 11 * new.maxFeePerGas >= 10 * old.maxFeePerGas

(* checkReplaceUserOp, with x >= y * 1.1 in integers. *)
PaysForReplacement(old, new) ==
    /\ 10 * new.maxPriorityFeePerGas >= 11 * old.maxPriorityFeePerGas
    /\ 10 * new.maxFeePerGas >= 11 * old.maxFeePerGas

(* The private updateSeenStatus: aggregator, paymaster and factory. *)
SeenWith(es, aggregator, op) ==
    CountSeen(CountSeen(CountSeen(es, aggregator), op.paymaster), op.factory)

(* What a removal leaves: nothing happens when nothing was found. *)
RemovedAt(pool, i) ==
    IF i = 0 THEN pool
    ELSE [mempool |-> RemoveAt(pool.mempool, i),
          entryCount |-> Uncounted(pool.entryCount, pool.mempool[i].userOp.sender)]

RemovedOp(pool, op) ==
    RemovedAt(pool, FindBySenderNonce(pool.mempool, op.sender, op.nonce))

(* Mutant: whatever is queued under the included sender and nonce goes. *)
RemovedBySenderNonce(pool, hash) ==
    RemovedAt(pool, FindBySenderNonce(pool.mempool, hash.sender, hash.nonce))

RemovedHash(pool, hash) == RemovedAt(pool, FindByHash(pool.mempool, hash))

Pool == [mempool |-> mempool, entryCount |-> entryCount]

SetPool(pool) == mempool' = pool.mempool /\ entryCount' = pool.entryCount

(* getSortedForInclusion: a stable sort by ascending priority fee. *)
SortedForInclusion(pool) ==
    LET Cost(i) == pool[i].userOp.maxPriorityFeePerGas
        Before(i, j) == Cost(i) < Cost(j) \/ (Cost(i) = Cost(j) /\ i < j)
        Rank(j) == Cardinality({i \in DOMAIN pool : Before(i, j)}) + 1
    IN  [r \in DOMAIN pool |-> pool[CHOOSE j \in DOMAIN pool : Rank(j) = r]]

---------------------------------------------------------------------------
(* The methods.  addUserOp is three actions, one per way it ends; when the *)
(* fee is too low for a replacement it throws and nothing has changed.     *)

MempoolInit ==
    /\ mempool = <<>>
    /\ entryCount = [s \in {} |-> 0]
    /\ RepInit

SeenBelowBound(op, aggregator) ==
    \A a \in {aggregator, op.paymaster, op.factory} :
        EntryOf(entries, a).opsSeen + 2 < MaxOps \/ a = NoAddr

ReplaceUserOp(op, aggregator) ==
    LET i == FindBySenderNonce(mempool, op.sender, op.nonce)
    IN  /\ i # 0
        /\ PaysForReplacement(mempool[i].userOp, op)
        /\ mempool' = [mempool EXCEPT ![i] = MempoolEntry(op, aggregator)]
        /\ entries' = SeenWith(entries, aggregator, op)
        /\ UNCHANGED <<entryCount, whitelist, blackList>>

PushUserOp(op, aggregator) ==
    LET count == CountOf(entryCount, op.sender) + 1
    IN  /\ FindBySenderNonce(mempool, op.sender, op.nonce) = 0
        /\ count > MaxUserOpsPerSender => StakeAccepted(entries, SenderInfo(op))
        /\ entryCount' = SetCount(entryCount, op.sender, count)
        /\ mempool' = Append(mempool, MempoolEntry(op, aggregator))
        /\ entries' = SeenWith(entries, aggregator, op)
        /\ UNCHANGED <<whitelist, blackList>>

(* checkSenderCountInMempool throws after the count was raised. *)
RefuseUserOp(op) ==
    LET count == CountOf(entryCount, op.sender) + 1
    IN  /\ FindBySenderNonce(mempool, op.sender, op.nonce) = 0
        /\ count > MaxUserOpsPerSender
        /\ ~ StakeAccepted(entries, SenderInfo(op))
        /\ count <= MaxCount
        /\ entryCount' = SetCount(entryCount, op.sender, count)
        /\ UNCHANGED <<mempool, entries, whitelist, blackList>>

AddUserOp(op, aggregator) ==
    /\ SeenBelowBound(op, aggregator)
    /\ \/ ReplaceUserOp(op, aggregator)
       \/ PushUserOp(op, aggregator)
       \/ RefuseUserOp(op)

RemoveUserOp(op) ==
    /\ SetPool(RemovedOp(Pool, op))
    /\ UNCHANGED repVars

RemoveUserOpHash(hash) ==
    /\ SetPool(RemovedHash(Pool, hash))
    /\ UNCHANGED repVars

(* debug_bundler_clearState clears the mempool and the reputation. *)
ClearState ==
    /\ mempool' = <<>>
    /\ entryCount' = [s \in {} |-> 0]
    /\ RepClearState

(* What happens to reputations while operations wait: the hourly cron, a    *)
(* handleOps that reverts because of an entity, and the setter of a dump    *)
(* (which debug_bundler_setReputation is there for, with a wrong argument). *)
ReputationStep ==
    /\ \/ HourlyCron
       \/ \E a \in Judged : CrashedHandleOps(a) \/ \E dump \in Dump(a) : SetReputation(dump)
    /\ UNCHANGED poolVars

MempoolNext ==
    \/ \E op \in UserOps :
          \/ \E aggregator \in Aggregators : AddUserOp(op, aggregator)
          \/ RemoveUserOp(op)
          \/ RemoveUserOpHash(UserOpHash(op))
    \/ ReputationStep
    \/ ClearState

MempoolSpec == MempoolInit /\ [][MempoolNext]_mempoolVars

---------------------------------------------------------------------------
(* Properties.                                                             *)

PoolEntry == {MempoolEntry(op, g) : op \in UserOps, g \in Aggregators}

(* The mempool is a queue of entries of submitted operations, each with the *)
(* hash of its operation; the counters are positive where they exist.       *)
MempoolTypeOK ==
    /\ mempool \in Seq(PoolEntry)
    /\ DOMAIN entryCount \subseteq Addr
    /\ entryCount \in [DOMAIN entryCount -> Nat \ {0}]

SameKey(op1, op2) == op1.sender = op2.sender /\ op1.nonce = op2.nonce

(* addUserOp replaces rather than pushes an operation with the same sender  *)
(* and nonce, so removeUserOp(op), which takes out the first match, takes   *)
(* out the only one.                                                        *)
OneOpPerSenderNonce ==
    \A i, j \in DOMAIN mempool :
        SameKey(mempool[i].userOp, mempool[j].userOp) => i = j

PositionsOf(sender) == {i \in DOMAIN mempool : mempool[i].userOp.sender = sender}

(* entryCount never falls below the number of operations a sender has in    *)
(* the pool, through replacements, refusals and removals of either kind: an *)
(* undercount would let a sender exceed its limit.                          *)
CountCoversPool ==
    \A s \in Addr : Cardinality(PositionsOf(s)) <= CountOf(entryCount, s)

StakeIsEnough(s) ==
    StakeOf[s].stake >= MinStake /\ StakeOf[s].unstakeDelaySec >= MinUnstakeDelay

(* "allow 4 entities if unstaked, or any number if staked": however adds,   *)
(* refusals, replacements and removals alternate, an unstaked sender that   *)
(* is not whitelisted never has more than the limit in the pool.            *)
UnstakedSendersLimited ==
    \A s \in Addr \ whitelist :
        ~ StakeIsEnough(s) => Cardinality(PositionsOf(s)) <= MaxUserOpsPerSender

---------------------------------------------------------------------------
(* The abstract pool: a map from (sender, nonce) to an entry.              *)

KeyOf(e) == <<e.userOp.sender, e.userOp.nonce>>

MapOf(pool) ==
    [k \in {KeyOf(pool[i]) : i \in DOMAIN pool} |->
        pool[CHOOSE i \in DOMAIN pool : KeyOf(pool[i]) = k]]

PoolMap == MapOf(mempool)

Unlimited(s) == s \in ConfigWhitelist \/ StakeIsEnough(s)

Map == INSTANCE OpPool WITH pool <- PoolMap

(* The queue with its two searches and its counters implements a map from   *)
(* (sender, nonce) to operations that only a dearer operation overwrites    *)
(* and that admits the operations of an unstaked sender up to the limit.    *)
ImplementsOpPool == Map!PoolSpec
=============================================================================
