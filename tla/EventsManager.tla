--------------------------- MODULE EventsManager ---------------------------
(***************************************************************************)
(* The bundler's EventsManager: it takes operations out of the mempool     *)
(* when the chain shows them included.  Two paths call handleEvent:        *)
(*   - the listener, which hears every UserOperationEvent in chain order.  *)
(*     The provider polls; the callbacks for the logs of one answer run    *)
(*     back to back, so a poll up to some block is one step;               *)
(*   - handlePastEvents, an asynchronous scan from lastBlock on, which     *)
(*     several callers may have running at once (the bundling loop, the    *)
(*     flush after it, the debug RPC).                                     *)
(* Both write lastBlock, the cursor of the scans.                          *)
(*                                                                         *)
(* Operations arrive as sendUserOperation adds them: it validates, awaits  *)
(* the hash, and adds, and the chain moves on in between.                  *)
(*                                                                         *)
(* The chain is external.  A block holds the events of the entry point:    *)
(* for a handleOps transaction the AccountDeployed of every operation with *)
(* a factory, then BeforeExecution and one UserOperationEvent per          *)
(* operation.  The events that have no handler, which also come without a  *)
(* bundle (a deposit, a stake), are all called "other".                    *)
(*                                                                         *)
(* Left out: the attribution to aggregators.  It only feeds                *)
(* _includedAddress, which ignores every address (see IncludedAddress).    *)
(***************************************************************************)
EXTENDS MempoolManager

CONSTANTS
    Scanner,     \* the callers of handlePastEvents
    LookBack,    \* blocks the first scan goes back, 1000 in the code
    MaxBlocks    \* bound on the length of the chain

ASSUME EventsAssumption ==
    /\ LookBack \in Nat
    /\ MaxBlocks \in Nat
    /\ NoAddr \in Aggregators   \* operations without an aggregator are submitted

VARIABLES
    chain,       \* sequence of blocks, each a sequence of events
    heard,       \* the block up to which the listener was called
    lastBlock,   \* 0 for undefined
    scans,       \* what each caller of handlePastEvents waits for
    arriving,    \* {} or {the operation sendUserOperation is about to add}
    late         \* hashes that were on the chain when they entered the pool;
                 \* read only by the properties

eventsVars == <<chain, heard, lastBlock, scans>>
arrivalVars == <<arriving, late>>

BlockNumber == Len(chain)

---------------------------------------------------------------------------
(* The chain.                                                              *)

OpEvent(op, number) ==
    [event |-> "UserOperationEvent", blockNumber |-> number,
     userOpHash |-> UserOpHash(op), sender |-> op.sender, paymaster |-> op.paymaster]

DeployedEvent(op, number) ==
    [event |-> "AccountDeployed", blockNumber |-> number,
     userOpHash |-> UserOpHash(op), factory |-> op.factory]

OtherEvent(number) == [event |-> "other", blockNumber |-> number]

(* The log of a handleOps transaction in block number; without operations   *)
(* that of a transaction of another kind.                                   *)
LogOf(ops, number) ==
    FlattenSeq([i \in DOMAIN ops |->
        IF ops[i].factory # NoAddr THEN <<DeployedEvent(ops[i], number)>> ELSE <<>>])
    \o <<OtherEvent(number)>>
    \o [i \in DOMAIN ops |-> OpEvent(ops[i], number)]

EventsFrom(from, to) ==
    FlattenSeq([n \in 1..(IF from <= to THEN to - from + 1 ELSE 0) |-> chain[from + n - 1]])

IsOpEvent(ev) == ev.event = "UserOperationEvent"

(* The hashes of the operations included in blocks from..to. *)
IncludedIn(from, to) ==
    {ev.userOpHash : ev \in {e \in ToSet(EventsFrom(from, to)) : IsOpEvent(e)}}

MinedHashes == IncludedIn(1, BlockNumber)

(* The account and nonce an operation uses up on chain: it is spent once    *)
(* any operation with them is included.                                     *)
NonceKey(op) == <<AccountOf[op.sender], NonceValue[op.nonce]>>

Spent(op) == \E h \in MinedHashes : <<h.sender, h.nonce>> = NonceKey(op)

---------------------------------------------------------------------------
(* handleEvent, on the state it changes.                                   *)

AddressLength == 42

(* data.length > 42 never holds of an address. *)
IncludedAddress(es, a) ==
    IF a # NoAddr /\ AddressLength > 42 THEN CountIncluded(es, a) ELSE es

HandleUserOperationEvent(st, ev) ==
    [st EXCEPT
        !.pool = RemovedHash(st.pool, ev.userOpHash),
        !.entries = IncludedAddress(IncludedAddress(st.entries, ev.sender), ev.paymaster)]

HandleAccountDeployedEvent(st, ev) ==
    [st EXCEPT !.entries = IncludedAddress(st.entries, ev.factory)]

(* Mutants: an event behind the cursor is taken for handled; the cursor     *)
(* moves past the next block too.                                           *)
HandleEventOnce(st, ev) ==
    IF ev.blockNumber < st.lastBlock \/ ~ IsOpEvent(ev) THEN st
    ELSE [HandleUserOperationEvent(st, ev) EXCEPT !.lastBlock = ev.blockNumber + 1]

HandleEventTooFar(st, ev) ==
    IF IsOpEvent(ev)
    THEN [HandleUserOperationEvent(st, ev) EXCEPT !.lastBlock = ev.blockNumber + 2]
    ELSE [st EXCEPT !.lastBlock = ev.blockNumber + 2]

HandleEvent(st, ev) ==
    LET handled == IF ev.event = "UserOperationEvent"
                   THEN HandleUserOperationEvent(st, ev)
                   ELSE IF ev.event = "AccountDeployed"
                   THEN HandleAccountDeployedEvent(st, ev)
                   ELSE st
    IN  [handled EXCEPT !.lastBlock = ev.blockNumber + 1]

(* handleEvent called for the events that have one of the names, in order. *)
HandleAll(events, names) ==
    LET after[n \in 0..Len(events)] ==
            IF n = 0
            THEN [pool |-> Pool, entries |-> entries, lastBlock |-> lastBlock]
            ELSE IF events[n].event \in names THEN HandleEvent(after[n - 1], events[n])
            ELSE after[n - 1]
    IN  after[Len(events)]

(* The quantifier makes TLC evaluate the result once. *)
SetHandled(result) ==
    \E st \in {result} :
    /\ SetPool(st.pool)
    /\ entries' = st.entries
    /\ lastBlock' = st.lastBlock
    /\ UNCHANGED <<whitelist, blackList>>

---------------------------------------------------------------------------
(* The two paths.                                                          *)

EventsInit ==
    /\ MempoolInit
    /\ chain = <<>>
    /\ heard = 0
    /\ lastBlock = 0
    /\ scans = [s \in Scanner |-> [pc |-> "idle"]]
    /\ arriving = {}
    /\ late = {}

(* The callbacks of initEventListener for one poll, up to block to. *)
HearEvents(to) ==
    /\ heard < to
    /\ heard' = to
    /\ SetHandled(HandleAll(EventsFrom(heard + 1, to), {"UserOperationEvent"}))
    /\ UNCHANGED <<chain, scans>>

(* Mutant: the scan starts behind the cursor's block. *)
StartScanLate(s) ==
    /\ scans[s].pc = "idle"
    /\ scans' = [scans EXCEPT ![s] =
          IF lastBlock = 0 THEN [pc |-> "number"]
          ELSE [pc |-> "query", from |-> lastBlock + 1]]
    /\ UNCHANGED <<mempoolVars, chain, heard, lastBlock>>

(* handlePastEvents up to its first await. *)
StartScan(s) ==
    /\ scans[s].pc = "idle"
    /\ scans' = [scans EXCEPT ![s] =
          IF lastBlock = 0 THEN [pc |-> "number"]
          ELSE [pc |-> "query", from |-> lastBlock]]
    /\ UNCHANGED <<mempoolVars, chain, heard, lastBlock>>

(* Mutant: no lower bound of 1. *)
GotBlockNumberUnbounded(s) ==
    /\ scans[s].pc = "number"
    /\ lastBlock' = BlockNumber - LookBack
    /\ scans' = [scans EXCEPT ![s] = [pc |-> "query", from |-> lastBlock']]
    /\ UNCHANGED <<mempoolVars, chain, heard>>

(* getBlockNumber answers; the assignment does not look at lastBlock again. *)
GotBlockNumber(s) ==
    /\ scans[s].pc = "number"
    /\ lastBlock' = (IF BlockNumber - LookBack > 1 THEN BlockNumber - LookBack ELSE 1)
    /\ scans' = [scans EXCEPT ![s] = [pc |-> "query", from |-> lastBlock']]
    /\ UNCHANGED <<mempoolVars, chain, heard>>

(* The node computes the answer of queryFilter. *)
NodeAnswers(s) ==
    /\ scans[s].pc = "query"
    /\ scans' = [scans EXCEPT ![s] =
          [pc |-> "answer", from |-> @.from, to |-> BlockNumber]]
    /\ UNCHANGED <<mempoolVars, chain, heard, lastBlock>>

(* The loop over the events of the answer, without an await. *)
HandlePastEvents(s) ==
    /\ scans[s].pc = "answer"
    /\ SetHandled(HandleAll(EventsFrom(scans[s].from, scans[s].to),
                            {"UserOperationEvent", "AccountDeployed", "other"}))
    /\ scans' = [scans EXCEPT ![s] = [pc |-> "idle"]]
    /\ UNCHANGED <<chain, heard>>

(* The node's answer is an error, or is lost: handlePastEvents rejects. *)
ScanFails(s) ==
    /\ scans[s].pc # "idle"
    /\ scans' = [scans EXCEPT ![s] = [pc |-> "idle"]]
    /\ UNCHANGED <<mempoolVars, chain, heard, lastBlock>>

ScanStep(s) ==
    \/ StartScan(s) \/ GotBlockNumber(s) \/ NodeAnswers(s) \/ HandlePastEvents(s)
    \/ ScanFails(s)

---------------------------------------------------------------------------
(* sendUserOperation, and anybody's transactions.                          *)

InPool(hash) == \E i \in DOMAIN mempool : mempool[i].userOpHash = hash

(* validateUserOp passed, and getUserOpHash is awaited.  One request at a   *)
(* time is there (a bound).                                                 *)
ValidateOp(op) ==
    /\ arriving = {}
    /\ ~ Spent(op)
    /\ arriving' = {op}
    /\ UNCHANGED <<mempoolVars, eventsVars, late>>

(* addUserOp, which throws when the replacement pays too little. *)
AddOp ==
    /\ \E op \in arriving :
          LET i == FindBySenderNonce(mempool, op.sender, op.nonce)
              PaysTooLittle == i # 0 /\ ~ PaysForReplacement(mempool[i].userOp, op)
          IN  AddUserOp(op, NoAddr) \/ (PaysTooLittle /\ UNCHANGED mempoolVars)
    /\ arriving' = {}
    /\ late' = late \cup {h \in MinedHashes : InPool(h)' /\ ~ InPool(h)}
    /\ UNCHANGED eventsVars

(* A block with one handleOps transaction, or one of another kind. *)
MineBlock(ops) ==
    /\ BlockNumber < MaxBlocks
    /\ \A i \in DOMAIN ops : ~ Spent(ops[i])
    /\ \A i, j \in DOMAIN ops : i # j => NonceKey(ops[i]) # NonceKey(ops[j])
    /\ chain' = Append(chain, LogOf(ops, BlockNumber + 1))
    /\ UNCHANGED <<mempoolVars, heard, lastBlock, scans>>

(* A block without an event of the entry point. *)
MineQuietBlock ==
    /\ BlockNumber < MaxBlocks
    /\ chain' = Append(chain, <<>>)
    /\ UNCHANGED <<mempoolVars, heard, lastBlock, scans>>

Batch == {<<>>} \cup {<<op>> : op \in UserOps}
         \cup {<<op1, op2>> : op1 \in UserOps, op2 \in UserOps}

EventsNext ==
    \/ /\ \/ \E to \in 1..BlockNumber : HearEvents(to)
          \/ \E s \in Scanner : ScanStep(s)
          \/ \E ops \in Batch : MineBlock(ops)
          \/ MineQuietBlock
          \/ ReputationStep /\ UNCHANGED eventsVars
       /\ UNCHANGED arrivalVars
    \/ \E op \in UserOps : ValidateOp(op)
    \/ AddOp

allEventsVars == <<mempoolVars, eventsVars, arrivalVars>>

EventsSpec == EventsInit /\ [][EventsNext]_allEventsVars

---------------------------------------------------------------------------
(* Properties.                                                             *)

EventsTypeOK ==
    /\ heard \in 0..BlockNumber
    /\ arriving \subseteq UserOps
    /\ lastBlock \in 0..(MaxBlocks + 1)
    /\ DOMAIN scans = Scanner
    /\ \A s \in Scanner :
          \/ scans[s] \in [pc : {"idle", "number"}]
          \/ scans[s] \in [pc : {"query"}, from : 1..(MaxBlocks + 1)]
          \/ scans[s] \in [pc : {"answer"}, from : 1..(MaxBlocks + 1), to : 0..MaxBlocks]

(* An operation of the pool that the chain has included is one whose event  *)
(* the listener still has before it, or one that was added after it had     *)
(* been included: whatever scans overlap, none of them puts back or hides   *)
(* what the listener took out, and no inclusion is forgotten.               *)
IncludedAwaitsItsEvent ==
    \A h \in IncludedIn(1, heard) \ late : ~ InPool(h)

(* The cursor never runs past the first block not yet mined, even when      *)
(* scans with old answers and the listener write it in any order: a scan    *)
(* never starts beyond the next block.                                      *)
CursorWithinChain ==
    /\ lastBlock <= BlockNumber + 1
    /\ \A s \in Scanner : scans[s].pc \in {"query", "answer"} => scans[s].from <= BlockNumber + 1

(* removeUserOp through an event only ever takes out an operation that is   *)
(* on the chain: replacing an operation protects the new one from the       *)
(* inclusion of the old one.                                                *)
EventsRemoveOnlyIncluded ==
    [][(\E to \in 1..BlockNumber : HearEvents(to)) \/ (\E s \in Scanner : HandlePastEvents(s)) =>
          \A i \in DOMAIN mempool :
              mempool[i].userOpHash \in MinedHashes
              \/ \E j \in DOMAIN mempool' : mempool'[j] = mempool[i]]_allEventsVars

(* sendNextBundle's flush: although the listener and other scans move the   *)
(* cursor while a scan waits for its answer, when it ends no operation      *)
(* included in a block the answer covers is left in the pool, except for    *)
(* what was added after it had been included.  It needs a chain that has    *)
(* not outgrown LookBack before the first scan.                             *)
ScanFlushes ==
    [][\A s \in Scanner :
          HandlePastEvents(s) =>
              \A h \in IncludedIn(1, scans[s].to) \ late : ~ InPool(h)']_allEventsVars
=============================================================================
