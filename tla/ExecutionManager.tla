-------------------------- MODULE ExecutionManager --------------------------
(***************************************************************************)
(* The bundler service as its callers see it: eth_sendUserOperation under  *)
(* the mutex of ExecutionManager, which is held while attemptBundle waits  *)
(* for the mutex of BundleManager; the interval timer and                  *)
(* debug_bundler_sendBundleNow, which take only the second one; the        *)
(* bundling mode, which debug calls change at any time.                    *)
(*                                                                         *)
(* The mempool is a set, and the validation an agreement of nonce and      *)
(* initCode with the chain: the modules MempoolManager, BundleManager and  *)
(* EventsManager have the detail.  The node mines a bundle some time after *)
(* it took it; until then the operations are pooled still.  A later one    *)
(* has the same nonce of the signer and takes its place.  A mutex of       *)
(* async-mutex is the queue of those who asked for it; the first holds it. *)
(***************************************************************************)
EXTENDS Integers, SequencesExt

CONSTANTS
    Request,      \* calls of eth_sendUserOperation
    Ticks,        \* bound: firings of the interval timer
    BundleNow,    \* bound: calls of debug_bundler_sendBundleNow
    Account,
    Modes,        \* what setBundleInterval sets, the first mode included
    InitialMode,
    Foreign,      \* stands for the call of an operation of another client
    MaxBlocks,    \* bound: blocks
    NodeMayErr    \* may calls of the node fail?

Caller == Request \cup Ticks \cup BundleNow

ASSUME ExecutionAssumption ==
    /\ Modes \subseteq [interval : Nat, maxMempoolSize : Nat]
    /\ InitialMode \in Modes
    /\ MaxBlocks \in Nat
    /\ Foreign \notin Request
    /\ Request \cap (Ticks \cup BundleNow) = {}

VARIABLES
    chain,        \* sequence of blocks, each a set of UserOperationEvents
    params,       \* request -> its operation
    execQueue,    \* requests at the mutex of ExecutionManager
    bundleQueue,  \* callers at the mutex of BundleManager
    stage,        \* caller -> the await it is at
    bundle,       \* caller -> the operations of its bundle
    pool,         \* the mempool
    mode,
    inFlight,     \* operations of the handleOps transaction the node has not mined
    answer,       \* request -> "none", "ok" or "error"
    crashed,      \* operations whose entity crashedHandleOps was called for
    waited        \* operations that were in flight when a bundle was built;
                  \* no state of the code: only properties read it

execVars ==
    <<chain, params, execQueue, bundleQueue, stage, bundle, pool, mode, inFlight, answer, crashed, waited>>

nodeVars == <<inFlight, waited>>

---------------------------------------------------------------------------
NoOp == [call |-> Foreign]    \* the params of a request not yet made

(* The chain: an account exists from its first operation on.               *)

Events == UNION ToSet(chain)

Included == {e.op : e \in Events}

NonceOf(a) == Cardinality({op \in Included : op.sender = a})

Deployed(a) == \E op \in Included : op.sender = a

Valid(op) == op.nonce = NonceOf(op.sender) /\ op.initCode = ~ Deployed(op.sender)

(* The call of an operation may fail, with or without a reason. *)
Results == {"success", "failed", "reverted"}

(* A block with these operations and results of their calls. *)
Mine(ops, results) ==
    /\ Len(chain) < MaxBlocks
    /\ \E result \in [ops -> results] :
          chain' = Append(chain, {[op |-> op, result |-> result[op]] : op \in ops})

---------------------------------------------------------------------------
(* How a caller comes to its end.                                          *)

Holds(queue, c) == queue # <<>> /\ Head(queue) = c

(* Mutant: who fails keeps what it holds. *)
ReleasedOnSuccess(queue, c, result) ==
    IF Holds(queue, c) /\ result = "ok" THEN Tail(queue) ELSE queue

(* runExclusive lets go whichever way its function ends. *)
Released(queue, c, result) == IF Holds(queue, c) THEN Tail(queue) ELSE queue

(* The promise settles; the answer goes to the client, if it has one. *)
End(c, result) ==
    /\ stage' = [stage EXCEPT ![c] = "done"]
    /\ answer' = IF c \in Request THEN [answer EXCEPT ![c] = result] ELSE answer
    /\ execQueue' = Released(execQueue, c, result)

(* An error before the operation is in the pool. *)
Refuse(r) ==
    /\ stage' = [stage EXCEPT ![r] = "refused"]
    /\ answer' = [answer EXCEPT ![r] = "error"]
    /\ execQueue' = Released(execQueue, r, "error")

(* sendNextBundle returned; in auto mode, and for sendBundleNow, events are *)
(* scanned once more.  The mode is the one of now.                          *)
LeaveBundle(c) ==
    /\ bundleQueue' = Released(bundleQueue, c, "ok")
    /\ bundle' = [bundle EXCEPT ![c] = {}]
    /\ IF mode.maxMempoolSize = 0 \/ c \in BundleNow
       THEN stage' = [stage EXCEPT ![c] = "flush"] /\ UNCHANGED <<answer, execQueue>>
       ELSE End(c, "ok")

---------------------------------------------------------------------------
(* sendUserOperation.                                                      *)

Arrive(r, op) ==
    /\ stage[r] = "idle"
    /\ params' = [params EXCEPT ![r] = op]
    /\ execQueue' = Append(execQueue, r)
    /\ stage' = [stage EXCEPT ![r] = "validate"]
    /\ UNCHANGED <<chain, bundleQueue, bundle, pool, mode, answer, crashed, nodeVars>>

HoldsExec(r) == Holds(execQueue, r)

Validated(r) ==
    /\ stage[r] = "validate" /\ HoldsExec(r)
    /\ Valid(params[r])
    /\ stage' = [stage EXCEPT ![r] = "hash"]
    /\ UNCHANGED <<chain, params, execQueue, bundleQueue, bundle, pool, mode, answer, crashed, nodeVars>>

ValidationFailed(r) ==
    /\ stage[r] = "validate" /\ HoldsExec(r)
    /\ NodeMayErr \/ ~ Valid(params[r])
    /\ Refuse(r)
    /\ UNCHANGED <<chain, params, bundleQueue, bundle, pool, mode, crashed, nodeVars>>

SameKey(op) == {o \in pool : o.sender = op.sender /\ o.nonce = op.nonce}

(* addUserOp, in place of one with the same key if fees have risen enough; *)
(* then attemptBundle(false), up to its first await.                       *)
PoolUserOp(r) ==
    /\ stage[r] = "hash"
    /\ pool' = (pool \ SameKey(params[r])) \cup {params[r]}
    /\ IF Cardinality(pool') >= mode.maxMempoolSize
       THEN /\ bundleQueue' = Append(bundleQueue, r)
            /\ stage' = [stage EXCEPT ![r] = "scan"]
            /\ UNCHANGED <<answer, execQueue>>
       ELSE End(r, "ok") /\ UNCHANGED bundleQueue
    /\ UNCHANGED <<chain, params, bundle, mode, crashed, nodeVars>>

ReplacementRefused(r) ==
    /\ stage[r] = "hash"
    /\ SameKey(params[r]) # {}
    /\ Refuse(r)
    /\ UNCHANGED <<chain, params, bundleQueue, bundle, pool, mode, crashed, nodeVars>>

---------------------------------------------------------------------------
(* attemptBundle.                                                          *)

(* The timer, or sendBundleNow: attemptBundle(true). *)
ForceBundle(c) ==
    /\ stage[c] = "idle"
    /\ c \in BundleNow \/ (c \in Ticks /\ mode.interval # 0)
    /\ bundleQueue' = Append(bundleQueue, c)
    /\ stage' = [stage EXCEPT ![c] = "scan"]
    /\ UNCHANGED <<chain, params, execQueue, bundle, pool, mode, answer, crashed, nodeVars>>

(* Mutant: nobody waits for the bundle of another. *)
HoldsNothing(c) == c \in ToSet(bundleQueue)

HoldsBundle(c) == Holds(bundleQueue, c)

(* handlePastEvents takes the included operations out. *)
ScanEvents(c) ==
    /\ stage[c] = "scan" /\ HoldsBundle(c)
    /\ pool' = pool \ Included
    /\ stage' = [stage EXCEPT ![c] = "create"]
    /\ UNCHANGED <<chain, params, execQueue, bundleQueue, bundle, mode, answer, crashed, nodeVars>>

(* createBundle takes some of the valid operations, one per sender; what    *)
(* failed the second validation, or met an error of the node, is out.       *)
CreateBundle(c) ==
    /\ stage[c] = "create" /\ HoldsBundle(c)
    /\ \E ops \in SUBSET {op \in pool : Valid(op)} :
       \E out \in SUBSET (pool \ ops) :
          /\ \A op1, op2 \in ops : op1.sender = op2.sender => op1 = op2
          /\ \A op \in out : NodeMayErr \/ ~ Valid(op)
          /\ pool' = pool \ out
          /\ waited' = waited \cup inFlight
          /\ IF ops = {} THEN LeaveBundle(c)
             ELSE /\ bundle' = [bundle EXCEPT ![c] = ops]
                  /\ stage' = [stage EXCEPT ![c] = "send"]
                  /\ UNCHANGED <<bundleQueue, execQueue, answer>>
    /\ UNCHANGED <<chain, params, mode, inFlight, crashed>>

(* The node takes the transaction, or reports an operation that fails, or   *)
(* returns an error that sendBundle only logs.  The operations stay pooled. *)
SendBundle(c) ==
    /\ stage[c] = "send" /\ HoldsBundle(c)
    /\ \/ inFlight' = bundle[c] /\ UNCHANGED crashed
       \/ /\ \E op \in bundle[c] : ~ Valid(op) /\ crashed' = crashed \cup {op}
          /\ UNCHANGED inFlight
       \/ NodeMayErr /\ UNCHANGED <<inFlight, crashed>>
    /\ LeaveBundle(c)
    /\ UNCHANGED <<chain, params, pool, mode, waited>>

Flush(c) ==
    /\ stage[c] = "flush"
    /\ pool' = pool \ Included
    /\ End(c, "ok")
    /\ UNCHANGED <<chain, params, bundleQueue, bundle, mode, crashed, nodeVars>>

(* An await of attemptBundle rejects, a fatal error of sendBundle included. *)
AttemptFails(c) ==
    /\ NodeMayErr
    /\ stage[c] = "flush" \/ (stage[c] \in {"scan", "create", "send"} /\ HoldsBundle(c))
    /\ bundleQueue' = Released(bundleQueue, c, "error")
    /\ bundle' = [bundle EXCEPT ![c] = {}]
    /\ End(c, "error")
    /\ UNCHANGED <<chain, params, pool, mode, crashed, nodeVars>>

Attempt(c) == ScanEvents(c) \/ CreateBundle(c) \/ SendBundle(c) \/ Flush(c) \/ AttemptFails(c)

---------------------------------------------------------------------------
SetBundleInterval(m) ==
    /\ m # mode
    /\ mode' = m
    /\ UNCHANGED <<chain, params, execQueue, bundleQueue, stage, bundle, pool, answer, crashed, nodeVars>>

ClearState ==
    /\ pool # {}
    /\ pool' = {}
    /\ UNCHANGED <<chain, params, execQueue, bundleQueue, stage, bundle, mode, answer, crashed, nodeVars>>

(* A block with the transaction of the bundler, which reverts as a whole if *)
(* one of its operations is not valid any more.                             *)
MineInFlight ==
    /\ inFlight # {}
    /\ IF \A op \in inFlight : Valid(op) THEN Mine(inFlight, Results) ELSE Mine({}, {})
    /\ inFlight' = {}
    /\ UNCHANGED <<params, execQueue, bundleQueue, stage, bundle, pool, mode, answer, crashed, waited>>

(* A block without an operation of this bundler: empty, or with one that    *)
(* another client of the account sent elsewhere.                            *)
MineElsewhere ==
    /\ \/ Mine({}, {})
       \/ \E a \in Account :
             Mine({[sender |-> a, nonce |-> NonceOf(a), initCode |-> ~ Deployed(a), call |-> Foreign]},
                  {"success"})
    /\ UNCHANGED <<params, execQueue, bundleQueue, stage, bundle, pool, mode, answer, crashed, nodeVars>>

ExecInit ==
    /\ chain = <<>>
    /\ params = [r \in Request |-> NoOp]
    /\ execQueue = <<>>
    /\ bundleQueue = <<>>
    /\ stage = [c \in Caller |-> "idle"]
    /\ bundle = [c \in Caller |-> {}]
    /\ pool = {}
    /\ mode = InitialMode
    /\ inFlight = {}
    /\ answer = [r \in Request |-> "none"]
    /\ crashed = {}
    /\ waited = {}

Serve ==
    \/ \E r \in Request : Validated(r) \/ ValidationFailed(r) \/ PoolUserOp(r) \/ ReplacementRefused(r)
    \/ \E c \in Caller : Attempt(c)

ExecStep ==
    \/ Serve
    \/ \E c \in Ticks \cup BundleNow : ForceBundle(c)
    \/ \E m \in Modes : SetBundleInterval(m)
    \/ ClearState
    \/ MineInFlight
    \/ MineElsewhere

---------------------------------------------------------------------------
(* Properties.                                                             *)

(* The nonce of the operation went to another, which was not the bundler's, *)
(* or was in flight when a bundle was built.                                *)
Overtaken(op) ==
    \E o \in Included :
        /\ o.sender = op.sender /\ o.nonce = op.nonce
        /\ o.call = Foreign \/ o \in waited

(* crashedHandleOps bans an entity.  However requests, ticks and            *)
(* sendBundleNow overlap, two attempts never invalidate each other's bundle *)
(* between the second validation and handleOps: what fails there was        *)
(* overtaken by an operation of another client, or by one that was at the   *)
(* node, and in the mempool still, when the bundle was built.               *)
NoSelfInflictedCrash == \A op \in crashed : Overtaken(op)

(* The mutex of one manager is held while the other's is waited for, and    *)
(* any step under them may fail: still, while a request is unanswered some  *)
(* step of the service is possible.  Each takes a caller to its next await, *)
(* so if the node answers, every request is answered.                       *)
NobodyIsStuck ==
    (\E r \in Request : params[r] # NoOp /\ answer[r] = "none") => ENABLED Serve
=============================================================================
