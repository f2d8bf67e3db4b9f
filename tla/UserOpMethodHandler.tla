------------------------- MODULE UserOpMethodHandler -------------------------
(***************************************************************************)
(* eth_getUserOperationReceipt and eth_getUserOperationByHash against the  *)
(* transactions that the entry point has executed.  An operation is        *)
(* [sender, nonce]; it stands for its userOpHash.  A log is the operation  *)
(* that emitted it and its topic; the logs of the validation loop precede  *)
(* BeforeExecution, then each operation's own logs precede its             *)
(* UserOperationEvent.                                                     *)
(***************************************************************************)
EXTENDS Integers, SequencesExt

CONSTANTS
    Sender,
    Nonces,
    MaxOps,     \* bound: operations of a bundle
    MaxLogs     \* bound: logs of a transaction

Op == [sender : Sender, nonce : Nonces]

VARIABLES
    ops,      \* the bundle being executed, in order
    next,     \* its operation being executed; 0 in the validation loop
    logs,     \* the logs of the transaction so far
    mined,    \* mined transactions: [ops, logs]
    reply     \* the answers to the request that came last

handlerVars == <<ops, next, logs, mined, reply>>

---------------------------------------------------------------------------
(* External: handleOps.                                                    *)

HandlerInit ==
    /\ ops \in BoundedSeq(Op, MaxOps) /\ ops # <<>> /\ IsInjective(ops)
    /\ next = 0 /\ logs = <<>> /\ mined = {} /\ reply = {}

Emit(op, topic) ==
    /\ Len(logs) < MaxLogs
    /\ logs' = Append(logs, [op |-> op, topic |-> topic])
    /\ UNCHANGED <<ops, mined, reply>>

(* Deployments and deposits in the validation loop, calls afterwards. *)
EmitOther ==
    /\ mined = {}
    /\ \E i \in (IF next = 0 THEN DOMAIN ops ELSE {next} \cap DOMAIN ops) : Emit(ops[i], "other")
    /\ UNCHANGED next

BeforeExecution ==
    /\ next = 0
    /\ Emit(ops[1], "BeforeExecution") /\ next' = 1

UserOperationEvent ==
    /\ next \in DOMAIN ops
    /\ Emit(ops[next], "UserOperationEvent") /\ next' = next + 1

MineBundle ==
    /\ next > Len(ops) /\ mined = {}
    /\ mined' = {[ops |-> ops, logs |-> logs]}
    /\ UNCHANGED <<ops, next, logs, reply>>

---------------------------------------------------------------------------
(* One step of the loop of _filterLogs; 0 stands for -1.                   *)
Scan(op, log, i, at) ==
    IF log.topic = "BeforeExecution" THEN [start |-> i, end |-> i]
    ELSE IF log.topic # "UserOperationEvent" THEN at
    ELSE IF log.op = op THEN [at EXCEPT !.end = i]
    ELSE IF at.end = 0 THEN [at EXCEPT !.start = i]
    ELSE at

FilterLogs(op, all) ==
    LET at == FoldLeftDomain(LAMBDA acc, i : Scan(op, all[i], i, acc), [start |-> 0, end |-> 0], all)
    IN  SubSeq(all, at.start + 1, at.end - 1)

(* _getUserOperationEvent: the transaction whose logs hold the event. *)
TransactionOf(op) ==
    {tx \in mined : \E i \in DOMAIN tx.logs :
                        tx.logs[i].op = op /\ tx.logs[i].topic = "UserOperationEvent"}

(* null for an operation that no event tells of. *)
GetUserOperationReceipt(op) ==
    /\ reply' = {[hash |-> op, logs |-> FilterLogs(op, tx.logs)] : tx \in TransactionOf(op)}
    /\ UNCHANGED <<ops, next, logs, mined>>

(* The first operation of the transaction with the sender and nonce of the  *)
(* event.                                                                   *)
GetUserOperationByHash(op) ==
    /\ reply' = {[hash |-> op,
                  userOperation |-> tx.ops[SelectInSeq(tx.ops,
                      LAMBDA o : o.sender = op.sender /\ o.nonce = op.nonce)]]
                    : tx \in TransactionOf(op)}
    /\ UNCHANGED <<ops, next, logs, mined>>

HandlerNext ==
    \/ EmitOther \/ BeforeExecution \/ UserOperationEvent \/ MineBundle
    \/ \E op \in Op : GetUserOperationReceipt(op) \/ GetUserOperationByHash(op)

HandlerSpec == HandlerInit /\ [][HandlerNext]_handlerVars

---------------------------------------------------------------------------
(* The comment on _filterLogs: "filter full bundle logs, and leave only     *)
(* logs for the given userOpHash": the logs of a receipt were emitted by    *)
(* the operation that was asked for, not by an earlier one of its bundle.   *)
ReceiptLogsAreOwn ==
    \A r \in reply :
        "logs" \in DOMAIN r =>
            \A i \in DOMAIN r.logs : r.logs[i].op = r.hash
=============================================================================
