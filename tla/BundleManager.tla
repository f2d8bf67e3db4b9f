--------------------------- MODULE BundleManager ---------------------------
(***************************************************************************)
(* The bundler's BundleManager: sendNextBundle scans past events, takes a  *)
(* sorted snapshot of the mempool, builds a bundle from it entry by entry  *)
(* and submits it as one handleOps transaction.                            *)
(*                                                                         *)
(* What runs between two awaits is one step: while the builder waits for a *)
(* validation or a balance, operations are added and replaced, events are  *)
(* handled and blocks are mined, and the builder goes on with its snapshot.*)
(* The mutex of sendNextBundle is the single record build.                 *)
(*                                                                         *)
(* External: the node.  It validates an operation against its state when   *)
(* it answers, accepts or refuses transactions, and mines.  The bundler's  *)
(* transactions all carry the signer's latest nonce, so at most one is     *)
(* pending and a new one replaces it or is refused.                        *)
(*                                                                         *)
(* Left out: the storage map sent with a conditional transaction (and the  *)
(* eth_getProof call, which initServer never switches on), the choice of   *)
(* beneficiary, fees and signing, the operation hashes for the debug RPC,  *)
(* the hourly cron of the reputations (EventsManager has it).              *)
(***************************************************************************)
EXTENDS EventsManager

CONSTANTS
    Bundling,          \* the scan that sendNextBundle makes, one of Scanner
    MaxBundleGas,
    Gas,               \* operation -> preOpGas + callGasLimit
    Prefund,           \* operation -> prefund of its validation
    Touches,           \* operation -> accounts whose storage it reads
    InitialDeposit,    \* paymaster -> its deposit at the start
    DepositValues,     \* deposits paymasters may change to
    Spoilable,         \* operations whose validation may start to fail
    ForeignOps,        \* operations somebody else may include
    NodeMayFail        \* may the node answer any request with an error?

ASSUME BundleAssumption ==
    /\ Bundling \in Scanner
    /\ MaxBundleGas \in Nat
    /\ Gas \in [UserOps -> Nat]
    /\ Prefund \in [UserOps -> Nat]
    /\ InitialDeposit \in [DOMAIN InitialDeposit -> Nat]
    /\ \A op \in UserOps : op.paymaster \in DOMAIN InitialDeposit \cup {NoAddr}
    /\ DepositValues \subseteq Nat
    /\ Spoilable \subseteq UserOps /\ ForeignOps \subseteq UserOps
    /\ NodeMayFail \in BOOLEAN

VARIABLES
    build,       \* the running sendNextBundle
    inFlight,    \* operations of the pending transaction
    failing,     \* operations whose validation fails
    deposit      \* paymaster -> deposit in the entry point

bundleVars == <<build, inFlight, failing, deposit>>
allVars == <<mempoolVars, eventsVars, arrivalVars, bundleVars>>

---------------------------------------------------------------------------
(* The node's view.                                                        *)

(* What the first operations of a list take from a paymaster. *)
SponsoredSum(ops, count, p) ==
    LET sum[k \in 0..count] ==
            IF k = 0 THEN 0
            ELSE sum[k - 1] + (IF ops[k].paymaster = p THEN Prefund[ops[k]] ELSE 0)
    IN  sum[count]

(* simulateValidation passes. *)
Validates(op) ==
    /\ ~ Spent(op)
    /\ op \notin failing
    /\ op.paymaster # NoAddr => Prefund[op] <= deposit[op.paymaster]

(* Operation i is rejected by the validation loop of handleOps: on its own, *)
(* because an earlier one used its nonce, has spent the deposit, or may     *)
(* have changed what its validation reads.                                  *)
Rejected(ops, i) ==
    \/ ~ Validates(ops[i])
    \/ \E j \in 1..(i - 1) : NonceKey(ops[j]) = NonceKey(ops[i])
    \/ \E j \in 1..(i - 1) : AccountOf[ops[j].sender] \in Touches[ops[i]]
                             /\ AccountOf[ops[j].sender] # AccountOf[ops[i].sender]
    \/ /\ ops[i].paymaster # NoAddr
       /\ SponsoredSum(ops, i, ops[i].paymaster) > deposit[ops[i].paymaster]

Executes(ops) == \A i \in DOMAIN ops : ~ Rejected(ops, i)

---------------------------------------------------------------------------
(* createBundle between two awaits.                                        *)

Idle == [pc |-> "idle"]

SendersOf(b) == {b.bundle[i].sender : i \in DOMAIN b.bundle}

KnownSenders(b) == {AccountOf[b.snapshot[k].userOp.sender] : k \in DOMAIN b.snapshot}

StatusIs(op, status) ==
    GetStatus(entries, op.paymaster) = status \/ GetStatus(entries, op.factory) = status

(* The loop is over: send, or return without a bundle. *)
Finished(b) == IF b.bundle = <<>> THEN Idle ELSE [b EXCEPT !.pc = "send"]

(* Entries that end at a "continue" before the validation. *)
PassedOver(b, op) ==
    \/ StatusIs(op, BANNED)
    \/ StatusIs(op, THROTTLED)
    \/ op.sender \in SendersOf(b)

(* The entries of banned paymasters and factories on the way leave the pool. *)
WithoutBanned(pool, snapshot, first, last) ==
    LET left[k \in (first - 1)..last] ==
            IF k = first - 1 THEN pool
            ELSE IF StatusIs(snapshot[k].userOp, BANNED)
            THEN RemovedOp(left[k - 1], snapshot[k].userOp)
            ELSE left[k - 1]
    IN  left[last]

(* From entry next on, up to the next entry to validate or to the end. *)
Advance(pool, b, next) ==
    LET stops == {k \in next..Len(b.snapshot) : ~ PassedOver(b, b.snapshot[k].userOp)}
        stop == IF stops = {} THEN Len(b.snapshot) + 1 ELSE Min(stops)
    IN  [pool |-> WithoutBanned(pool, b.snapshot, next, stop - 1),
         build |-> IF stops = {} THEN Finished(b)
                   ELSE [b EXCEPT !.pc = "validate", !.next = stop]]

CurrentOp == build.snapshot[build.next].userOp

(* The entry is taken into the bundle, or passed over, and the loop goes on. *)
Take(b, op) ==
    Advance(Pool, [b EXCEPT !.bundle = Append(@, op), !.totalGas = @ + Gas[op]], b.next + 1)

Skip(b) == Advance(Pool, b, b.next + 1)

(* Mutant: the operation's share is not taken off the deposit. *)
SponsorWithoutCharge(b, op) ==
    IF b.paymasterDeposit[op.paymaster] < Prefund[op] THEN Skip(b) ELSE Take(b, op)

(* The paymaster's remaining deposit is known. *)
Sponsor(b, op) ==
    IF b.paymasterDeposit[op.paymaster] < Prefund[op] THEN Skip(b)
    ELSE Take([b EXCEPT !.paymasterDeposit[op.paymaster] = @ - Prefund[op]], op)

(* Mutant: the sender's own storage is refused instead of the others'. *)
ReadsOwnSender(b, op) ==
    \E a \in Touches[op] : a = AccountOf[op.sender] /\ a \in KnownSenders(b)

ReadsKnownSender(b, op) ==
    \E a \in Touches[op] : a # AccountOf[op.sender] /\ a \in KnownSenders(b)

(* Mutant: the gas of the operation itself is not counted. *)
AcceptedWithinOldTotal(b, op) ==
    IF ReadsKnownSender(b, op) THEN Skip(b)
    ELSE IF b.totalGas > MaxBundleGas THEN [pool |-> Pool, build |-> Finished(b)]
    ELSE IF op.paymaster = NoAddr THEN Take(b, op)
    ELSE IF op.paymaster \in DOMAIN b.paymasterDeposit THEN Sponsor(b, op)
    ELSE [pool |-> Pool, build |-> [b EXCEPT !.pc = "balance"]]

(* After a validation that passed. *)
Accepted(b, op) ==
    IF ReadsKnownSender(b, op) THEN Skip(b)
    ELSE IF b.totalGas + Gas[op] > MaxBundleGas THEN [pool |-> Pool, build |-> Finished(b)]
    ELSE IF op.paymaster = NoAddr THEN Take(b, op)
    ELSE IF op.paymaster \in DOMAIN b.paymasterDeposit THEN Sponsor(b, op)
    ELSE [pool |-> Pool, build |-> [b EXCEPT !.pc = "balance"]]

Continue(result) ==
    \E st \in {result} :
    /\ SetPool(st.pool)
    /\ build' = st.build
    /\ UNCHANGED <<repVars, eventsVars, arrivalVars, inFlight, failing, deposit>>

---------------------------------------------------------------------------
(* sendNextBundle.                                                         *)

BundleInit ==
    /\ EventsInit
    /\ build = Idle
    /\ inFlight = <<>>
    /\ failing = {}
    /\ deposit = InitialDeposit

(* The mutex is taken and handlePastEvents called. *)
StartBundle ==
    /\ build.pc = "idle"
    /\ StartScan(Bundling)
    /\ build' = [pc |-> "scan"]
    /\ UNCHANGED <<arrivalVars, inFlight, failing, deposit>>

(* handlePastEvents returned: createBundle takes its snapshot.  The fields  *)
(* at and quoted (the balances as they were answered) are read only by the  *)
(* properties.                                                              *)
TakeSnapshot ==
    /\ build.pc = "scan"
    /\ scans[Bundling].pc = "idle"
    /\ \E sorted \in {SortedForInclusion(mempool)} :
          Continue(Advance(Pool,
             [pc |-> "scan", snapshot |-> sorted, next |-> 1,
              bundle |-> <<>>, paymasterDeposit |-> [p \in {} |-> 0], totalGas |-> 0,
              at |-> <<chain, failing>>, quoted |-> [p \in {} |-> 0]], 1))

(* Mutant: the second validation is not looked at. *)
NotRevalidated ==
    /\ build.pc = "validate"
    /\ Continue(Accepted(build, CurrentOp))

(* validateUserOp returned. *)
Revalidated ==
    /\ build.pc = "validate"
    /\ Validates(CurrentOp)
    /\ Continue(Accepted(build, CurrentOp))

(* Mutant: the entry stays in the pool. *)
RevalidationFailedKept ==
    /\ build.pc = "validate"
    /\ NodeMayFail \/ ~ Validates(CurrentOp)
    /\ Continue(Skip(build))

(* validateUserOp threw, whatever the error: the entry with the operation's *)
(* sender and nonce leaves the pool.                                        *)
RevalidationFailed ==
    /\ build.pc = "validate"
    /\ NodeMayFail \/ ~ Validates(CurrentOp)
    /\ Continue(Advance(RemovedOp(Pool, CurrentOp), build, build.next + 1))

(* balanceOf answered. *)
BalanceAnswered ==
    /\ build.pc = "balance"
    /\ LET p == CurrentOp.paymaster
       IN  Continue(Sponsor([build EXCEPT !.paymasterDeposit = Put(@, p, deposit[p]),
                                          !.quoted = Put(@, p, deposit[p])], CurrentOp))

(* A failed scan or balanceOf rejects sendNextBundle and frees the mutex. *)
BuildAborted ==
    /\ NodeMayFail
    /\ \/ build.pc = "scan" /\ ScanFails(Bundling)
       \/ build.pc = "balance" /\ UNCHANGED <<mempoolVars, eventsVars>>
    /\ build' = Idle
    /\ UNCHANGED <<arrivalVars, inFlight, failing, deposit>>

(* The node takes the transaction; it replaces a pending one. *)
SendAccepted ==
    /\ build.pc = "send"
    /\ build' = Idle
    /\ inFlight' = build.bundle
    /\ UNCHANGED <<mempoolVars, eventsVars, arrivalVars, failing, deposit>>

(* An error that is no FailedOp: logged, or rethrown after checkFatal. *)
SendRefused ==
    /\ build.pc = "send"
    /\ NodeMayFail \/ inFlight # <<>>
    /\ build' = Idle
    /\ UNCHANGED <<mempoolVars, eventsVars, arrivalVars, inFlight, failing, deposit>>

(* A node that executes the transaction at once reports the first rejected  *)
(* operation and the reason.                                                *)
SendFailed(reason) ==
    /\ build.pc = "send"
    /\ \E i \in DOMAIN build.bundle :
          LET op == build.bundle[i]
          IN  /\ Rejected(build.bundle, i)
              /\ \A j \in 1..(i - 1) : ~ Rejected(build.bundle, j)
              /\ \/ /\ reason = "AA3" /\ op.paymaster # NoAddr
                    /\ entries' = Crash(entries, op.paymaster)
                    /\ UNCHANGED poolVars
                 \/ /\ reason = "AA2"
                    /\ entries' = Crash(entries, op.sender)
                    /\ UNCHANGED poolVars
                 \/ /\ reason = "AA1" /\ op.factory # NoAddr
                    /\ entries' = Crash(entries, op.factory)
                    /\ UNCHANGED poolVars
                 \/ /\ reason = "other"
                    /\ SetPool(RemovedOp(Pool, op))
                    /\ UNCHANGED entries
    /\ build' = Idle
    /\ UNCHANGED <<whitelist, blackList, eventsVars, arrivalVars, inFlight, failing, deposit>>

Send == SendAccepted \/ SendRefused \/ \E reason \in {"AA1", "AA2", "AA3", "other"} : SendFailed(reason)

---------------------------------------------------------------------------
(* The rest of the bundler and the chain.                                  *)

(* sendUserOperation validates, then waits for getUserOpHash, then adds.    *)
ValidateArriving(op) ==
    /\ Validates(op)
    /\ ValidateOp(op)
    /\ UNCHANGED bundleVars

AddArriving == AddOp /\ UNCHANGED bundleVars

EventsStep ==
    /\ \/ \E to \in 1..BlockNumber : HearEvents(to)
       \/ \E s \in Scanner \ {Bundling} : StartScan(s)
       \/ \E s \in Scanner : GotBlockNumber(s) \/ NodeAnswers(s) \/ HandlePastEvents(s)
       \/ \E s \in Scanner \ {Bundling} : NodeMayFail /\ ScanFails(s)
    /\ UNCHANGED <<arrivalVars, bundleVars>>

(* The pending transaction is mined; when it reverts no event is emitted. *)
MineInFlight ==
    /\ inFlight # <<>>
    /\ chain' = IF Executes(inFlight)
                THEN Append(chain, LogOf(inFlight, BlockNumber + 1))
                ELSE chain
    /\ inFlight' = <<>>
    /\ UNCHANGED <<mempoolVars, heard, lastBlock, scans, arrivalVars, build, failing, deposit>>

MineForeign(op) ==
    /\ Validates(op)
    /\ MineBlock(<<op>>)
    /\ UNCHANGED <<arrivalVars, bundleVars>>

(* A signature expires, code changes, a paymaster withdraws its consent. *)
Spoil(op) ==
    /\ failing' = failing \cup {op}
    /\ UNCHANGED <<mempoolVars, eventsVars, arrivalVars, build, inFlight, deposit>>

ChangeDeposit(p, v) ==
    /\ deposit' = [deposit EXCEPT ![p] = v]
    /\ UNCHANGED <<mempoolVars, eventsVars, arrivalVars, build, inFlight, failing>>

BundleNext ==
    \/ StartBundle \/ TakeSnapshot \/ Revalidated \/ RevalidationFailed \/ BalanceAnswered
    \/ BuildAborted \/ Send
    \/ \E op \in UserOps : ValidateArriving(op)
    \/ AddArriving
    \/ EventsStep
    \/ MineInFlight
    \/ \E op \in ForeignOps : MineForeign(op)
    \/ \E op \in Spoilable : Spoil(op)
    \/ \E p \in DOMAIN deposit, v \in DepositValues : ChangeDeposit(p, v)

(* The steps of sendNextBundle; never is more than one kind enabled.        *)
SendNextBundle ==
    \/ StartBundle
    \/ (GotBlockNumber(Bundling) \/ NodeAnswers(Bundling) \/ HandlePastEvents(Bundling))
       /\ UNCHANGED <<arrivalVars, bundleVars>>
    \/ TakeSnapshot \/ Revalidated \/ RevalidationFailed \/ BalanceAnswered \/ Send

(* The interval timer calls sendNextBundle again and again and the node     *)
(* answers it; the node mines what it accepted.  Nothing is asked of the    *)
(* listener.                                                                *)
BundleFairness == WF_allVars(SendNextBundle) /\ WF_allVars(MineInFlight)

BundleSafetySpec == BundleInit /\ [][BundleNext]_allVars
BundleSpec == BundleSafetySpec /\ BundleFairness

---------------------------------------------------------------------------
(* Properties.                                                             *)

BundleTypeOK ==
    /\ build.pc \in {"idle", "scan", "validate", "balance", "send"}
    /\ arriving \subseteq UserOps /\ Cardinality(arriving) <= 1
    /\ inFlight \in Seq(UserOps)
    /\ failing \subseteq UserOps
    /\ DOMAIN deposit = DOMAIN InitialDeposit
    /\ build.pc \in {"validate", "balance", "send"} =>
          /\ build.snapshot \in Seq(PoolEntry)
          /\ build.bundle \in Seq(UserOps)
          /\ build.next \in 1..Len(build.snapshot)
          /\ build.totalGas \in 0..MaxBundleGas

(* A bundle about to be sent executes if the chain and the validity of      *)
(* operations are as they were when its snapshot was taken and no deposit   *)
(* fell below what balanceOf answered: no two operations share a nonce, no  *)
(* paymaster is overdrawn by the sum of its operations, none reads the      *)
(* storage of another's sender, and each validates - whatever happened to   *)
(* the mempool and to reputations while the bundle was built.               *)
UndisturbedBundleExecutes ==
    /\ build.pc = "send"
    /\ build.at = <<chain, failing>>
    /\ \A p \in DOMAIN build.quoted : deposit[p] >= build.quoted[p]
    => Executes(build.bundle)

(* Every operation in the pool is eventually resolved, included or dropped, *)
(* although validity is lost, others include operations and operations are  *)
(* replaced meanwhile.                                                      *)
PooledOpIsResolved ==
    \A op \in UserOps : InPool(UserOpHash(op)) ~> ~ InPool(UserOpHash(op))
=============================================================================
