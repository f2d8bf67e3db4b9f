-------------------------------- MODULE Sdk ---------------------------------
(***************************************************************************)
(* The SDK in front of the bundler: ERC4337EthersSigner.sendTransaction    *)
(* with BaseAccountAPI and SimpleAccountAPI building the operation from    *)
(* several reads of the chain, and UserOperationEventListener behind       *)
(* wait().  Several transactions of one account share an account API and   *)
(* so its flag isPhantom.  A transaction is identified with its request.   *)
(*                                                                         *)
(* External: ethers.  A listener registered with once(filter) hears the    *)
(* blocks from the one of its first poll on; off('UserOperationEvent')     *)
(* names another filter and does not remove it.                            *)
(***************************************************************************)
EXTENDS ExecutionManager

CONSTANTS SenderOf    \* transaction -> account

ASSUME SdkAssumption == SenderOf \in [Request -> Account]

VARIABLES
    isPhantom,    \* account -> the flag of its API
    draft,        \* transaction -> [pc, initCode, nonce]
    listener,     \* transaction -> [at, from]: its listener's await and next block
    outcome       \* transaction -> how the promise of wait() settled

sdkVars == <<isPhantom, draft, listener, outcome>>
vars == <<execVars, sdkVars>>

UserOp(t) ==
    [sender |-> SenderOf[t], nonce |-> draft[t].nonce, initCode |-> draft[t].initCode, call |-> t]

---------------------------------------------------------------------------
(* createSignedUserOp.                                                     *)

(* checkAccountPhantom: once FALSE, the flag is not looked up again. *)
CheckAccountPhantom(a) ==
    isPhantom' = [isPhantom EXCEPT ![a] = @ /\ ~ Deployed(a)]

GetInitCode(t) ==
    /\ draft[t].pc = "idle"
    /\ CheckAccountPhantom(SenderOf[t])
    /\ draft' = [draft EXCEPT ![t].pc = "nonce", ![t].initCode = isPhantom'[SenderOf[t]]]
    /\ UNCHANGED <<execVars, listener, outcome>>

(* getNonce checks again: 0, or a call of the account. *)
GetNonce(t) ==
    /\ draft[t].pc = "nonce"
    /\ CheckAccountPhantom(SenderOf[t])
    /\ draft' = [draft EXCEPT ![t].pc = IF isPhantom'[SenderOf[t]] THEN "send" ELSE "account"]
    /\ UNCHANGED <<execVars, listener, outcome>>

ReadNonce(t) ==
    /\ draft[t].pc = "account"
    /\ draft' = [draft EXCEPT ![t].pc = "send", ![t].nonce = NonceOf(SenderOf[t])]
    /\ UNCHANGED <<execVars, isPhantom, listener, outcome>>

SendUserOpToBundler(t) ==
    /\ draft[t].pc = "send"
    /\ Arrive(t, UserOp(t))
    /\ draft' = [draft EXCEPT ![t].pc = "sent"]
    /\ UNCHANGED <<isPhantom, listener, outcome>>

---------------------------------------------------------------------------
(* The listener.                                                           *)

(* wait() of the response, which sendTransaction returns if no error came. *)
Wait(t) ==
    /\ draft[t].pc = "sent" /\ answer[t] = "ok"
    /\ listener[t].at = "none"
    /\ listener' = [listener EXCEPT ![t].at = "delay"]
    /\ UNCHANGED <<execVars, isPhantom, draft, outcome>>

(* Mutant: the filter is for the event, whatever the operation. *)
EventsOfAccount(t, from) ==
    {e \in UNION {chain[n] : n \in from..Len(chain)} : e.op.sender = SenderOf[t]}

EventsFor(t, from) ==
    {e \in UNION {chain[n] : n \in from..Len(chain)} : e.op = UserOp(t)}

Hear(t, es, otherwise) ==
    \/ \E e \in es : listener' = [listener EXCEPT ![t].at = "callback", ![t].event = {e}]
    \/ es = {} /\ listener' = [listener EXCEPT ![t] = otherwise]

(* start, 100 ms on: queryFilter(filter, 'latest') sees one block. *)
QueryLatest(t) ==
    /\ listener[t].at = "delay"
    /\ Hear(t, EventsFor(t, IF chain = <<>> THEN 1 ELSE Len(chain)),
            [listener[t] EXCEPT !.at = "once"])
    /\ UNCHANGED <<execVars, isPhantom, draft, outcome>>

Poll(t) ==
    /\ listener[t].at = "once"
    /\ LET first == IF listener[t].from = 0 THEN Len(chain) ELSE listener[t].from
       IN  /\ first > 0
           /\ Hear(t, EventsFor(t, first), [listener[t] EXCEPT !.from = Len(chain) + 1])
    /\ UNCHANGED <<execVars, isPhantom, draft, outcome>>

Settle(t, result) ==
    outcome' = [outcome EXCEPT ![t] = IF @ = "none" THEN result ELSE @]

(* listenerCallback after its awaits: rejected with the reason, if there is *)
(* one, and then resolved, which has no effect any more; else resolved with *)
(* the receipt, whose status is 0 if the call failed.                       *)
ListenerCallback(t) ==
    /\ listener[t].at = "callback"
    /\ \E e \in listener[t].event :
          Settle(t, e.result)
    /\ listener' = [listener EXCEPT ![t] =
                       [at |-> IF outcome'[t] \in {"success", "failed"} THEN "deployed?" ELSE "end",
                        from |-> 0, event |-> {}]]
    /\ UNCHANGED <<execVars, isPhantom, draft>>

(* The timer of the constructor; stop() does not silence the listener. *)
TimedOut(t) ==
    /\ listener[t].at # "none" /\ outcome[t] = "none"
    /\ Settle(t, "timeout")
    /\ UNCHANGED <<execVars, isPhantom, draft, listener>>

(* Mutant: no check, the flag keeps its value. *)
WaitReturnsAtOnce(t) ==
    /\ listener[t].at = "deployed?"
    /\ listener' = [listener EXCEPT ![t].at = "returned"]
    /\ UNCHANGED <<execVars, isPhantom, draft, outcome>>

(* wait() went on: initCode is '0x' at least, so its length is never 0. *)
WaitReturns(t) ==
    /\ listener[t].at = "deployed?"
    /\ CheckAccountPhantom(SenderOf[t])
    /\ listener' = [listener EXCEPT ![t].at = "returned"]
    /\ UNCHANGED <<execVars, draft, outcome>>

---------------------------------------------------------------------------
SdkInit ==
    /\ ExecInit
    /\ isPhantom = [a \in Account |-> TRUE]
    /\ draft = [t \in Request |-> [pc |-> "idle", initCode |-> FALSE, nonce |-> 0]]
    /\ listener = [t \in Request |-> [at |-> "none", from |-> 0, event |-> {}]]
    /\ outcome = [t \in Request |-> "none"]

Listen(t) ==
    QueryLatest(t) \/ Poll(t) \/ ListenerCallback(t) \/ TimedOut(t) \/ WaitReturns(t)

SdkNext ==
    \/ ExecStep /\ UNCHANGED sdkVars
    \/ \E t \in Request :
          \/ GetInitCode(t) \/ GetNonce(t) \/ ReadNonce(t) \/ SendUserOpToBundler(t)
          \/ Wait(t) \/ Listen(t)

SdkSpec == SdkInit /\ [][SdkNext]_vars

---------------------------------------------------------------------------
(* Properties.                                                             *)

SdkTypeOK ==
    /\ \A c \in Caller : stage[c] \in {"idle", "validate", "hash", "scan", "create", "send", "flush", "done", "refused"}
    /\ \A r \in Request : answer[r] \in {"none", "ok", "error"}
    /\ ToSet(execQueue) = {r \in Request : stage[r] \notin {"idle", "done", "refused"}}
    /\ ToSet(bundleQueue) = {c \in Caller : stage[c] \in {"scan", "create", "send"}}
    /\ \A t \in Request :
          /\ draft[t].pc \in {"idle", "nonce", "account", "send", "sent"}
          /\ draft[t].nonce \in 0..MaxBlocks
          /\ listener[t].at \in {"none", "delay", "once", "callback", "deployed?", "returned", "end"}
          /\ outcome[t] \in {"none", "success", "failed", "reverted", "timeout"}

(* What wait() reports is what became of this very operation: its call      *)
(* succeeded, or failed, in a block - not that of another transaction of    *)
(* the account, and not twice.                                              *)
OutcomeIsTrue ==
    \A t \in Request :
        outcome[t] \in Results => [op |-> UserOp(t), result |-> outcome[t]] \in Events

(* "it must be if we are here": once a wait() has returned, its account     *)
(* API knows that the account is deployed; and it never takes an account    *)
(* for deployed that is not, which would leave out the initCode.            *)
PhantomFlagIsRight ==
    /\ \A a \in Account : isPhantom[a] \/ Deployed(a)
    /\ \A t \in Request : listener[t].at = "returned" => ~ isPhantom[SenderOf[t]]
=============================================================================
