---------------------------- MODULE UserOpScanner ----------------------------
(***************************************************************************)
(* What the bundler concludes from a trace: parseScannerResult with the    *)
(* opcode and storage rules, and ValidationManager.validateUserOp around   *)
(* it.  Each throw is a verdict named after the error's code.              *)
(*                                                                         *)
(* Left out: the comparison of code hashes on a second validation, the     *)
(* unsafe mode (no trace), texts of errors.                                *)
(***************************************************************************)
EXTENDS CallTracer

CONSTANTS
    ReturnInfos,               \* what simulateValidation may return, times from now on
    ValidUntilFutureSeconds    \* VALID_UNTIL_FUTURE_SECONDS

VARIABLES verdict, storageMap

scanVars == <<traceVars, verdict, storageMap>>

---------------------------------------------------------------------------
(* parseCallStack: exits are matched with the calls they end.              *)

TopCall == [type |-> "top", from |-> Codeless, to |-> Codeless, method |-> "validateUserOp"]

(* A reverted call of no known method has no name: method.name of a text.  *)
CallEntry(call, exit) ==
    [from |-> call.from, to |-> call.to, data |-> exit.data,
     method |-> IF exit.type = "REVERT" /\ call.method = "0x" THEN "undefined" ELSE call.method]

ParseStep(acc, c) ==
    IF c.type \notin {"REVERT", "RETURN"} THEN [acc EXCEPT !.stack = Append(@, c)]
    ELSE IF acc.stack = <<>> THEN [acc EXCEPT !.out = Append(@, CallEntry(TopCall, c))]
    ELSE [out |-> Append(acc.out, CallEntry(Last(acc.stack), c)), stack |-> Front(acc.stack)]

ParseCallStack(calls) ==
    LET parsed[k \in 0..Len(calls)] ==
            IF k = 0 THEN [out |-> <<>>, stack |-> <<>>] ELSE ParseStep(parsed[k - 1], calls[k])
    IN  parsed[Len(calls)]

CallStack == ToSet(ParseCallStack(tracer.calls).out)

---------------------------------------------------------------------------
(* The rules.                                                              *)

BannedOpCodes == {"TIMESTAMP", "GAS", "BALANCE", "CREATE"}

Titles == {"factory", "account", "paymaster"}

CallsFromEntryPointMethodSig(title) ==
    CASE title = "factory" -> "createSender"
      [] title = "account" -> "validateUserOp"
      [] title = "paymaster" -> "validatePaymasterUserOp"

EntityAddr(title) ==
    CASE title = "factory" -> Factory [] title = "account" -> Sender [] title = "paymaster" -> Paymaster

StakeInfoEntities ==
    {"account"} \cup (IF userOp.initCode THEN {"factory"} ELSE {})
                \cup (IF userOp.paymaster THEN {"paymaster"} ELSE {})

IsStaked(title) == title \in StakeInfoEntities /\ title \in userOp.staked

(* keccak(addr || ...), for the entities only; and a structure behind it.  *)
EntitySlots(addr) ==
    {input \in tracer.keccak :
        input.prefix = addr /\ \E title \in StakeInfoEntities : EntityAddr(title) = addr}

(* Mutant: one slot too many. *)
AssociatedWithNext(slot, addr) ==
    \/ slot.offset = Padded /\ slot.input.prefix = addr
    \/ slot.input \in EntitySlots(addr) /\ slot.offset >= 0 /\ slot.offset <= 128

AssociatedWith(slot, addr) ==
    \/ slot.offset = Padded /\ slot.input.prefix = addr
    \/ slot.input \in EntitySlots(addr) /\ slot.offset >= 0 /\ slot.offset < 128

Forbidden(title, addr, slot) ==
    /\ ~AssociatedWith(slot, Sender)
    /\ ~AssociatedWith(slot, EntityAddr(title))
    /\ addr # EntityAddr(title)

(* During creation the account may use its slots elsewhere when the factory *)
(* is staked; anybody else needs a stake of its own.                        *)
RequireStake(title, addr, slot) ==
    IF AssociatedWith(slot, Sender)
    THEN userOp.initCode /\ ~(title = "account" /\ IsStaked("factory"))
    ELSE AssociatedWith(slot, EntityAddr(title)) \/ addr = EntityAddr(title)

SlotAllowed(title, addr, slot) ==
    /\ ~Forbidden(title, addr, slot)
    /\ RequireStake(title, addr, slot) => IsStaked(title)

LevelsOf(title) ==
    {i \in DOMAIN tracer.callsFromEntryPoint :
        tracer.callsFromEntryPoint[i].topLevelMethodSig = CallsFromEntryPointMethodSig(title)}

OpcodesAllowed(title, level) ==
    /\ ~level.oog
    /\ DOMAIN level.opcodes \cap BannedOpCodes = {}
    /\ "CREATE2" \in DOMAIN level.opcodes => title = "factory" /\ level.opcodes["CREATE2"] <= 1

AccessAllowed(title, level) ==
    \A addr \in DOMAIN level.access \ {Sender, EntryPoint} :
        \A slot \in DOMAIN level.access[addr].writes \cup DOMAIN level.access[addr].reads :
            SlotAllowed(title, addr, slot)

ContextAllowed ==
    LET out == ParseCallStack(tracer.calls).out
        found == {i \in DOMAIN out :
                    out[i].method = "validatePaymasterUserOp" /\ out[i].to = Paymaster}
    IN  found # {} /\ out[Min(found)].data = "context" => IsStaked("paymaster")

ContractsExist(level) ==
    \A addr \in DOMAIN level.contractSize \ {Sender} : level.contractSize[addr] > 2

LevelAllowed(title, level) ==
    /\ OpcodesAllowed(title, level)
    /\ AccessAllowed(title, level)
    /\ title = "paymaster" => ContextAllowed
    /\ ContractsExist(level)

NoCallIntoEntryPoint ==
    \A call \in CallStack :
        call.to = EntryPoint /\ call.from # EntryPoint => call.method \in {"0x", "depositTo"}

(* The check on call values compares two objects by identity, and so asks  *)
(* only that some call is not into the entry point; the top entry is one.  *)
ValueCheck == \E call \in CallStack : call.to # EntryPoint

ScannerAllows ==
    /\ NoCallIntoEntryPoint
    /\ ValueCheck
    /\ \A title \in Titles : \A i \in LevelsOf(title) :
          i = Min(LevelsOf(title)) => LevelAllowed(title, tracer.callsFromEntryPoint[i])

(* The reads of the first level that met the contract.                     *)
StorageMapOf(levels) ==
    LET met(addr) == {i \in DOMAIN levels : addr \in DOMAIN levels[i].access}
    IN  [addr \in UNION {DOMAIN levels[i].access : i \in DOMAIN levels} |->
            levels[Min(met(addr))].access[addr].reads]

---------------------------------------------------------------------------
(* validateUserOp, once the trace is back.                                 *)

Outcome(info) ==
    IF todo # <<>> THEN "SimulateValidation"
    ELSE IF ~ScannerAllows THEN "OpcodeValidation"
    ELSE IF info.sigFailed THEN "InvalidSignature"
    ELSE IF info.validAfter > 0 \/ info.validUntil <= ValidUntilFutureSeconds THEN "NotInTimeRange"
    ELSE IF info.aggregator THEN "UnsupportedSignatureAggregator"
    ELSE "ok"

(* The top-level revert carries ValidationResult, or FailedOp if a call of  *)
(* the entry point failed; the tracer sees it as an opcode at depth 1.       *)
EntryPointReverts ==
    /\ verdict = "tracing" /\ Simulated
    /\ tracer' = TraceExit(tracer, "REVERT", "0x")
    /\ verdict' = "traced"
    /\ UNCHANGED <<evmVars, did, storageMap>>

ValidateUserOp ==
    /\ verdict = "traced"
    /\ \E info \in ReturnInfos : verdict' = Outcome(info)
    /\ storageMap' = IF verdict' = "ok" THEN StorageMapOf(tracer.callsFromEntryPoint) ELSE NoEntry
    /\ UNCHANGED traceVars

ScanInit == TraceInit /\ verdict = "tracing" /\ storageMap = NoEntry

ScanNext ==
    \/ verdict = "tracing" /\ (CallEntity \/ EntityStep) /\ UNCHANGED <<verdict, storageMap>>
    \/ EntryPointReverts
    \/ ValidateUserOp

ScanSpec == ScanInit /\ [][ScanNext]_scanVars

---------------------------------------------------------------------------
(* Properties.  What the entities did is judged by the rules of ERC-4337,   *)
(* from the facts in did and without the collector.                         *)

Facts(title) == {fact[2] : fact \in {f \in did : f[1] = CallsFromEntryPointMethodSig(title)}}

(* The slot is the address, or in a structure behind the hash of something  *)
(* that starts with the address, hashed anywhere in the validation.         *)
SlotOf(slot, addr) ==
    /\ slot.input.prefix = addr
    /\ \/ slot.offset = Padded
       \/ slot.offset \in 0..127 /\ slot.input.len \in 21..511
              /\ \E f \in did : f[2] = <<"keccak", slot.input>>

EntityStaked(title) == title \in userOp.staked

AccessBreach(title, contract, slot) ==
    LET own == EntityAddr(title) IN
    /\ contract \notin {Sender, EntryPoint}
    /\ \/ contract # own /\ ~SlotOf(slot, Sender) /\ ~SlotOf(slot, own)
       \/ ~SlotOf(slot, Sender) /\ ~EntityStaked(title)
       \/ /\ SlotOf(slot, Sender) /\ userOp.initCode /\ ~EntityStaked(title)
          /\ title = "account" => ~EntityStaked("factory")

Breach(title, fact) ==
    \/ fact[1] \in {"lone GAS", "second CREATE2", "OUT OF GAS"}
    \/ fact[1] = "op" /\ fact[2] \in {"TIMESTAMP", "BALANCE", "CREATE"}
    \/ fact = <<"op", "CREATE2">> /\ title # "factory"
    \/ fact[1] = "no code" /\ fact[2] # Sender
    \/ fact[1] = "call" /\ fact[3] = EntryPoint /\ fact[4] \notin {"0x", "depositTo"}
    \/ fact = <<"failed", EntryPoint, "0x">>
    \/ fact[1] \in {"context", "long context"} /\ ~EntityStaked("paymaster")
    \/ fact[1] = "access" /\ AccessBreach(title, fact[2][1], fact[2][2])

(* Somebody calls validatePaymasterUserOp of the paymaster besides the entry *)
(* point.  The scanner looks at the first such call to end, whose it may be. *)
PaymasterAsked ==
    \E f \in did :
        f[2][1] = "call" /\ f[2][3] = Paymaster /\ f[2][4] = "validatePaymasterUserOp"

(* The breaches that the scanner cannot see: a context that is cut, or one   *)
(* behind another call's.                                                    *)
Unseen(fact) ==
    \/ fact[1] = "long context"
    \/ fact[1] = "context" /\ PaymasterAsked

Breaches ==
    {title \in Titles : \E fact \in Facts(title) : Breach(title, fact) /\ ~Unseen(fact)}

(* An operation passes only if no entity, in any frame below its call, did   *)
(* what the rules forbid: the tracer's levels, its count of GAS, its sizes   *)
(* and its reads and writes lose nothing the scanner needs.  What it  *)
(* cannot see, though "unstaked paymaster must not return context", are      *)
(* contexts that are cut or stand behind another call's (Unseen).            *)
AcceptedWithinRules == verdict = "ok" => Breaches = {}

(* Nobody is refused for another entity's doings or for none: a refusal by   *)
(* the opcode and storage rules has a breach behind it.  A plain transfer    *)
(* to the entry point that fails counts as one, as the code has it.  So does *)
(* a contract of one or two bytes, refused as un-deployed, and a context an  *)
(* unstaked paymaster may have returned to somebody else.                    *)
RefusedForCause ==
    verdict = "OpcodeValidation" =>
        \/ Breaches # {}
        \/ \E f \in did : f[2][1] = "small code"
        \/ PaymasterAsked /\ ~EntityStaked("paymaster")

(* The storage map of an accepted operation has every contract whose storage *)
(* the validation accessed, which createBundle looks for senders in, and     *)
(* only values from before the operation, though levels read what earlier    *)
(* levels wrote.                                                             *)
StorageMapBeforeOp ==
    verdict = "ok" =>
        /\ DOMAIN storageMap = {f[2][2][1] : f \in {g \in did : g[2][1] = "access"}}
        /\ \A addr \in DOMAIN storageMap : \A slot \in DOMAIN storageMap[addr] :
              storageMap[addr][slot] = "old"

(* "verify that stack is empty at the end" (parseScannerResult.ts:111): when  *)
(* the trace is complete every call entered has its exit, whatever failed on  *)
(* the way, and the top-level revert is matched with no call.                 *)
CallStackBalances ==
    verdict # "tracing" =>
        LET parsed == ParseCallStack(tracer.calls)
        IN  /\ parsed.stack = <<>>
            /\ 2 * Len(parsed.out) = Len(tracer.calls) + 1
            /\ Last(parsed.out).from = TopCall.from

(* Types; and while an entity runs there is a level to collect into.          *)
ScanTypeOK ==
    /\ verdict \in {"tracing", "traced", "ok", "SimulateValidation", "OpcodeValidation",
                    "InvalidSignature", "NotInTimeRange", "UnsupportedSignatureAggregator"}
    /\ steps \in 0..MaxSteps /\ Len(frames) <= MaxDepth
    /\ tracer.keccak \subseteq KeccakInputs
    /\ frames # <<>> => tracer.callsFromEntryPoint # <<>>
=============================================================================
