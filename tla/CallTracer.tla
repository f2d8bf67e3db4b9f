----------------------------- MODULE CallTracer -----------------------------
(***************************************************************************)
(* The tracer the bundler sends with debug_traceCall(simulateValidation):  *)
(* what BundlerCollectorTracer collects while the EVM runs.                *)
(*                                                                         *)
(* The traced execution is external.  The entry point, at depth 1, calls   *)
(* the creator (which calls the factory), the account and the paymaster,   *)
(* and always reverts.  Below it the entities do what they like: frames is *)
(* their call stack, storage the slots written so far.                     *)
(*                                                                         *)
(* A slot is [input, offset]: offset beyond the hash of a KECCAK256 input, *)
(* or the address itself padded to a word (offset Padded), or neither.  An *)
(* input is the address it starts with and its length.                     *)
(*                                                                         *)
(* An address has no code, one or two bytes of it (Stub) or more: the      *)
(* scanner tells these apart.  A precompiled contract runs without code.   *)
(* A context is long when its ABI encoding passes 1999 bytes, what is kept *)
(* of a call's output.                                                     *)
(*                                                                         *)
(* Left out: gas amounts, data and logs (nothing reads them), the value of *)
(* a call (see README), the stop at BeforeExecution, which                 *)
(* simulateValidation never emits, a precompiled contract that fails.      *)
(***************************************************************************)
EXTENDS Integers, FiniteSets, SequencesExt

CONSTANTS
    EntryPoint, Creator, Factory, Sender, Paymaster, Token,  \* deployed contracts
    Stub,          \* a deployed contract of one or two bytes
    Precompile,    \* a precompiled contract
    Codeless,      \* an address without code; also what else CREATE2 makes
    UserOpCases,   \* the operations: [initCode, paymaster, staked]
    Slots, KeccakInputs, PlainOps, ExternalOps, NestedCalls,   \* what entities may do
    MaxSteps, MaxDepth    \* bounds on what they do

Padded == -1

CallOps == {"CALL", "STATICCALL", "DELEGATECALL"}

(* Addresses are told apart; the operation has entities or not; lengths and *)
(* offsets are numbers; the opcodes that act have actions of their own; and *)
(* no entity calls the creator, which is the entry point's.                 *)
ASSUME AddressAssumption ==
    IsInjective(<<EntryPoint, Creator, Factory, Sender, Paymaster, Token, Stub,
                  Precompile, Codeless>>)
ASSUME CaseAssumption == \A op \in UserOpCases : op.initCode \in BOOLEAN /\ op.paymaster \in BOOLEAN
ASSUME SlotAssumption ==
    /\ \A slot \in Slots : slot.offset \in Int
    /\ \A input \in KeccakInputs : input.len \in Nat
ASSUME StepAssumption ==
    /\ "CREATE2" \notin PlainOps
    /\ \A call \in NestedCalls : call.type \in CallOps /\ call.to # Creator
ASSUME BoundAssumption == MaxSteps \in Nat /\ MaxDepth \in Nat \ {0, 1}

VARIABLES
    userOp,      \* the operation that is simulated
    todo,        \* the calls the entry point still has to make
    frames,      \* call stack below the entry point
    storage,     \* <<contract, slot>> written and not reverted
    deployed,    \* addresses with code
    steps,       \* instructions executed by entities
    tracer,      \* the collector
    did          \* what the entities did, for the properties

evmVars == <<userOp, todo, frames, storage, deployed, steps>>
traceVars == <<evmVars, tracer, did>>

---------------------------------------------------------------------------
(* The collector.                                                          *)

NoEntry == [x \in {} |-> 0]

EmptyTracer == [callsFromEntryPoint |-> <<>>, keccak |-> {}, calls |-> <<>>, lastOp |-> ""]

TopLevelCallInfo(method, target) ==
    [topLevelMethodSig |-> method, topLevelTargetAddress |-> target,
     opcodes |-> NoEntry, access |-> NoEntry, contractSize |-> NoEntry, oog |-> FALSE]

Level(t) == t.callsFromEntryPoint[Len(t.callsFromEntryPoint)]
SetLevel(t, level) == [t EXCEPT !.callsFromEntryPoint[Len(t.callsFromEntryPoint)] = level]

Unimportant == {"ADD"}

(* opcode.includes('CALL') also holds of opcodes that make no call. *)
NamedCall(op) == op \in CallOps \cup {"CALLER"}

CountSlot(list, keys) == list (+) SetToBag(keys)
Put(f, key, value) == [k \in DOMAIN f \cup {key} |-> IF k = key THEN value ELSE f[k]]

(* Mutant: a call after GAS makes no difference. *)
CountedEvenBeforeCall(lastOp, op) ==
    ({lastOp} \cap {"GAS"}) \cup ({op} \ (Unimportant \cup {"GAS"}))

(* The opcodes counted at an instruction below depth 1: a GAS that the next *)
(* one shows not to belong to a call, and the instruction itself.           *)
CountedAt(lastOp, op) ==
    (IF lastOp = "GAS" /\ ~NamedCall(op) THEN {"GAS"} ELSE {})
        \cup ({op} \ (Unimportant \cup {"GAS"}))

TraceOp(t, op) ==
    [SetLevel(t, [Level(t) EXCEPT !.opcodes = CountSlot(@, CountedAt(t.lastOp, op))])
        EXCEPT !.lastOp = op]

(* An account without code is looked at again: it may have been deployed. *)
(* A precompiled contract is not looked at.                                *)
TraceSize(t, addr, size) ==
    LET level == Level(t)
        known == addr \in DOMAIN level.contractSize /\ level.contractSize[addr] # 0
    IN  IF known \/ addr = Precompile THEN t
        ELSE SetLevel(t, [level EXCEPT !.contractSize = Put(@, addr, size)])

Accessed(access, addr) ==
    IF addr \in DOMAIN access THEN access[addr] ELSE [reads |-> NoEntry, writes |-> NoEntry]

(* Mutant: a slot that was written before is kept as read, too. *)
TraceAccessAfterWrite(t, op, addr, slot, value) ==
    LET level == Level(t)
        old == Accessed(level.access, addr)
        new == IF op = "SSTORE" THEN [old EXCEPT !.writes = CountSlot(@, {slot})]
               ELSE [old EXCEPT !.reads = IF slot \in DOMAIN @ THEN @ ELSE Put(@, slot, value)]
    IN  SetLevel(t, [level EXCEPT !.access = Put(@, addr, new)])

(* A read is kept with the slot's value, unless this level wrote it before. *)
TraceAccess(t, op, addr, slot, value) ==
    LET level == Level(t)
        old == Accessed(level.access, addr)
        first == slot \notin DOMAIN old.reads \cup DOMAIN old.writes
        new == IF op = "SSTORE" THEN [old EXCEPT !.writes = CountSlot(@, {slot})]
               ELSE IF first THEN [old EXCEPT !.reads = Put(@, slot, value)]
               ELSE old
    IN  SetLevel(t, [level EXCEPT !.access = Put(@, addr, new)])

TraceKeccak(t, input) ==
    IF input.len > 20 /\ input.len < 512 THEN [t EXCEPT !.keccak = @ \cup {input}] ELSE t

TraceOutOfGas(t) == SetLevel(t, [Level(t) EXCEPT !.oog = TRUE])

TraceEnter(t, type, from, to, method) ==
    [t EXCEPT !.calls = Append(@, [type |-> type, from |-> from, to |-> to, method |-> method])]

(* The first 4000 characters of the output; what is cut does not decode. *)
Kept(data) == IF data = "long context" THEN "cut" ELSE data

(* Mutant: an exit with an error is not kept. *)
TraceExitOfSuccess(t, type, data) ==
    IF type = "REVERT" THEN t
    ELSE [t EXCEPT !.calls = Append(@, [type |-> type, data |-> Kept(data)])]

TraceExit(t, type, data) ==
    [t EXCEPT !.calls = Append(@, [type |-> type, data |-> Kept(data)])]

(* Mutant: only the last call's method is remembered. *)
TraceTopLevelCallOver(t, method, target) ==
    [t EXCEPT !.lastOp = method]

(* A CALL at depth 1 opens a level. *)
TraceTopLevelCall(t, method, target) ==
    [t EXCEPT !.callsFromEntryPoint = Append(@, TopLevelCallInfo(method, target)),
              !.lastOp = ""]

---------------------------------------------------------------------------
(* The execution.                                                          *)

Phases(op) ==
    (IF op.initCode THEN <<"createSender">> ELSE <<>>) \o <<"validateUserOp">>
        \o (IF op.paymaster THEN <<"validatePaymasterUserOp">> ELSE <<>>)

Target(method) ==
    CASE method = "createSender" -> Creator
      [] method = "validateUserOp" -> Sender
      [] method = "validatePaymasterUserOp" -> Paymaster
      [] method = "failed" -> Codeless

Frame(type, to, contract, method, runs, static) ==
    [type |-> type, to |-> to, contract |-> contract, method |-> method, runs |-> runs,
     static |-> static, gas |-> FALSE, storage |-> storage, deployed |-> deployed]

Top == frames[Len(frames)]

TraceInit ==
    /\ userOp \in UserOpCases
    /\ todo = Phases(userOp)
    /\ frames = <<>>
    /\ storage = {}
    /\ deployed = {EntryPoint, Creator, Factory, Paymaster, Token, Stub}
                    \cup (IF userOp.initCode THEN {} ELSE {Sender})
    /\ steps = 0
    /\ tracer = EmptyTracer
    /\ did = {}

(* The entry point calls the next entity. *)
CallEntity ==
    /\ frames = <<>> /\ todo # <<>> /\ Target(Head(todo)) \in deployed
    /\ LET method == Head(todo)
       IN  /\ frames' = <<Frame("CALL", Target(method), Target(method), method, TRUE, FALSE)>>
           /\ tracer' = TraceEnter(TraceTopLevelCall(tracer, method, Target(method)),
                                   "CALL", EntryPoint, Target(method), method)
    /\ todo' = Tail(todo)
    /\ UNCHANGED <<userOp, storage, deployed, steps, did>>

(* An entity executes an instruction; what it did is noted for the properties. *)
Title == Level(tracer).topLevelMethodSig

LoneGas(op) == IF Top.gas /\ ~NamedCall(op) THEN {<<"lone GAS">>} ELSE {}
Note(facts) == did' = did \cup ({Title} \X facts)

Instruction(op, facts) ==
    /\ frames # <<>> /\ Top.runs /\ Top.contract \notin {Creator, EntryPoint}
    /\ steps < MaxSteps
    /\ steps' = steps + 1
    /\ Note(facts \cup {<<"op", op>>} \cup LoneGas(op))

Running(op) == [frames EXCEPT ![Len(frames)].gas = (op = "GAS")]

Plain(op) ==
    /\ Instruction(op, {})
    /\ frames' = Running(op)
    /\ tracer' = TraceOp(tracer, op)
    /\ UNCHANGED <<userOp, todo, storage, deployed>>

Keccak(input) ==
    /\ Instruction("KECCAK256", {<<"keccak", input>>})
    /\ frames' = Running("KECCAK256")
    /\ tracer' = TraceKeccak(TraceOp(tracer, "KECCAK256"), input)
    /\ UNCHANGED <<userOp, todo, storage, deployed>>

Access(op, slot) ==
    LET where == <<Top.contract, slot>>
    IN  /\ Instruction(op, {<<"access", where>>})
        /\ op = "SSTORE" => ~Top.static
        /\ frames' = Running(op)
        /\ storage' = IF op = "SSTORE" THEN storage \cup {where} ELSE storage
        /\ tracer' = TraceAccess(TraceOp(tracer, op), op, Top.contract, slot,
                                 IF where \in storage THEN "new" ELSE "old")
        /\ UNCHANGED <<userOp, todo, deployed>>

CodeSize(addr) == IF addr \notin deployed THEN 0 ELSE IF addr = Stub THEN 2 ELSE 3

Touch(addr) ==
    IF addr = Stub THEN {<<"small code", addr>>}
    ELSE IF addr \in deployed \cup {Precompile} THEN {}
    ELSE {<<"no code", addr>>}

ExtCode(addr) ==
    /\ Instruction("EXTCODESIZE", Touch(addr))
    /\ frames' = Running("EXTCODESIZE")
    /\ tracer' = TraceOp(TraceSize(tracer, addr, CodeSize(addr)), "EXTCODESIZE")
    /\ UNCHANGED <<userOp, todo, storage, deployed>>

(* A delegated call runs foreign code on the caller's storage. *)
NestedCall(call) ==
    LET context == IF call.type = "DELEGATECALL" THEN Top.contract ELSE call.to
        frame == Frame(call.type, call.to, context, call.method, call.to \in deployed,
                       Top.static \/ call.type = "STATICCALL")
    IN  /\ Len(frames) < MaxDepth
        /\ Instruction(call.type,
             Touch(call.to) \cup {<<"call", Top.contract, call.to, call.method>>})
        /\ frames' = Append(Running(call.type), frame)
        /\ tracer' = TraceEnter(TraceOp(TraceSize(tracer, call.to, CodeSize(call.to)), call.type),
                                call.type, Top.contract, call.to, call.method)
        /\ UNCHANGED <<userOp, todo, storage, deployed>>

(* The creator's only instruction: it calls the factory with the init code. *)
CallFactory ==
    /\ frames # <<>> /\ Top.contract = Creator /\ <<Title, <<"called">>>> \notin did
    /\ Note({<<"called">>})
    /\ frames' = Append(frames, Frame("CALL", Factory, Factory, "createAccount", TRUE, FALSE))
    /\ tracer' = TraceEnter(TraceOp(TraceSize(tracer, Factory, CodeSize(Factory)), "CALL"),
                            "CALL", Creator, Factory, "createAccount")
    /\ UNCHANGED <<userOp, todo, storage, deployed, steps>>

(* The factory's first CREATE2 makes the account, whose constructor runs. *)
Create2 ==
    LET makesSender == Top.contract = Factory /\ Sender \notin deployed
        to == IF makesSender THEN Sender ELSE Codeless
        again == IF <<Title, <<"op", "CREATE2">>>> \in did THEN {<<"second CREATE2">>} ELSE {}
    IN  /\ Len(frames) < MaxDepth
        /\ Instruction("CREATE2", again)
        /\ ~Top.static
        /\ frames' = Append(Running("CREATE2"), Frame("CREATE2", to, to, "", makesSender, FALSE))
        /\ tracer' = TraceEnter(TraceOp(tracer, "CREATE2"), "CREATE2", Top.contract, to, "")
        /\ UNCHANGED <<userOp, todo, storage, deployed>>

(* A frame ends.  If it failed its writes are undone, and a failed top-level *)
(* call ends the simulation.  data is what was returned: a paymaster's       *)
(* context, noted when the entry point gets it, or nothing of interest.      *)
Returned(data) == IF Len(frames) = 1 /\ data # "0x" THEN {<<data>>} ELSE {}

EndFrame(how, data) ==
    LET frame == Top
        failed == how # "RETURN"
        stepped == IF ~frame.runs THEN tracer
                   ELSE IF how = "OUT OF GAS" THEN TraceOutOfGas(TraceOp(tracer, "ADD"))
                   ELSE TraceOp(tracer, how)
    IN  /\ frames # <<>>
        /\ ~frame.runs \/ frame.contract = Creator => how = "RETURN"
        /\ frame.contract = Creator => <<Title, <<"called">>>> \in did
        /\ data # "0x" => how = "RETURN" /\ frame.method = "validatePaymasterUserOp"
        /\ tracer' = TraceExit(stepped, IF failed THEN "REVERT" ELSE "RETURN", data)
        /\ frames' = Front(frames)
        /\ storage' = IF failed THEN frame.storage ELSE storage
        /\ deployed' = IF failed THEN frame.deployed
                       ELSE IF frame.type = "CREATE2" THEN deployed \cup ({frame.contract} \ {Codeless})
                       ELSE deployed
        /\ todo' = IF failed /\ Len(frames) = 1 THEN <<"failed">> ELSE todo
        /\ Note(LoneGas(how) \cup (IF failed THEN {<<"failed", frame.to, frame.method>>} ELSE {})
                              \cup {<<what>> : what \in {how} \cap {"OUT OF GAS"}} \cup Returned(data))
        /\ UNCHANGED <<userOp, steps>>

(* The entry point has no more calls to make, or cannot make the next one. *)
Simulated ==
    frames = <<>> /\ (todo # <<>> => Target(Head(todo)) \notin deployed)

EntityStep ==
    \/ \E op \in PlainOps : Plain(op)
    \/ \E input \in KeccakInputs : Keccak(input)
    \/ \E op \in {"SLOAD", "SSTORE"}, slot \in Slots : Access(op, slot)
    \/ \E addr \in ExternalOps : ExtCode(addr)
    \/ \E call \in NestedCalls : NestedCall(call)
    \/ CallFactory
    \/ Create2
    \/ \E how \in {"RETURN", "REVERT", "OUT OF GAS"}, data \in {"0x", "context", "long context"} :
           EndFrame(how, data)
=============================================================================
