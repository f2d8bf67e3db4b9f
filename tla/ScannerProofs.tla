---------------------------- MODULE ScannerProofs ----------------------------
(***************************************************************************)
(* Proofs about UserOpScanner: whatever the entities of an operation do,   *)
(* the tracer's levels, hashes and calls keep exactly what the rules are   *)
(* about, and so the scanner's verdict is the one the rules prescribe.     *)
(*                                                                         *)
(* The inductive invariant relates did, what the entities did, with what   *)
(* the collector holds: PhaseInv orders the levels, LevelInv says what is  *)
(* in each, KeccakInv and CallInv what is kept beside them, ParseInv that  *)
(* the calls without an exit are the frames, StorageInv who wrote what was *)
(* read.  Each section proves one of these for every action.               *)
(***************************************************************************)
EXTENDS UserOpScanner, InductionFacts

---------------------------------------------------------------------------
(* Types.                                                                  *)

Existing == {EntryPoint, Creator, Factory, Sender, Paymaster, Token, Stub}
Addresses == Existing \cup {Precompile, Codeless} \cup ExternalOps \cup {call.to : call \in NestedCalls}

PhaseSigs == {"createSender", "validateUserOp", "validatePaymasterUserOp"}
Methods == PhaseSigs \cup {"createAccount", ""} \cup {call.method : call \in NestedCalls}
CallTypes == CallOps \cup {"CREATE2"}
OpCodes ==
    PlainOps \cup CallTypes \cup {"KECCAK256", "SLOAD", "SSTORE", "EXTCODESIZE", "RETURN", "REVERT",
                                  "ADD", "GAS", ""}
Returns == {"0x", "context", "long context"}
Data == {"0x", "context", "cut"}
Sizes == {0, 2, 3}

(* Functions on some elements of S. *)
Fcts(S, T) == UNION {[D -> T] : D \in SUBSET S}

Values == {"old", "new"}
AccessSet == [reads : Fcts(Slots, Values), writes : Fcts(Slots, Nat \ {0})]
LevelSet ==
    [topLevelMethodSig : PhaseSigs, topLevelTargetAddress : Addresses,
     opcodes : Fcts(OpCodes, Nat \ {0}), access : Fcts(Addresses, AccessSet),
     contractSize : Fcts(Addresses, Sizes), oog : BOOLEAN]
CallSet == [type : CallTypes, from : Addresses, to : Addresses, method : Methods]
ExitSet == [type : {"RETURN", "REVERT"}, data : Data]
TracerSet ==
    [callsFromEntryPoint : Seq(LevelSet), keccak : SUBSET KeccakInputs,
     calls : Seq(CallSet \cup ExitSet), lastOp : OpCodes]
FrameSet ==
    [type : CallTypes, to : Addresses, contract : Addresses, method : Methods,
     runs : BOOLEAN, static : BOOLEAN, gas : BOOLEAN,
     storage : SUBSET (Addresses \X Slots), deployed : SUBSET Addresses]
EntrySet ==
    [from : Addresses, to : Addresses, data : Data, method : Methods \cup {"undefined"}]
FactSet ==
    {<<"lone GAS">>, <<"second CREATE2">>, <<"OUT OF GAS">>, <<"context">>, <<"long context">>,
     <<"called">>}
        \cup ({"op"} \X OpCodes) \cup ({"keccak"} \X KeccakInputs)
        \cup ({"access"} \X (Addresses \X Slots)) \cup ({"no code"} \X Addresses)
        \cup ({"small code"} \X Addresses)
        \cup ({"call"} \X Addresses \X Addresses \X Methods)
        \cup ({"failed"} \X Addresses \X Methods)

TypeInv ==
    /\ userOp \in UserOpCases
    /\ todo \in Seq(PhaseSigs \cup {"failed"})
    /\ frames \in Seq(FrameSet) /\ Len(frames) <= MaxDepth
    /\ storage \in SUBSET (Addresses \X Slots)
    /\ deployed \in SUBSET Addresses
    /\ steps \in 0..MaxSteps
    /\ tracer \in TracerSet
    /\ did \in SUBSET (PhaseSigs \X FactSet)
    /\ verdict \in {"tracing", "traced", "ok", "SimulateValidation", "OpcodeValidation",
                    "InvalidSignature", "NotInTimeRange", "UnsupportedSignatureAggregator"}

---------------------------------------------------------------------------
(* The inductive invariant.                                                *)

Levels == tracer.callsFromEntryPoint

(* The levels are the entry point's calls so far, in order; what was done   *)
(* was done in one of them, and the call at the bottom is the last one's.   *)
PhaseInv ==
    /\ Len(Levels) <= Len(Phases(userOp))
    /\ \A i \in DOMAIN Levels : Levels[i].topLevelMethodSig = Phases(userOp)[i]
    /\ \/ todo = <<"failed">>
       \/ todo = SubSeq(Phases(userOp), Len(Levels) + 1, Len(Phases(userOp)))
    /\ \A f \in did : \E i \in DOMAIN Levels : f[1] = Levels[i].topLevelMethodSig
    /\ frames # <<>> => /\ Levels # <<>> /\ todo # <<"failed">>
                        /\ frames[1].method = Title /\ frames[1].to = Target(Title)

(* Only the frame on top has just executed GAS.                             *)
FrameInv ==
    /\ \A i \in DOMAIN frames :
          /\ frames[i].gas => i = Len(frames) /\ frames[i].runs /\ frames[i].contract # Creator
          /\ frames[i].contract = Creator => i = 1
          /\ frames[i].type = "CREATE2" => frames[i].contract \in {Sender, Codeless}
          /\ frames[i].deployed \cup {Sender} = Existing
    /\ frames # <<>> => (Top.gas <=> tracer.lastOp = "GAS")
    /\ deployed \cup {Sender} = Existing

Noted(level, fact) == <<level.topLevelMethodSig, fact>> \in did

OpcodesKept(level) ==
    /\ Noted(level, <<"lone GAS">>) <=> "GAS" \in DOMAIN level.opcodes
    /\ \A op \in {"TIMESTAMP", "BALANCE", "CREATE", "CREATE2"} :
          Noted(level, <<"op", op>>) <=> op \in DOMAIN level.opcodes
    /\ Noted(level, <<"second CREATE2">>) <=>
          "CREATE2" \in DOMAIN level.opcodes /\ level.opcodes["CREATE2"] > 1
    /\ Noted(level, <<"OUT OF GAS">>) <=> level.oog

(* The size of an account that is not the sender does not change. *)
SizeOf(addr) == IF addr \notin Existing THEN 0 ELSE IF addr = Stub THEN 2 ELSE 3
SizesKept(level) ==
    /\ ~Noted(level, <<"small code", Sender>>)
    /\ \A addr \in Addresses \ {Sender} :
        /\ Noted(level, <<"no code", addr>>) <=>
              addr \in DOMAIN level.contractSize /\ addr \notin Existing
        /\ Noted(level, <<"small code", addr>>) <=>
              addr \in DOMAIN level.contractSize /\ addr = Stub
        /\ addr \in DOMAIN level.contractSize => level.contractSize[addr] = SizeOf(addr)

Met(level, addr, slot) ==
    /\ addr \in DOMAIN level.access
    /\ slot \in DOMAIN level.access[addr].reads \cup DOMAIN level.access[addr].writes

AccessKept(level) ==
    /\ \A addr \in Addresses, slot \in Slots :
          Noted(level, <<"access", <<addr, slot>>>>) <=> Met(level, addr, slot)
    /\ \A addr \in DOMAIN level.access : \E slot \in Slots : Met(level, addr, slot)

LevelInv ==
    \A i \in DOMAIN Levels :
        OpcodesKept(Levels[i]) /\ SizesKept(Levels[i]) /\ AccessKept(Levels[i])

Somewhere(fact) == \E f \in did : f[2] = fact

KeccakInv ==
    \A input \in KeccakInputs :
        input \in tracer.keccak <=> input.len \in 21..511 /\ Somewhere(<<"keccak", input>>)

(* What is written was noted as written, and the first level that meets a   *)
(* contract reads nothing that was written before.                          *)
WrittenIn(level, contract, slot) ==
    contract \in DOMAIN level.access /\ slot \in DOMAIN level.access[contract].writes
Written ==
    {w \in Addresses \X Slots : \E i \in DOMAIN Levels : WrittenIn(Levels[i], w[1], w[2])}

FirstMet(i, addr) ==
    /\ addr \in DOMAIN Levels[i].access
    /\ \A j \in 1..(i - 1) : addr \notin DOMAIN Levels[j].access
FirstReadsOld ==
    \A i \in DOMAIN Levels : \A addr : FirstMet(i, addr) =>
        \A slot \in DOMAIN Levels[i].access[addr].reads :
            Levels[i].access[addr].reads[slot] = "old"
FramesWritten == \A i \in DOMAIN frames : frames[i].storage \subseteq Written
StorageInv == storage \subseteq Written /\ FramesWritten /\ FirstReadsOld

(* The calls that have no exit yet are the frames.                          *)
Parsed == ParseCallStack(tracer.calls)

ParsedSet == [out : Seq(EntrySet), stack : Seq(CallSet)]
FramesParsed ==
    /\ Len(Parsed.stack) = Len(frames)
    /\ 2 * Len(Parsed.out) + Len(Parsed.stack) = Len(tracer.calls)
    /\ \A i \in DOMAIN frames :
          /\ Parsed.stack[i].to = frames[i].to /\ Parsed.stack[i].method = frames[i].method
          /\ Parsed.stack[i].from = EntryPoint <=> i = 1
AllParsed ==
    /\ frames = <<>> /\ Parsed.stack = <<>>
    /\ 2 * Len(Parsed.out) = Len(tracer.calls) + 1
    /\ Last(Parsed.out).from = Codeless /\ \E e \in ToSet(Parsed.out) : e.to # EntryPoint
ParseInv ==
    /\ Parsed \in ParsedSet
    /\ verdict = "tracing" => FramesParsed
    /\ verdict # "tracing" => AllParsed

(* A call into the entry point that the rules forbid, as a deed and as an   *)
(* entry of the call stack.                                                 *)
BadCall(fact) ==
    \/ fact[1] = "call" /\ fact[3] = EntryPoint /\ fact[4] \notin {"0x", "depositTo"}
    \/ fact = <<"failed", EntryPoint, "0x">>
BadEntry(e) == e.to = EntryPoint /\ e.from # EntryPoint /\ e.method \notin {"0x", "depositTo"}

BadCalls == \E f \in did : BadCall(f[2])
CallInv == BadCalls <=> \E e \in ToSet(Parsed.stack) \cup ToSet(Parsed.out) : BadEntry(e)

ContextNoted == Somewhere(<<"context">>)

(* Where no entity calls the paymaster's validatePaymasterUserOp, a context  *)
(* was returned by the entry point's own call of it, the last one it makes.  *)
PaymasterSig == "validatePaymasterUserOp"
AsksPaymaster(c) == c.method = PaymasterSig /\ c.to = Paymaster
Asks(fact) == fact[1] = "call" /\ fact[3] = Paymaster /\ fact[4] = PaymasterSig

OfPaymaster == {e \in ToSet(Parsed.out) : AsksPaymaster(e)}
OnlyContextInv ==
    /\ \A i \in DOMAIN frames : AsksPaymaster(frames[i]) => i = 1
    /\ OfPaymaster # {} => frames = <<>> /\ todo \in {<<>>, <<"failed">>}
    /\ ContextNoted =>
          /\ \E i \in DOMAIN Levels : Levels[i].topLevelMethodSig = PaymasterSig
          /\ OfPaymaster # {}
    /\ \A e \in OfPaymaster : e.data = "context" <=> ContextNoted

VerdictInv ==
    /\ verdict = "ok" => todo = <<>> /\ ScannerAllows /\ storageMap = StorageMapOf(Levels)
    /\ verdict = "OpcodeValidation" => todo = <<>> /\ ~ScannerAllows

Basics == TypeInv /\ PhaseInv /\ FrameInv
CallsInv ==
    ParseInv /\ CallInv /\ (~PaymasterAsked => OnlyContextInv)
Collected == KeccakInv /\ CallsInv
Gathered == Basics /\ LevelInv /\ Collected /\ StorageInv

(* While the validation is traced only Gathered is at stake. *)
ScanInv == Gathered /\ VerdictInv

---------------------------------------------------------------------------
(* Partial functions, and the helpers of the collector.                    *)

LEMMA FctsElement ==
    ASSUME NEW S, NEW T, NEW f \in Fcts(S, T)
    PROVE  /\ DOMAIN f \subseteq S
           /\ f = [x \in DOMAIN f |-> f[x]]
           /\ \A x \in DOMAIN f : f[x] \in T
<1>1. PICK D \in SUBSET S : f \in [D -> T]
  BY DEF Fcts
<1> QED
  BY <1>1

LEMMA FctsMember ==
    ASSUME NEW S, NEW T, NEW f, NEW D \in SUBSET S, f \in [D -> T]
    PROVE  f \in Fcts(S, T)
BY DEF Fcts

(* A value put under a key. *)
LEMMA PutType ==
    ASSUME NEW S, NEW T, NEW f \in Fcts(S, T), NEW key \in S, NEW value \in T
    PROVE  Put(f, key, value) \in Fcts(S, T)
<1>1. DOMAIN f \subseteq S /\ \A x \in DOMAIN f : f[x] \in T
  BY FctsElement
<1>2. Put(f, key, value) \in [DOMAIN f \cup {key} -> T]
  BY <1>1 DEF Put
<1> QED
  BY <1>1, <1>2, FctsMember

(* Each of the keys is counted once more. *)
LEMMA CountSlotProperties ==
    ASSUME NEW list, NEW keys, \A k \in DOMAIN list : list[k] \in Nat \ {0}
    PROVE  /\ DOMAIN CountSlot(list, keys) = DOMAIN list \cup keys
           /\ \A k \in DOMAIN list : k \notin keys => CountSlot(list, keys)[k] = list[k]
           /\ \A k \in keys : CountSlot(list, keys)[k] =
                                  IF k \in DOMAIN list THEN list[k] + 1 ELSE 1
<1> DEFINE g == CountSlot(list, keys)
<1>1. g = [k \in DOMAIN list \cup keys |->
             (IF k \in DOMAIN list THEN list[k] ELSE 0) + (IF k \in keys THEN 1 ELSE 0)]
  BY DEF CountSlot, (+), SetToBag
<1>2. \A k \in DOMAIN list \cup keys :
         g[k] = (IF k \in DOMAIN list THEN list[k] ELSE 0) + (IF k \in keys THEN 1 ELSE 0)
  BY <1>1
<1>3. DOMAIN g = DOMAIN list \cup keys
  BY <1>1
<1> HIDE DEF g
<1> QED
  BY <1>2, <1>3 DEF g

LEMMA CountSlotType ==
    ASSUME NEW S, NEW list \in Fcts(S, Nat \ {0}), NEW keys \in SUBSET S
    PROVE  CountSlot(list, keys) \in Fcts(S, Nat \ {0})
<1> DEFINE g == CountSlot(list, keys)
<1>1. DOMAIN list \subseteq S /\ \A x \in DOMAIN list : list[x] \in Nat \ {0}
  BY FctsElement
<1>2. g = [k \in DOMAIN list \cup keys |->
             (IF k \in DOMAIN list THEN list[k] ELSE 0) + (IF k \in keys THEN 1 ELSE 0)]
  BY DEF CountSlot, (+), SetToBag
<1>3. g \in [DOMAIN list \cup keys -> Nat \ {0}]
  BY <1>1, <1>2
<1> QED
  BY <1>1, <1>3, FctsMember

LEMMA NoEntryIsFcts ==
    ASSUME NEW S, NEW T
    PROVE  NoEntry \in Fcts(S, T) /\ DOMAIN NoEntry = {}
<1>1. NoEntry \in [{} -> T] /\ {} \in SUBSET S
  BY DEF NoEntry
<1> QED
  BY <1>1, FctsMember

---------------------------------------------------------------------------
(* What the collector's handlers do to the tracer.                         *)

(* Of the levels, u differs from t in the last one. *)
LastOnly(t, u) ==
    /\ u \in TracerSet
    /\ Len(u.callsFromEntryPoint) = Len(t.callsFromEntryPoint)
    /\ \A i \in 1..(Len(t.callsFromEntryPoint) - 1) :
          u.callsFromEntryPoint[i] = t.callsFromEntryPoint[i]

LEMMA LevelProperties ==
    ASSUME NEW t \in TracerSet, t.callsFromEntryPoint # <<>>
    PROVE  /\ Level(t) \in LevelSet /\ Len(t.callsFromEntryPoint) \in Nat \ {0}
           /\ DOMAIN t.callsFromEntryPoint = 1..Len(t.callsFromEntryPoint)
BY DEF TracerSet, Level

LEMMA SetLevelProperties ==
    ASSUME NEW t \in TracerSet, t.callsFromEntryPoint # <<>>, NEW level \in LevelSet
    PROVE  /\ LastOnly(t, SetLevel(t, level)) /\ Level(SetLevel(t, level)) = level
           /\ SetLevel(t, level).keccak = t.keccak /\ SetLevel(t, level).lastOp = t.lastOp
           /\ SetLevel(t, level).calls = t.calls
<1> DEFINE u == SetLevel(t, level)
           levels == t.callsFromEntryPoint
           n == Len(levels)
<1>1. levels \in Seq(LevelSet) /\ n \in Nat \ {0} /\ n \in DOMAIN levels
  BY LevelProperties DEF TracerSet
<1>2. [levels EXCEPT ![n] = level] \in Seq(LevelSet)
      /\ Len([levels EXCEPT ![n] = level]) = n
      /\ [levels EXCEPT ![n] = level][n] = level
      /\ \A i \in 1..(n - 1) : [levels EXCEPT ![n] = level][i] = levels[i]
  BY <1>1
<1>3. u = [t EXCEPT !.callsFromEntryPoint = [levels EXCEPT ![n] = level]]
  BY DEF SetLevel
<1>4. u \in TracerSet /\ u.callsFromEntryPoint = [levels EXCEPT ![n] = level]
      /\ u.calls = t.calls /\ u.keccak = t.keccak /\ u.lastOp = t.lastOp
  BY <1>2, <1>3 DEF TracerSet
<1> QED
  BY <1>1, <1>2, <1>4 DEF LastOnly, Level

LEMMA TraceOpProperties ==
    ASSUME NEW t \in TracerSet, t.callsFromEntryPoint # <<>>, NEW op \in OpCodes
    PROVE  /\ LastOnly(t, TraceOp(t, op))
           /\ TraceOp(t, op).keccak = t.keccak /\ TraceOp(t, op).lastOp = op
           /\ TraceOp(t, op).calls = t.calls
           /\ Level(TraceOp(t, op)) =
                 [Level(t) EXCEPT !.opcodes = CountSlot(Level(t).opcodes, CountedAt(t.lastOp, op))]
<1> DEFINE counted == CountSlot(Level(t).opcodes, CountedAt(t.lastOp, op))
           level == [Level(t) EXCEPT !.opcodes = counted]
           u == SetLevel(t, level)
<1>1. Level(t) \in LevelSet
  BY LevelProperties
<1>2. Level(t).opcodes \in Fcts(OpCodes, Nat \ {0})
  BY <1>1 DEF LevelSet
<1>3. CountedAt(t.lastOp, op) \in SUBSET OpCodes
  <2>1. \A o \in CountedAt(t.lastOp, op) : o = op \/ o = "GAS"
    BY DEF CountedAt
  <2>2. "GAS" \in OpCodes
    BY DEF OpCodes
  <2> QED
    BY <2>1, <2>2
<1>4. counted \in Fcts(OpCodes, Nat \ {0})
  BY <1>2, <1>3, CountSlotType
<1> HIDE DEF counted
<1>5. level \in LevelSet
  BY <1>1, <1>4 DEF LevelSet
<1> HIDE DEF level
<1>6. /\ LastOnly(t, u) /\ Level(u) = level /\ u.keccak = t.keccak /\ u \in TracerSet
      /\ u.calls = t.calls
  BY <1>5, SetLevelProperties DEF LastOnly
<1>7. TraceOp(t, op) = [u EXCEPT !.lastOp = op]
  BY DEF TraceOp, level, counted
<1> HIDE DEF u
<1>8. LastOnly(t, TraceOp(t, op)) /\ TraceOp(t, op).keccak = t.keccak /\ TraceOp(t, op).lastOp = op
      /\ Level(TraceOp(t, op)) = level /\ TraceOp(t, op).calls = t.calls
  BY <1>6, <1>7 DEF LastOnly, TracerSet, Level
<1> QED
  BY <1>8 DEF level, counted

(* The size of the code is kept once it is not zero. *)
Known(level, addr) == addr \in DOMAIN level.contractSize /\ level.contractSize[addr] # 0

LEMMA TraceSizeProperties ==
    ASSUME NEW t \in TracerSet, t.callsFromEntryPoint # <<>>, NEW addr \in Addresses,
           NEW size \in Sizes
    PROVE  /\ LastOnly(t, TraceSize(t, addr, size))
           /\ TraceSize(t, addr, size).keccak = t.keccak
           /\ TraceSize(t, addr, size).lastOp = t.lastOp
           /\ TraceSize(t, addr, size).calls = t.calls
           /\ Level(TraceSize(t, addr, size)) =
                 [Level(t) EXCEPT !.contractSize =
                    IF Known(Level(t), addr) \/ addr = Precompile THEN @ ELSE Put(@, addr, size)]
<1>1. Level(t) \in LevelSet
  BY LevelProperties
<1>2. CASE Known(Level(t), addr) \/ addr = Precompile
  <2>1. TraceSize(t, addr, size) = t
    BY <1>2 DEF TraceSize, Known
  <2>2. [Level(t) EXCEPT !.contractSize = Level(t).contractSize] = Level(t)
    BY <1>1 DEF LevelSet
  <2> QED
    BY <1>2, <2>1, <2>2 DEF LastOnly
<1>3. CASE ~(Known(Level(t), addr) \/ addr = Precompile)
  <2> DEFINE sizes == Put(Level(t).contractSize, addr, size)
             level == [Level(t) EXCEPT !.contractSize = sizes]
  <2>1. TraceSize(t, addr, size) = SetLevel(t, level)
    BY <1>3 DEF TraceSize, Known
  <2>2. Level(t).contractSize \in Fcts(Addresses, Sizes)
    BY <1>1 DEF LevelSet
  <2>3. sizes \in Fcts(Addresses, Sizes)
    BY <2>2, PutType
  <2> HIDE DEF sizes
  <2>4. level \in LevelSet
    BY <1>1, <2>3 DEF LevelSet
  <2> HIDE DEF level
  <2>5. /\ LastOnly(t, SetLevel(t, level)) /\ Level(SetLevel(t, level)) = level
        /\ SetLevel(t, level).keccak = t.keccak /\ SetLevel(t, level).lastOp = t.lastOp
        /\ SetLevel(t, level).calls = t.calls
    BY <2>4, SetLevelProperties
  <2>6. level = [Level(t) EXCEPT !.contractSize =
                    IF Known(Level(t), addr) \/ addr = Precompile THEN @ ELSE Put(@, addr, size)]
    BY <1>3 DEF level, sizes
  <2> QED
    BY <2>1, <2>5, <2>6
<1> QED
  BY <1>2, <1>3

LEMMA AccessedProperties ==
    ASSUME NEW access \in Fcts(Addresses, AccessSet), NEW addr
    PROVE  /\ Accessed(access, addr) \in AccessSet
           /\ addr \notin DOMAIN access => /\ DOMAIN Accessed(access, addr).reads = {}
                                           /\ DOMAIN Accessed(access, addr).writes = {}
           /\ addr \in DOMAIN access => Accessed(access, addr) = access[addr]
<1>1. NoEntry \in Fcts(Slots, Values) /\ NoEntry \in Fcts(Slots, Nat \ {0})
      /\ DOMAIN NoEntry = {}
  BY NoEntryIsFcts
<1>2. addr \in DOMAIN access => access[addr] \in AccessSet
  BY FctsElement
<1> QED
  BY <1>1, <1>2 DEF Accessed, AccessSet

(* What an access leaves of a contract's reads and writes. *)
AccessStep(old, new, op, slot, value) ==
    /\ new \in AccessSet
    /\ DOMAIN new.reads \cup DOMAIN new.writes = DOMAIN old.reads \cup DOMAIN old.writes \cup {slot}
    /\ DOMAIN old.writes \subseteq DOMAIN new.writes
    /\ op = "SSTORE" => slot \in DOMAIN new.writes
    /\ \A s \in DOMAIN new.reads :
          \/ s \in DOMAIN old.reads /\ new.reads[s] = old.reads[s]
          \/ s = slot /\ slot \notin DOMAIN old.writes /\ new.reads[s] = value

LEMMA TraceAccessProperties ==
    ASSUME NEW t \in TracerSet, t.callsFromEntryPoint # <<>>, NEW op, NEW addr \in Addresses,
           NEW slot \in Slots, NEW value \in Values
    PROVE  /\ LastOnly(t, TraceAccess(t, op, addr, slot, value))
           /\ TraceAccess(t, op, addr, slot, value).keccak = t.keccak
           /\ TraceAccess(t, op, addr, slot, value).lastOp = t.lastOp
           /\ TraceAccess(t, op, addr, slot, value).calls = t.calls
           /\ \E new : /\ AccessStep(Accessed(Level(t).access, addr), new, op, slot, value)
                       /\ Level(TraceAccess(t, op, addr, slot, value)) =
                             [Level(t) EXCEPT !.access = Put(Level(t).access, addr, new)]
<1> DEFINE access == Level(t).access
           old == Accessed(access, addr)
           first == slot \notin DOMAIN old.reads \cup DOMAIN old.writes
           new == IF op = "SSTORE" THEN [old EXCEPT !.writes = CountSlot(old.writes, {slot})]
                  ELSE IF first THEN [old EXCEPT !.reads = Put(old.reads, slot, value)]
                  ELSE old
           level == [Level(t) EXCEPT !.access = Put(access, addr, new)]
<1>1. Level(t) \in LevelSet /\ access \in Fcts(Addresses, AccessSet)
  BY LevelProperties DEF LevelSet
<1>2. old \in AccessSet
  BY <1>1, AccessedProperties
<1>3. TraceAccess(t, op, addr, slot, value) = SetLevel(t, level)
  BY DEF TraceAccess
<1> HIDE DEF access, old, first, new, level
<1>4. AccessStep(old, new, op, slot, value)
  <2>0. old.reads \in Fcts(Slots, Values) /\ old.writes \in Fcts(Slots, Nat \ {0})
    BY <1>2 DEF AccessSet
  <2>1. CASE op = "SSTORE"
    <3> DEFINE writes == CountSlot(old.writes, {slot})
    <3>1. writes \in Fcts(Slots, Nat \ {0}) /\ DOMAIN writes = DOMAIN old.writes \cup {slot}
      <4>1. \A s \in DOMAIN old.writes : old.writes[s] \in Nat \ {0}
        BY <2>0, FctsElement
      <4> DEFINE keys == {slot}
      <4>2. keys \in SUBSET Slots
        OBVIOUS
      <4> HIDE DEF keys
      <4>3. CountSlot(old.writes, keys) \in Fcts(Slots, Nat \ {0})
        BY <2>0, <4>2, CountSlotType
      <4>4. DOMAIN CountSlot(old.writes, keys) = DOMAIN old.writes \cup keys
        BY <4>1, CountSlotProperties
      <4> QED
        BY <4>3, <4>4 DEF keys
    <3>2. new = [old EXCEPT !.writes = writes]
      BY <2>1 DEF new
    <3> HIDE DEF writes
    <3>3. new \in AccessSet /\ new.writes = writes /\ new.reads = old.reads
      BY <1>2, <3>1, <3>2 DEF AccessSet
    <3> QED
      BY <3>1, <3>3 DEF AccessStep
  <2>2. CASE op # "SSTORE" /\ first
    <3> DEFINE reads == Put(old.reads, slot, value)
    <3>1. /\ reads \in Fcts(Slots, Values) /\ DOMAIN reads = DOMAIN old.reads \cup {slot}
          /\ reads[slot] = value /\ \A k \in DOMAIN old.reads : k # slot => reads[k] = old.reads[k]
      <4>1. reads \in Fcts(Slots, Values)
        BY <2>0, PutType
      <4>2. /\ DOMAIN reads = DOMAIN old.reads \cup {slot} /\ reads[slot] = value
            /\ \A k \in DOMAIN old.reads : k # slot => reads[k] = old.reads[k]
        BY DEF Put
      <4> QED
        BY <4>1, <4>2
    <3>2. new = [old EXCEPT !.reads = reads]
      BY <2>2 DEF new
    <3> HIDE DEF reads
    <3>3. new \in AccessSet /\ new.writes = old.writes /\ new.reads = reads
      BY <1>2, <3>1, <3>2 DEF AccessSet
    <3> QED
      BY <2>2, <3>1, <3>3 DEF AccessStep, first
  <2>3. CASE op # "SSTORE" /\ ~first
    BY <1>2, <2>3 DEF AccessStep, first, new
  <2> QED
    BY <2>1, <2>2, <2>3
<1>5. Put(access, addr, new) \in Fcts(Addresses, AccessSet)
  BY <1>1, <1>4, PutType DEF AccessStep
<1>6. level \in LevelSet
  BY <1>1, <1>5 DEF LevelSet, level
<1>7. /\ LastOnly(t, SetLevel(t, level)) /\ Level(SetLevel(t, level)) = level
      /\ SetLevel(t, level).keccak = t.keccak /\ SetLevel(t, level).lastOp = t.lastOp
      /\ SetLevel(t, level).calls = t.calls
  BY <1>6, SetLevelProperties
<1> QED
  BY <1>3, <1>4, <1>7 DEF level, old, access

LEMMA TraceOutOfGasProperties ==
    ASSUME NEW t \in TracerSet, t.callsFromEntryPoint # <<>>
    PROVE  /\ LastOnly(t, TraceOutOfGas(t))
           /\ TraceOutOfGas(t).keccak = t.keccak /\ TraceOutOfGas(t).lastOp = t.lastOp
           /\ TraceOutOfGas(t).calls = t.calls
           /\ Level(TraceOutOfGas(t)) = [Level(t) EXCEPT !.oog = TRUE]
<1> DEFINE level == [Level(t) EXCEPT !.oog = TRUE]
<1>1. level \in LevelSet
  BY LevelProperties DEF LevelSet
<1>2. TraceOutOfGas(t) = SetLevel(t, level)
  BY DEF TraceOutOfGas
<1> HIDE DEF level
<1>3. /\ LastOnly(t, SetLevel(t, level)) /\ Level(SetLevel(t, level)) = level
      /\ SetLevel(t, level).keccak = t.keccak /\ SetLevel(t, level).lastOp = t.lastOp
      /\ SetLevel(t, level).calls = t.calls
  BY <1>1, SetLevelProperties
<1> QED
  BY <1>2, <1>3 DEF level

LEMMA TraceKeccakProperties ==
    ASSUME NEW t \in TracerSet, NEW input \in KeccakInputs
    PROVE  /\ LastOnly(t, TraceKeccak(t, input)) /\ TraceKeccak(t, input).lastOp = t.lastOp
           /\ TraceKeccak(t, input).calls = t.calls
           /\ TraceKeccak(t, input).callsFromEntryPoint = t.callsFromEntryPoint
           /\ TraceKeccak(t, input).keccak =
                 t.keccak \cup (IF input.len \in 21..511 THEN {input} ELSE {})
<1>1. input.len > 20 /\ input.len < 512 <=> input.len \in 21..511
  BY SlotAssumption
<1> QED
  BY <1>1 DEF TraceKeccak, TracerSet, LastOnly

LEMMA AppendCallProperties ==
    ASSUME NEW t \in TracerSet, NEW c \in CallSet \cup ExitSet
    PROVE  /\ [t EXCEPT !.calls = Append(@, c)] \in TracerSet
           /\ [t EXCEPT !.calls = Append(@, c)].calls = Append(t.calls, c)
           /\ [t EXCEPT !.calls = Append(@, c)].callsFromEntryPoint = t.callsFromEntryPoint
           /\ [t EXCEPT !.calls = Append(@, c)].keccak = t.keccak
           /\ [t EXCEPT !.calls = Append(@, c)].lastOp = t.lastOp
<1> DEFINE calls == Append(t.calls, c)
<1>1. calls \in Seq(CallSet \cup ExitSet)
  <2> DEFINE C == CallSet \cup ExitSet
  <2> HIDE DEF C
  <2> QED
    BY AppendProperties DEF TracerSet, C
<1> HIDE DEF calls
<1>2. /\ [t EXCEPT !.calls = calls] \in TracerSet
      /\ [t EXCEPT !.calls = calls].calls = calls
      /\ [t EXCEPT !.calls = calls].callsFromEntryPoint = t.callsFromEntryPoint
      /\ [t EXCEPT !.calls = calls].keccak = t.keccak
      /\ [t EXCEPT !.calls = calls].lastOp = t.lastOp
  BY <1>1 DEF TracerSet
<1> QED
  BY <1>2 DEF calls

LEMMA LastOnlyTransitive ==
    ASSUME NEW t, NEW u, NEW w, t.callsFromEntryPoint # <<>>, t \in TracerSet,
           LastOnly(t, u), LastOnly(u, w)
    PROVE  LastOnly(t, w) /\ u.callsFromEntryPoint # <<>>
<1>1. Len(u.callsFromEntryPoint) = Len(t.callsFromEntryPoint)
      /\ Len(t.callsFromEntryPoint) \in Nat \ {0}
  BY LevelProperties DEF LastOnly
<1> QED
  BY <1>1 DEF LastOnly

---------------------------------------------------------------------------
(* Addresses, calls of the entry point, and facts.                         *)

LEMMA Distinct ==
    /\ EntryPoint \notin {Creator, Factory, Sender, Paymaster, Token, Codeless}
    /\ Creator \notin {EntryPoint, Factory, Sender, Paymaster, Token, Codeless}
    /\ Sender \notin {EntryPoint, Creator, Factory, Paymaster, Token, Codeless}
    /\ Codeless \notin {EntryPoint, Creator, Factory, Sender, Paymaster, Token}
    /\ Factory # Paymaster
    /\ Stub \notin {EntryPoint, Creator, Factory, Sender, Paymaster, Token, Codeless}
    /\ Precompile \notin Existing /\ Codeless \notin Existing
<1> DEFINE s == <<EntryPoint, Creator, Factory, Sender, Paymaster, Token, Stub, Precompile, Codeless>>
<1>1. \A i, j \in 1..9 : s[i] = s[j] => i = j
  <2>1. DOMAIN s = 1..9
    OBVIOUS
  <2> HIDE DEF s
  <2> QED
    BY <2>1, AddressAssumption DEF IsInjective, s
<1> QED
  BY <1>1 DEF Existing

(* The entry point calls each entity once, the paymaster last. *)
OncePerEntity(op, phases) ==
    /\ phases \in Seq(PhaseSigs) /\ Len(phases) \in 1..3
    /\ \A i, j \in 1..Len(phases) : phases[i] = phases[j] => i = j
    /\ \A i \in 1..Len(phases) :
          /\ phases[i] = "createSender" => op.initCode
          /\ phases[i] = "validatePaymasterUserOp" => op.paymaster /\ i = Len(phases)

LEMMA PhasesProperties ==
    ASSUME NEW op \in UserOpCases
    PROVE  OncePerEntity(op, Phases(op))
<1> DEFINE one == IF op.initCode THEN <<"createSender">> ELSE <<>>
           two == one \o <<"validateUserOp">>
           last == IF op.paymaster THEN <<"validatePaymasterUserOp">> ELSE <<>>
           p == two \o last
<1>0. op.initCode \in BOOLEAN /\ op.paymaster \in BOOLEAN
  BY CaseAssumption
<1>1. Phases(op) = p
  BY DEF Phases
<1>2. /\ one \in Seq(PhaseSigs)
      /\ op.initCode => Len(one) = 1 /\ one[1] = "createSender"
      /\ ~op.initCode => Len(one) = 0
  <2>1. CASE op.initCode
    <3>1. one = <<"createSender">>
      BY <2>1
    <3>2. <<"createSender">> \in Seq(PhaseSigs)
      BY DEF PhaseSigs
    <3> QED
      BY <2>1, <3>1, <3>2
  <2>2. CASE ~op.initCode
    <3>1. one = <<>>
      BY <2>2
    <3> QED
      BY <2>2, <3>1
  <2> QED
    BY <1>0, <2>1, <2>2
<1>10. /\ last \in Seq(PhaseSigs)
       /\ op.paymaster => Len(last) = 1 /\ last[1] = "validatePaymasterUserOp"
       /\ ~op.paymaster => Len(last) = 0
  <2>1. CASE op.paymaster
    <3>1. last = <<"validatePaymasterUserOp">>
      BY <2>1
    <3>2. <<"validatePaymasterUserOp">> \in Seq(PhaseSigs)
      BY DEF PhaseSigs
    <3> QED
      BY <2>1, <3>1, <3>2
  <2>2. CASE ~op.paymaster
    <3>1. last = <<>>
      BY <2>2
    <3> QED
      BY <2>2, <3>1
  <2> QED
    BY <1>0, <2>1, <2>2
<1> DEFINE mid == <<"validateUserOp">>
<1>3. mid \in Seq(PhaseSigs) /\ Len(mid) = 1 /\ mid[1] = "validateUserOp"
  BY DEF PhaseSigs
<1> HIDE DEF one, last, mid
<1>4. /\ two \in Seq(PhaseSigs) /\ Len(two) = Len(one) + 1
      /\ \A i \in 1..(Len(one) + 1) :
            two[i] = IF i <= Len(one) THEN one[i] ELSE mid[i - Len(one)]
  BY <1>2, <1>3, ConcatProperties DEF mid
<1> HIDE DEF two
<1>5. /\ p \in Seq(PhaseSigs) /\ Len(p) = Len(two) + Len(last)
      /\ \A i \in 1..(Len(two) + Len(last)) :
            p[i] = IF i <= Len(two) THEN two[i] ELSE last[i - Len(two)]
  BY <1>10, <1>4, ConcatProperties
<1> HIDE DEF p
<1>6. CASE op.initCode /\ op.paymaster
  <2>1. Len(two) = 2 /\ two[1] = "createSender" /\ two[2] = "validateUserOp"
    <3>1. Len(one) = 1 /\ one[1] = "createSender"
      BY <1>2, <1>6
    <3>2. Len(two) = 2 /\ \A i \in 1..2 : two[i] = IF i <= 1 THEN one[i] ELSE mid[i - 1]
      BY <1>4, <3>1
    <3> QED
      BY <1>3, <3>1, <3>2
  <2>2. Len(last) = 1 /\ last[1] = "validatePaymasterUserOp"
    BY <1>10, <1>6
  <2>3. Len(p) = 3 /\ \A i \in 1..3 : p[i] = IF i <= 2 THEN two[i] ELSE last[i - 2]
    BY <1>5, <2>1, <2>2
  <2>4. OncePerEntity(op, p)
    BY <1>5, <1>6, <2>1, <2>2, <2>3 DEF OncePerEntity
  <2> QED
    BY <1>1, <2>4
<1>7. CASE op.initCode /\ ~op.paymaster
  <2>1. Len(two) = 2 /\ two[1] = "createSender" /\ two[2] = "validateUserOp"
    <3>1. Len(one) = 1 /\ one[1] = "createSender"
      BY <1>2, <1>7
    <3>2. Len(two) = 2 /\ \A i \in 1..2 : two[i] = IF i <= 1 THEN one[i] ELSE mid[i - 1]
      BY <1>4, <3>1
    <3> QED
      BY <1>3, <3>1, <3>2
  <2>2. Len(last) = 0
    BY <1>10, <1>7
  <2>3. Len(p) = 2 /\ \A i \in 1..2 : p[i] = IF i <= 2 THEN two[i] ELSE last[i - 2]
    BY <1>5, <2>1, <2>2
  <2>4. OncePerEntity(op, p)
    BY <1>5, <1>7, <2>1, <2>2, <2>3 DEF OncePerEntity
  <2> QED
    BY <1>1, <2>4
<1>8. CASE ~op.initCode /\ op.paymaster
  <2>1. Len(two) = 1 /\ two[1] = "validateUserOp"
    BY <1>2, <1>3, <1>4, <1>8
  <2>2. Len(last) = 1 /\ last[1] = "validatePaymasterUserOp"
    BY <1>10, <1>8
  <2>3. Len(p) = 2 /\ \A i \in 1..2 : p[i] = IF i <= 1 THEN two[i] ELSE last[i - 1]
    BY <1>5, <2>1, <2>2
  <2>4. OncePerEntity(op, p)
    BY <1>5, <1>8, <2>1, <2>2, <2>3 DEF OncePerEntity
  <2> QED
    BY <1>1, <2>4
<1>9. CASE ~op.initCode /\ ~op.paymaster
  <2>1. Len(two) = 1 /\ two[1] = "validateUserOp"
    BY <1>2, <1>3, <1>4, <1>9
  <2>2. Len(last) = 0
    BY <1>10, <1>9
  <2>3. Len(p) = 1 /\ \A i \in 1..1 : p[i] = IF i <= 1 THEN two[i] ELSE last[i - 1]
    BY <1>5, <2>1, <2>2
  <2>4. OncePerEntity(op, p)
    BY <1>5, <1>9, <2>1, <2>2, <2>3 DEF OncePerEntity
  <2> QED
    BY <1>1, <2>4
<1> QED
  BY <1>0, <1>6, <1>7, <1>8, <1>9

LEMMA TargetProperties ==
    /\ \A method \in PhaseSigs :
          /\ Target(method) \in {Creator, Sender, Paymaster}
          /\ method = "validatePaymasterUserOp" => Target(method) = Paymaster
          /\ Target(method) = Creator => method = "createSender"
    /\ Target("failed") = Codeless
<1>1. /\ Target("createSender") = Creator /\ Target("validateUserOp") = Sender
      /\ Target("validatePaymasterUserOp") = Paymaster /\ Target("failed") = Codeless
  BY DEF Target
<1> QED
  BY <1>1, Distinct DEF PhaseSigs

(* The new facts are N, of the call that is under way. *)
Notes(N) ==
    \A sig, fact : <<sig, fact>> \in did' <=> <<sig, fact>> \in did \/ (sig = Title /\ fact \in N)

LEMMA TopProperties ==
    ASSUME TypeInv, frames # <<>>
    PROVE  /\ Top \in FrameSet /\ Len(frames) \in Nat \ {0}
           /\ DOMAIN frames = 1..Len(frames) /\ Len(frames) \in DOMAIN frames
BY DEF TypeInv, Top

LEMMA TitleProperties ==
    ASSUME TypeInv, Levels # <<>>
    PROVE  /\ Title \in PhaseSigs /\ Level(tracer) \in LevelSet /\ tracer \in TracerSet
           /\ Len(Levels) \in Nat \ {0} /\ DOMAIN Levels = 1..Len(Levels)
           /\ Level(tracer) = Levels[Len(Levels)]
<1>1. tracer \in TracerSet /\ Level(tracer) \in LevelSet
  BY LevelProperties DEF TypeInv, Levels
<1> QED
  BY <1>1, LevelProperties DEF Title, LevelSet, Levels, Level

LEMMA NoteProperties ==
    ASSUME NEW N, Note(N)
    PROVE  Notes(N)
BY DEF Note, Notes

---------------------------------------------------------------------------
(* What each action does to the level that is being traced.                *)

Counted(op) == CountSlot(Level(tracer).opcodes, CountedAt(tracer.lastOp, op))
Sized(addr) ==
    IF Known(Level(tracer), addr) \/ addr = Precompile THEN Level(tracer).contractSize
    ELSE Put(Level(tracer).contractSize, addr, CodeSize(addr))

Becomes(level, opcodes, access, sizes, oog) ==
    /\ level.topLevelMethodSig = Title /\ level.opcodes = opcodes /\ level.access = access
    /\ level.contractSize = sizes /\ level.oog = oog

LEMMA OpEffect ==
    ASSUME TypeInv, Levels # <<>>, NEW op \in OpCodes
    PROVE  /\ LastOnly(tracer, TraceOp(tracer, op))
           /\ Becomes(Level(TraceOp(tracer, op)), Counted(op), Level(tracer).access,
                      Level(tracer).contractSize, Level(tracer).oog)
           /\ TraceOp(tracer, op).keccak = tracer.keccak /\ TraceOp(tracer, op).calls = tracer.calls
           /\ TraceOp(tracer, op).lastOp = op
<1> DEFINE u == TraceOp(tracer, op)
<1>1. tracer \in TracerSet /\ Level(tracer) \in LevelSet /\ tracer.callsFromEntryPoint # <<>>
  BY TitleProperties DEF Levels
<1>2. /\ LastOnly(tracer, u) /\ u.keccak = tracer.keccak /\ u.lastOp = op /\ u.calls = tracer.calls
      /\ Level(u) = [Level(tracer) EXCEPT !.opcodes = Counted(op)]
  BY <1>1, TraceOpProperties DEF Counted
<1> HIDE DEF u
<1>3. Becomes(Level(u), Counted(op), Level(tracer).access, Level(tracer).contractSize, Level(tracer).oog)
  BY <1>1, <1>2 DEF Becomes, Title, LevelSet
<1> QED
  BY <1>2, <1>3 DEF u

LEMMA SizeThenOp ==
    ASSUME TypeInv, Levels # <<>>, NEW addr \in Addresses, NEW op \in OpCodes, NEW u,
           u = TraceOp(TraceSize(tracer, addr, CodeSize(addr)), op)
    PROVE  /\ LastOnly(tracer, u)
           /\ Becomes(Level(u), Counted(op), Level(tracer).access, Sized(addr), Level(tracer).oog)
           /\ u.keccak = tracer.keccak /\ u.calls = tracer.calls /\ u.lastOp = op
<1> DEFINE t == TraceSize(tracer, addr, CodeSize(addr))
<1>1. tracer \in TracerSet /\ Level(tracer) \in LevelSet /\ tracer.callsFromEntryPoint # <<>>
  BY TitleProperties DEF Levels
<1>2. CodeSize(addr) \in Sizes
  BY DEF CodeSize, Sizes
<1>3. /\ LastOnly(tracer, t) /\ t.keccak = tracer.keccak /\ t.lastOp = tracer.lastOp
      /\ t.calls = tracer.calls /\ Level(t) = [Level(tracer) EXCEPT !.contractSize = Sized(addr)]
  BY <1>1, <1>2, TraceSizeProperties DEF Sized
<1> HIDE DEF t
<1>4. t \in TracerSet /\ t.callsFromEntryPoint # <<>>
  BY <1>1, <1>3, LevelProperties DEF LastOnly
<1>5. /\ LastOnly(t, u) /\ u.keccak = t.keccak /\ u.lastOp = op /\ u.calls = t.calls
      /\ Level(u) = [Level(t) EXCEPT !.opcodes = CountSlot(Level(t).opcodes, CountedAt(t.lastOp, op))]
  BY <1>4, TraceOpProperties DEF t
<1>6. LastOnly(tracer, u)
  BY <1>1, <1>3, <1>5, LastOnlyTransitive
<1>7. Level(t) \in LevelSet
  BY <1>4, LevelProperties
<1>8. /\ Level(t).topLevelMethodSig = Title /\ Level(t).opcodes = Level(tracer).opcodes
      /\ Level(t).access = Level(tracer).access /\ Level(t).contractSize = Sized(addr)
      /\ Level(t).oog = Level(tracer).oog
  BY <1>1, <1>3 DEF LevelSet, Title
<1>9. Becomes(Level(u), CountSlot(Level(t).opcodes, CountedAt(t.lastOp, op)), Level(t).access,
              Level(t).contractSize, Level(t).oog)
  BY <1>5, <1>7, <1>8 DEF LevelSet, Becomes
<1> QED
  BY <1>3, <1>5, <1>6, <1>8, <1>9 DEF Counted

(* The collector after an instruction: op was counted, and calls appended. *)
Effect(opcodes, access, sizes, oog, calls, lastOp) ==
    /\ LastOnly(tracer, tracer')
    /\ Becomes(Level(tracer'), opcodes, access, sizes, oog)
    /\ tracer'.calls = calls /\ tracer'.lastOp = lastOp

LEMMA AppendedEffect ==
    ASSUME NEW t \in TracerSet, NEW c \in CallSet \cup ExitSet, LastOnly(tracer, t),
           tracer' = [t EXCEPT !.calls = Append(@, c)]
    PROVE  /\ LastOnly(tracer, tracer') /\ Level(tracer') = Level(t)
           /\ tracer'.calls = Append(t.calls, c) /\ tracer'.lastOp = t.lastOp
           /\ tracer'.keccak = t.keccak
<1>1. /\ tracer' \in TracerSet /\ tracer'.calls = Append(t.calls, c)
      /\ tracer'.callsFromEntryPoint = t.callsFromEntryPoint
      /\ tracer'.keccak = t.keccak /\ tracer'.lastOp = t.lastOp
  BY AppendCallProperties
<1> QED
  BY <1>1 DEF LastOnly, Level

LEMMA PlainEffect ==
    ASSUME TypeInv, Levels # <<>>, NEW op \in PlainOps, Plain(op)
    PROVE  /\ Effect(Counted(op), Level(tracer).access, Level(tracer).contractSize,
                     Level(tracer).oog, tracer.calls, op)
           /\ tracer'.keccak = tracer.keccak
           /\ Notes({<<"op", op>>} \cup LoneGas(op))
<1>1. op \in OpCodes /\ tracer' = TraceOp(tracer, op) /\ Instruction(op, {})
  BY DEF Plain, OpCodes
<1>2. Notes({} \cup {<<"op", op>>} \cup LoneGas(op))
  BY <1>1, NoteProperties DEF Instruction
<1>3. {} \cup {<<"op", op>>} \cup LoneGas(op) = {<<"op", op>>} \cup LoneGas(op)
  OBVIOUS
<1> QED
  BY <1>1, <1>2, <1>3, OpEffect DEF Effect

LEMMA KeccakEffect ==
    ASSUME TypeInv, Levels # <<>>, NEW input \in KeccakInputs, Keccak(input)
    PROVE  /\ Effect(Counted("KECCAK256"), Level(tracer).access, Level(tracer).contractSize,
                     Level(tracer).oog, tracer.calls, "KECCAK256")
           /\ tracer'.keccak = tracer.keccak \cup (IF input.len \in 21..511 THEN {input} ELSE {})
           /\ Notes({<<"keccak", input>>} \cup {<<"op", "KECCAK256">>} \cup LoneGas("KECCAK256"))
<1> DEFINE t == TraceOp(tracer, "KECCAK256")
<1>1. tracer' = TraceKeccak(t, input) /\ Instruction("KECCAK256", {<<"keccak", input>>})
  BY DEF Keccak
<1>2. "KECCAK256" \in OpCodes
  BY DEF OpCodes
<1>3. /\ LastOnly(tracer, t)
      /\ Becomes(Level(t), Counted("KECCAK256"), Level(tracer).access,
                 Level(tracer).contractSize, Level(tracer).oog)
      /\ t.keccak = tracer.keccak /\ t.calls = tracer.calls /\ t.lastOp = "KECCAK256"
  BY <1>2, OpEffect
<1> HIDE DEF t
<1>4. t \in TracerSet
  BY <1>3 DEF LastOnly
<1>5. /\ LastOnly(t, tracer') /\ tracer'.lastOp = t.lastOp /\ tracer'.calls = t.calls
      /\ tracer'.callsFromEntryPoint = t.callsFromEntryPoint
      /\ tracer'.keccak = t.keccak \cup (IF input.len \in 21..511 THEN {input} ELSE {})
  BY <1>1, <1>4, TraceKeccakProperties
<1>6. LastOnly(tracer, tracer') /\ Level(tracer') = Level(t)
  BY <1>3, <1>5 DEF LastOnly, Level
<1> QED
  BY <1>1, <1>3, <1>5, <1>6, NoteProperties DEF Effect, Instruction

LEMMA AccessEffect ==
    ASSUME TypeInv, Levels # <<>>, NEW op \in {"SLOAD", "SSTORE"}, NEW slot \in Slots,
           Access(op, slot)
    PROVE  /\ \E new : /\ AccessStep(Accessed(Level(tracer).access, Top.contract), new, op, slot,
                                     IF <<Top.contract, slot>> \in storage THEN "new" ELSE "old")
                       /\ Effect(Counted(op), Put(Level(tracer).access, Top.contract, new),
                                 Level(tracer).contractSize, Level(tracer).oog, tracer.calls, op)
           /\ tracer'.keccak = tracer.keccak
           /\ Notes({<<"access", <<Top.contract, slot>>>>} \cup {<<"op", op>>} \cup LoneGas(op))
<1> DEFINE t == TraceOp(tracer, op)
           value == IF <<Top.contract, slot>> \in storage THEN "new" ELSE "old"
<1>1. /\ tracer' = TraceAccess(t, op, Top.contract, slot, value)
      /\ Instruction(op, {<<"access", <<Top.contract, slot>>>>})
  BY DEF Access
<1>2. op \in OpCodes /\ value \in Values /\ Top.contract \in Addresses
  <2>1. Top \in FrameSet
    BY <1>1, TopProperties DEF Instruction
  <2> QED
    BY <2>1 DEF OpCodes, Values, FrameSet
<1>3. /\ LastOnly(tracer, t)
      /\ Becomes(Level(t), Counted(op), Level(tracer).access,
                 Level(tracer).contractSize, Level(tracer).oog)
      /\ t.keccak = tracer.keccak /\ t.calls = tracer.calls /\ t.lastOp = op
  BY <1>2, OpEffect
<1> HIDE DEF t, value
<1>4. t \in TracerSet /\ t.callsFromEntryPoint # <<>> /\ tracer \in TracerSet
      /\ tracer.callsFromEntryPoint # <<>>
  BY <1>3, TitleProperties DEF LastOnly, Levels
<1>5. /\ LastOnly(t, tracer') /\ tracer'.keccak = t.keccak /\ tracer'.lastOp = t.lastOp
      /\ tracer'.calls = t.calls
      /\ \E new : /\ AccessStep(Accessed(Level(t).access, Top.contract), new, op, slot, value)
                  /\ Level(tracer') = [Level(t) EXCEPT !.access = Put(Level(t).access, Top.contract, new)]
  BY <1>1, <1>2, <1>4, TraceAccessProperties
<1>6. LastOnly(tracer, tracer')
  BY <1>3, <1>4, <1>5, LastOnlyTransitive
<1>7. PICK new : /\ AccessStep(Accessed(Level(tracer).access, Top.contract), new, op, slot, value)
                 /\ Level(tracer') =
                       [Level(t) EXCEPT !.access = Put(Level(tracer).access, Top.contract, new)]
  BY <1>3, <1>5 DEF Becomes
<1>8. Becomes(Level(tracer'), Counted(op), Put(Level(tracer).access, Top.contract, new),
              Level(tracer).contractSize, Level(tracer).oog)
  <2>1. Level(t) \in LevelSet
    BY <1>4, LevelProperties
  <2> QED
    BY <1>3, <1>7, <2>1 DEF Becomes, LevelSet
<1>9. Effect(Counted(op), Put(Level(tracer).access, Top.contract, new),
             Level(tracer).contractSize, Level(tracer).oog, tracer.calls, op)
  BY <1>3, <1>5, <1>6, <1>8 DEF Effect
<1>10. Notes({<<"access", <<Top.contract, slot>>>>} \cup {<<"op", op>>} \cup LoneGas(op))
  BY <1>1, NoteProperties DEF Instruction
<1> QED
  BY <1>3, <1>5, <1>7, <1>9, <1>10 DEF value

LEMMA ExtCodeEffect ==
    ASSUME TypeInv, Levels # <<>>, NEW addr \in ExternalOps, ExtCode(addr)
    PROVE  /\ Effect(Counted("EXTCODESIZE"), Level(tracer).access, Sized(addr),
                     Level(tracer).oog, tracer.calls, "EXTCODESIZE")
           /\ tracer'.keccak = tracer.keccak
           /\ Notes(Touch(addr) \cup {<<"op", "EXTCODESIZE">>} \cup LoneGas("EXTCODESIZE"))
<1>1. /\ tracer' = TraceOp(TraceSize(tracer, addr, CodeSize(addr)), "EXTCODESIZE")
      /\ Instruction("EXTCODESIZE", Touch(addr))
  BY DEF ExtCode
<1>2. "EXTCODESIZE" \in OpCodes /\ addr \in Addresses
  BY DEF OpCodes, Addresses
<1> QED
  BY <1>1, <1>2, SizeThenOp, NoteProperties DEF Effect, Instruction

(* The entry of a call that an entity makes. *)
CallOf(type, from, to, method) == [type |-> type, from |-> from, to |-> to, method |-> method]

LEMMA NestedCallEffect ==
    ASSUME TypeInv, Levels # <<>>, NEW call \in NestedCalls, NestedCall(call)
    PROVE  /\ Effect(Counted(call.type), Level(tracer).access, Sized(call.to), Level(tracer).oog,
                     Append(tracer.calls, CallOf(call.type, Top.contract, call.to, call.method)),
                     call.type)
           /\ tracer'.keccak = tracer.keccak
           /\ CallOf(call.type, Top.contract, call.to, call.method) \in CallSet
           /\ Notes(Touch(call.to) \cup {<<"call", Top.contract, call.to, call.method>>}
                        \cup {<<"op", call.type>>} \cup LoneGas(call.type))
<1> DEFINE t == TraceOp(TraceSize(tracer, call.to, CodeSize(call.to)), call.type)
           c == CallOf(call.type, Top.contract, call.to, call.method)
<1>1. /\ tracer' = [t EXCEPT !.calls = Append(@, c)]
      /\ Instruction(call.type, Touch(call.to) \cup {<<"call", Top.contract, call.to, call.method>>})
  BY DEF NestedCall, TraceEnter, CallOf
<1>2. /\ call.type \in CallTypes /\ call.type \in OpCodes /\ call.to \in Addresses
      /\ call.method \in Methods
  BY StepAssumption DEF OpCodes, CallTypes, Addresses, Methods
<1>3. Top.contract \in Addresses
  BY <1>1, TopProperties DEF Instruction, FrameSet
<1>4. c \in CallSet
  BY <1>2, <1>3 DEF CallSet, CallOf
<1>5. /\ LastOnly(tracer, t)
      /\ Becomes(Level(t), Counted(call.type), Level(tracer).access, Sized(call.to), Level(tracer).oog)
      /\ t.keccak = tracer.keccak /\ t.calls = tracer.calls /\ t.lastOp = call.type
  BY <1>2, SizeThenOp
<1> HIDE DEF t, c
<1>6. t \in TracerSet
  BY <1>5 DEF LastOnly
<1>7. /\ LastOnly(tracer, tracer') /\ Level(tracer') = Level(t)
      /\ tracer'.calls = Append(t.calls, c) /\ tracer'.lastOp = t.lastOp
      /\ tracer'.keccak = t.keccak
  BY <1>1, <1>4, <1>5, <1>6, AppendedEffect
<1>8. Effect(Counted(call.type), Level(tracer).access, Sized(call.to), Level(tracer).oog,
             Append(tracer.calls, c), call.type)
  BY <1>5, <1>7 DEF Effect
<1> QED
  BY <1>1, <1>4, <1>5, <1>7, <1>8, NoteProperties DEF Instruction, c

LEMMA CallFactoryEffect ==
    ASSUME TypeInv, Levels # <<>>, CallFactory
    PROVE  /\ Effect(Counted("CALL"), Level(tracer).access, Sized(Factory), Level(tracer).oog,
                     Append(tracer.calls, CallOf("CALL", Creator, Factory, "createAccount")), "CALL")
           /\ tracer'.keccak = tracer.keccak
           /\ CallOf("CALL", Creator, Factory, "createAccount") \in CallSet
           /\ Notes({<<"called">>})
<1> DEFINE t == TraceOp(TraceSize(tracer, Factory, CodeSize(Factory)), "CALL")
           c == CallOf("CALL", Creator, Factory, "createAccount")
<1>1. tracer' = [t EXCEPT !.calls = Append(@, c)] /\ Note({<<"called">>})
  BY DEF CallFactory, TraceEnter, CallOf
<1>2. "CALL" \in CallTypes /\ "CALL" \in OpCodes /\ Factory \in Addresses /\ Creator \in Addresses
      /\ "createAccount" \in Methods
  BY DEF OpCodes, CallTypes, CallOps, Addresses, Existing, Methods
<1>3. c \in CallSet
  BY <1>2 DEF CallSet, CallOf
<1>4. /\ LastOnly(tracer, t)
      /\ Becomes(Level(t), Counted("CALL"), Level(tracer).access, Sized(Factory), Level(tracer).oog)
      /\ t.keccak = tracer.keccak /\ t.calls = tracer.calls /\ t.lastOp = "CALL"
  BY <1>2, SizeThenOp
<1> HIDE DEF t, c
<1>5. t \in TracerSet
  BY <1>4 DEF LastOnly
<1>6. /\ LastOnly(tracer, tracer') /\ Level(tracer') = Level(t)
      /\ tracer'.calls = Append(t.calls, c) /\ tracer'.lastOp = t.lastOp
      /\ tracer'.keccak = t.keccak
  BY <1>1, <1>3, <1>4, <1>5, AppendedEffect
<1> QED
  BY <1>1, <1>3, <1>4, <1>6, NoteProperties DEF Effect, c

(* What CREATE2 makes: the account, or an address nobody knows. *)
Made == IF Top.contract = Factory /\ Sender \notin deployed THEN Sender ELSE Codeless
Again == IF <<Title, <<"op", "CREATE2">>>> \in did THEN {<<"second CREATE2">>} ELSE {}

LEMMA Create2Effect ==
    ASSUME TypeInv, Levels # <<>>, Create2
    PROVE  /\ Effect(Counted("CREATE2"), Level(tracer).access, Level(tracer).contractSize,
                     Level(tracer).oog,
                     Append(tracer.calls, CallOf("CREATE2", Top.contract, Made, "")), "CREATE2")
           /\ tracer'.keccak = tracer.keccak
           /\ CallOf("CREATE2", Top.contract, Made, "") \in CallSet
           /\ Notes(Again \cup {<<"op", "CREATE2">>} \cup LoneGas("CREATE2"))
<1> DEFINE t == TraceOp(tracer, "CREATE2")
           c == CallOf("CREATE2", Top.contract, Made, "")
<1>1. tracer' = [t EXCEPT !.calls = Append(@, c)] /\ Instruction("CREATE2", Again)
  BY DEF Create2, TraceEnter, CallOf, Made, Again
<1>2. /\ "CREATE2" \in CallTypes /\ "CREATE2" \in OpCodes /\ Made \in Addresses
      /\ "" \in Methods
  BY DEF OpCodes, CallTypes, Made, Addresses, Existing, Methods
<1>3. Top.contract \in Addresses
  BY <1>1, TopProperties DEF Instruction, FrameSet
<1>4. c \in CallSet
  BY <1>2, <1>3 DEF CallSet, CallOf
<1>5. /\ LastOnly(tracer, t)
      /\ Becomes(Level(t), Counted("CREATE2"), Level(tracer).access, Level(tracer).contractSize,
                 Level(tracer).oog)
      /\ t.keccak = tracer.keccak /\ t.calls = tracer.calls /\ t.lastOp = "CREATE2"
  BY <1>2, OpEffect
<1> HIDE DEF t, c
<1>6. t \in TracerSet
  BY <1>5 DEF LastOnly
<1>7. /\ LastOnly(tracer, tracer') /\ Level(tracer') = Level(t)
      /\ tracer'.calls = Append(t.calls, c) /\ tracer'.lastOp = t.lastOp
      /\ tracer'.keccak = t.keccak
  BY <1>1, <1>4, <1>5, <1>6, AppendedEffect
<1> QED
  BY <1>1, <1>4, <1>5, <1>7, NoteProperties DEF Instruction, Effect, c

(* The last thing a frame executes, and what its end is noted as. *)
EndOp(how) == IF how = "OUT OF GAS" THEN "ADD" ELSE how
Failed(how) == IF how # "RETURN" THEN {<<"failed", Top.to, Top.method>>} ELSE {}
ExitOf(how, data) == [type |-> IF how # "RETURN" THEN "REVERT" ELSE "RETURN", data |-> Kept(data)]
EndNotes(how, data) ==
    LoneGas(how) \cup Failed(how)
        \cup {<<what>> : what \in {how} \cap {"OUT OF GAS"}} \cup Returned(data)

LEMMA EndFrameEffect ==
    ASSUME TypeInv, Levels # <<>>, NEW how \in {"RETURN", "REVERT", "OUT OF GAS"}, NEW data \in Returns,
           EndFrame(how, data)
    PROVE  /\ Effect(IF Top.runs THEN Counted(EndOp(how)) ELSE Level(tracer).opcodes,
                     Level(tracer).access, Level(tracer).contractSize,
                     IF how = "OUT OF GAS" THEN TRUE ELSE Level(tracer).oog,
                     Append(tracer.calls, ExitOf(how, data)),
                     IF Top.runs THEN EndOp(how) ELSE tracer.lastOp)
           /\ tracer'.keccak = tracer.keccak /\ ExitOf(how, data) \in ExitSet
           /\ Notes(EndNotes(how, data))
<1> DEFINE t == IF ~Top.runs THEN tracer
                ELSE IF how = "OUT OF GAS" THEN TraceOutOfGas(TraceOp(tracer, "ADD"))
                ELSE TraceOp(tracer, how)
           c == ExitOf(how, data)
           opcodes == IF Top.runs THEN Counted(EndOp(how)) ELSE Level(tracer).opcodes
           oog == IF how = "OUT OF GAS" THEN TRUE ELSE Level(tracer).oog
           lastOp == IF Top.runs THEN EndOp(how) ELSE tracer.lastOp
<1>1. /\ tracer' = [t EXCEPT !.calls = Append(@, c)]
      /\ Note(EndNotes(how, data))
      /\ frames # <<>> /\ (~Top.runs => how = "RETURN")
  BY DEF EndFrame, TraceExit, ExitOf, Failed, EndNotes
<1>2. EndOp(how) \in OpCodes /\ c \in ExitSet /\ Top.runs \in BOOLEAN
  BY <1>1, TopProperties DEF OpCodes, EndOp, ExitOf, ExitSet, FrameSet, Kept, Returns, Data
<1>3. /\ LastOnly(tracer, t)
      /\ Becomes(Level(t), opcodes, Level(tracer).access, Level(tracer).contractSize, oog)
      /\ t.keccak = tracer.keccak /\ t.calls = tracer.calls /\ t.lastOp = lastOp
  <2>1. CASE ~Top.runs
    <3>1. t = tracer /\ opcodes = Level(tracer).opcodes /\ oog = Level(tracer).oog
          /\ lastOp = tracer.lastOp
      BY <1>1, <2>1
    <3>2. tracer \in TracerSet
      BY DEF TypeInv
    <3> HIDE DEF t, opcodes, oog, lastOp
    <3> QED
      BY <3>1, <3>2 DEF LastOnly, Becomes, Title
  <2>2. CASE Top.runs /\ how # "OUT OF GAS"
    <3>1. t = TraceOp(tracer, how) /\ opcodes = Counted(how) /\ oog = Level(tracer).oog
          /\ lastOp = how /\ how \in OpCodes
      BY <1>2, <2>2 DEF EndOp
    <3> HIDE DEF t, opcodes, oog, lastOp
    <3> QED
      BY <3>1, OpEffect
  <2>3. CASE Top.runs /\ how = "OUT OF GAS"
    <3> DEFINE u == TraceOp(tracer, "ADD")
    <3>1. t = TraceOutOfGas(u) /\ opcodes = Counted("ADD") /\ oog = TRUE
          /\ lastOp = "ADD" /\ "ADD" \in OpCodes
      BY <1>2, <2>3 DEF EndOp
    <3> HIDE DEF t, opcodes, oog, lastOp
    <3>2. /\ LastOnly(tracer, u)
          /\ Becomes(Level(u), Counted("ADD"), Level(tracer).access, Level(tracer).contractSize,
                     Level(tracer).oog)
          /\ u.keccak = tracer.keccak /\ u.calls = tracer.calls /\ u.lastOp = "ADD"
      BY <3>1, OpEffect
    <3> HIDE DEF u
    <3>3. u \in TracerSet /\ u.callsFromEntryPoint # <<>> /\ tracer \in TracerSet
          /\ tracer.callsFromEntryPoint # <<>>
      BY <3>2, TitleProperties DEF LastOnly, Levels
    <3>4. /\ LastOnly(u, t) /\ t.keccak = u.keccak /\ t.lastOp = u.lastOp /\ t.calls = u.calls
          /\ Level(t) = [Level(u) EXCEPT !.oog = TRUE] /\ Level(u) \in LevelSet
      BY <3>1, <3>3, TraceOutOfGasProperties, LevelProperties
    <3>5. LastOnly(tracer, t)
      BY <3>2, <3>3, <3>4, LastOnlyTransitive
    <3>6. Becomes(Level(t), opcodes, Level(tracer).access, Level(tracer).contractSize, oog)
      BY <3>1, <3>2, <3>4 DEF Becomes, LevelSet
    <3> QED
      BY <3>1, <3>2, <3>4, <3>5, <3>6
  <2> QED
    BY <1>2, <2>1, <2>2, <2>3
<1> HIDE DEF t, c, opcodes, oog, lastOp
<1>4. t \in TracerSet
  BY <1>3 DEF LastOnly
<1>5. /\ LastOnly(tracer, tracer') /\ Level(tracer') = Level(t)
      /\ tracer'.calls = Append(t.calls, c) /\ tracer'.lastOp = t.lastOp
      /\ tracer'.keccak = t.keccak
  BY <1>1, <1>2, <1>3, <1>4, AppendedEffect
<1>6. Effect(opcodes, Level(tracer).access, Level(tracer).contractSize, oog, Append(tracer.calls, c), lastOp)
  BY <1>3, <1>5 DEF Effect
<1> QED
  BY <1>1, <1>2, <1>3, <1>5, <1>6, NoteProperties DEF c, opcodes, oog, lastOp

---------------------------------------------------------------------------
(* The levels: only the last one changes, and what is noted is of it.      *)

LEMMA LevelsAfter ==
    ASSUME TypeInv, Levels # <<>>, LastOnly(tracer, tracer')
    PROVE  /\ tracer' \in TracerSet /\ Len(Levels') = Len(Levels) /\ Levels' # <<>>
           /\ DOMAIN Levels = 1..Len(Levels) /\ DOMAIN Levels' = 1..Len(Levels)
           /\ Len(Levels) \in Nat \ {0} /\ Levels' \in Seq(LevelSet) /\ Levels \in Seq(LevelSet)
           /\ Level(tracer') = Levels'[Len(Levels)] /\ Level(tracer') \in LevelSet
           /\ \A i \in 1..Len(Levels) : i # Len(Levels) => Levels'[i] = Levels[i]
<1>1. /\ tracer \in TracerSet /\ tracer' \in TracerSet /\ Len(Levels') = Len(Levels)
      /\ \A i \in 1..(Len(Levels) - 1) : Levels'[i] = Levels[i]
  BY DEF LastOnly, Levels, TypeInv
<1>2. Levels \in Seq(LevelSet) /\ Levels' \in Seq(LevelSet)
  BY <1>1 DEF TracerSet, Levels
<1>3. Level(tracer') = Levels'[Len(Levels')]
  BY DEF Level, Levels
<1> QED
  BY <1>1, <1>2, <1>3

(* The sigs of the levels stay, and no two are the same. *)
LEMMA SigsDiffer ==
    ASSUME TypeInv, PhaseInv
    PROVE  \A i, j \in DOMAIN Levels :
              Levels[i].topLevelMethodSig = Levels[j].topLevelMethodSig => i = j
<1>1. OncePerEntity(userOp, Phases(userOp))
  BY PhasesProperties DEF TypeInv
<1>2. Levels \in Seq(LevelSet)
  BY DEF TypeInv, TracerSet, Levels
<1> DEFINE p == Phases(userOp)
<1>3. Len(Levels) <= Len(p) /\ \A i \in DOMAIN Levels : Levels[i].topLevelMethodSig = p[i]
  BY DEF PhaseInv
<1> HIDE DEF p
<1>4. p \in Seq(PhaseSigs) /\ \A i, j \in 1..Len(p) : p[i] = p[j] => i = j
  BY <1>1 DEF OncePerEntity, p
<1>5. DOMAIN Levels = 1..Len(Levels) /\ Len(Levels) \in Nat /\ Len(p) \in Nat
  BY <1>2, <1>4
<1> QED
  BY <1>3, <1>4, <1>5

LEMMA LevelStep ==
    ASSUME TypeInv, PhaseInv, LevelInv, Levels # <<>>, NEW N, Notes(N), LastOnly(tracer, tracer'),
           OpcodesKept(Level(tracer))', SizesKept(Level(tracer))', AccessKept(Level(tracer))'
    PROVE  LevelInv'
<1>0. DOMAIN Levels = 1..Len(Levels) /\ Len(Levels) \in Nat \ {0}
  BY LevelsAfter
<1>1. /\ DOMAIN Levels' = 1..Len(Levels) /\ Level(tracer') = Levels'[Len(Levels)]
      /\ \A i \in 1..Len(Levels) : i # Len(Levels) => Levels'[i] = Levels[i]
  BY LevelsAfter
<1>2. Title = Levels[Len(Levels)].topLevelMethodSig
  BY TitleProperties DEF Title
<1> SUFFICES ASSUME NEW i \in 1..Len(Levels)
             PROVE  (OpcodesKept(Levels[i]) /\ SizesKept(Levels[i]) /\ AccessKept(Levels[i]))'
  BY <1>1 DEF LevelInv
<1>3. CASE i = Len(Levels)
  <2>1. Level(tracer') = Levels'[i]
    BY <1>1, <1>3
  <2> QED
    BY <2>1 DEF OpcodesKept, SizesKept, AccessKept, Noted, Met
<1>4. CASE i # Len(Levels)
  <2>1. Levels'[i] = Levels[i] /\ Levels[i].topLevelMethodSig # Title
    <3>1. i \in DOMAIN Levels /\ Len(Levels) \in DOMAIN Levels
      BY <1>0
    <3>2. Levels[i].topLevelMethodSig # Levels[Len(Levels)].topLevelMethodSig
      BY <1>4, <3>1, SigsDiffer
    <3> QED
      BY <1>1, <1>2, <1>4, <3>2
  <2>2. \A fact : <<Levels[i].topLevelMethodSig, fact>> \in did'
                     <=> <<Levels[i].topLevelMethodSig, fact>> \in did
    BY <2>1 DEF Notes
  <2>3. OpcodesKept(Levels[i]) /\ SizesKept(Levels[i]) /\ AccessKept(Levels[i])
    BY <1>0 DEF LevelInv
  <2>4. OpcodesKept(Levels[i])'
    BY <2>1, <2>2, <2>3 DEF OpcodesKept, Noted
  <2>5. SizesKept(Levels[i])'
    BY <2>1, <2>2, <2>3 DEF SizesKept, Noted
  <2>6. AccessKept(Levels[i])'
    BY <2>1, <2>2, <2>3 DEF AccessKept, Noted, Met
  <2> QED
    BY <2>4, <2>5, <2>6
<1> QED
  BY <1>3, <1>4

(* The last level satisfies its invariant before the step. *)
LEMMA LastLevel ==
    ASSUME TypeInv, LevelInv, Levels # <<>>
    PROVE  OpcodesKept(Level(tracer)) /\ SizesKept(Level(tracer)) /\ AccessKept(Level(tracer))
BY TitleProperties DEF LevelInv

(* An instruction is counted as it is noted. *)
NotedOp(op, N) ==
    /\ <<"lone GAS">> \in N <=> tracer.lastOp = "GAS" /\ ~NamedCall(op)
    /\ \A o \in {"TIMESTAMP", "BALANCE", "CREATE", "CREATE2"} : <<"op", o>> \in N <=> o = op
    /\ <<"second CREATE2">> \in N <=> op = "CREATE2" /\ Noted(Level(tracer), <<"op", "CREATE2">>)
    /\ Level(tracer').oog <=> Level(tracer).oog \/ <<"OUT OF GAS">> \in N

LEMMA OpcodesStep ==
    ASSUME TypeInv, LevelInv, Levels # <<>>, NEW op, NEW N, Notes(N), NotedOp(op, N),
           Level(tracer').topLevelMethodSig = Title,
           Level(tracer').opcodes = Counted(op)
    PROVE  OpcodesKept(Level(tracer))'
<1> DEFINE old == Level(tracer).opcodes
           new == Level(tracer').opcodes
           keys == CountedAt(tracer.lastOp, op)
<1>1. \A k \in DOMAIN old : old[k] \in Nat \ {0}
  <2>1. old \in Fcts(OpCodes, Nat \ {0})
    BY TitleProperties DEF LevelSet
  <2> HIDE DEF old
  <2> QED
    BY <2>1, FctsElement, Zenon
<1>2. new = CountSlot(old, keys)
  BY DEF Counted
<1> HIDE DEF old, new, keys
<1>3. /\ DOMAIN new = DOMAIN old \cup keys
      /\ \A k \in DOMAIN old : k \notin keys => new[k] = old[k]
      /\ \A k \in keys : new[k] = IF k \in DOMAIN old THEN old[k] + 1 ELSE 1
  <2>1. /\ DOMAIN CountSlot(old, keys) = DOMAIN old \cup keys
        /\ \A k \in DOMAIN old : k \notin keys => CountSlot(old, keys)[k] = old[k]
        /\ \A k \in keys : CountSlot(old, keys)[k] = IF k \in DOMAIN old THEN old[k] + 1 ELSE 1
    BY <1>1, CountSlotProperties
  <2> QED
    BY <1>2, <2>1
<1>4. OpcodesKept(Level(tracer))
  BY LastLevel
<1>5. \A fact : <<Level(tracer').topLevelMethodSig, fact>> \in did'
                   <=> Noted(Level(tracer), fact) \/ fact \in N
  BY DEF Notes, Noted, Title
<1>6. "GAS" \in keys <=> tracer.lastOp = "GAS" /\ ~NamedCall(op)
  BY DEF keys, CountedAt
<1>7. \A o \in {"TIMESTAMP", "BALANCE", "CREATE", "CREATE2"} : o \in keys <=> o = op
  BY DEF keys, CountedAt, Unimportant
<1>8. Noted(Level(tracer), <<"lone GAS">>)' <=> "GAS" \in DOMAIN new
  BY <1>3, <1>4, <1>5, <1>6 DEF OpcodesKept, Noted, NotedOp, old
<1>9. ASSUME NEW o \in {"TIMESTAMP", "BALANCE", "CREATE", "CREATE2"}
      PROVE  Noted(Level(tracer), <<"op", o>>)' <=> o \in DOMAIN new
  BY <1>3, <1>4, <1>5, <1>7 DEF OpcodesKept, Noted, NotedOp, old
<1>10. Noted(Level(tracer), <<"second CREATE2">>)' <=>
           "CREATE2" \in DOMAIN new /\ new["CREATE2"] > 1
  <2>1. CASE op # "CREATE2"
    <3>1. "CREATE2" \notin keys /\ <<"second CREATE2">> \notin N
      BY <1>7, <2>1 DEF NotedOp
    <3> QED
      BY <1>3, <1>4, <1>5, <3>1 DEF OpcodesKept, Noted, old
  <2>2. CASE op = "CREATE2"
    <3>1. "CREATE2" \in keys
      BY <1>7, <2>2
    <3>2. new["CREATE2"] > 1 <=> "CREATE2" \in DOMAIN old
      <4>1. CASE "CREATE2" \in DOMAIN old
        <5>1. new["CREATE2"] = old["CREATE2"] + 1 /\ old["CREATE2"] \in Nat \ {0}
          BY <1>1, <1>3, <3>1, <4>1
        <5>2. new["CREATE2"] > 1
          BY <5>1
        <5> QED
          BY <4>1, <5>2, Zenon
      <4>2. CASE "CREATE2" \notin DOMAIN old
        <5>1. new["CREATE2"] = 1
          BY <1>3, <3>1, <4>2
        <5>2. ~(new["CREATE2"] > 1)
          BY <5>1
        <5> QED
          BY <4>2, <5>2, Zenon
      <4> QED
        BY <4>1, <4>2
    <3>3. <<"second CREATE2">> \in N <=> "CREATE2" \in DOMAIN old
      BY <1>4, <2>2 DEF OpcodesKept, NotedOp, old
    <3>4. Noted(Level(tracer), <<"second CREATE2">>) => "CREATE2" \in DOMAIN old
      BY <1>4 DEF OpcodesKept, old
    <3> QED
      BY <1>3, <1>5, <3>1, <3>2, <3>3, <3>4 DEF Noted
  <2> QED
    BY <2>1, <2>2
<1>11. Noted(Level(tracer), <<"OUT OF GAS">>)' <=> Level(tracer').oog
  BY <1>4, <1>5 DEF OpcodesKept, Noted, NotedOp
<1> QED
  BY <1>8, <1>9, <1>10, <1>11 DEF OpcodesKept, new

(* Sizes: an account is looked at, or none is. *)
NotedSize(addr, N) ==
    \A a : /\ <<"no code", a>> \in N <=> a = addr /\ addr \notin deployed \cup {Stub, Precompile}
           /\ <<"small code", a>> \in N <=> a = addr /\ addr = Stub
NoSizeNoted(N) == \A addr : <<"no code", addr>> \notin N /\ <<"small code", addr>> \notin N

LEMMA SizesStay ==
    ASSUME TypeInv, LevelInv, Levels # <<>>, NEW N, Notes(N),
           NoSizeNoted(N),
           Level(tracer').topLevelMethodSig = Title,
           Level(tracer').contractSize = Level(tracer).contractSize
    PROVE  SizesKept(Level(tracer))'
<1>1. SizesKept(Level(tracer))
  BY LastLevel
<1>2. \A fact : <<Level(tracer').topLevelMethodSig, fact>> \in did'
                   <=> Noted(Level(tracer), fact) \/ fact \in N
  BY DEF Notes, Noted, Title
<1> QED
  BY <1>1, <1>2 DEF SizesKept, Noted, NoSizeNoted

LEMMA SizesStep ==
    ASSUME TypeInv, LevelInv, FrameInv, Levels # <<>>, NEW N, Notes(N), NEW addr \in Addresses,
           NotedSize(addr, N),
           Level(tracer').topLevelMethodSig = Title,
           Level(tracer').contractSize = Sized(addr)
    PROVE  SizesKept(Level(tracer))'
<1> DEFINE old == Level(tracer).contractSize
           new == Level(tracer').contractSize
<1>1. SizesKept(Level(tracer))
  BY LastLevel
<1>2. \A fact : <<Level(tracer').topLevelMethodSig, fact>> \in did'
                   <=> Noted(Level(tracer), fact) \/ fact \in N
  BY DEF Notes, Noted, Title
<1>3. IF (addr \in DOMAIN old /\ old[addr] # 0) \/ addr = Precompile
      THEN new = old ELSE new = Put(old, addr, CodeSize(addr))
  BY DEF Sized, Known
<1>4. \A a \in Addresses \ {Sender} : a \in deployed <=> a \in Existing
  BY DEF FrameInv
<1>5. \A a \in Addresses \ {Sender} : CodeSize(a) = SizeOf(a)
  BY <1>4 DEF CodeSize, SizeOf
<1>6. \A a \in Addresses \ {Sender} :
        /\ Noted(Level(tracer), <<"no code", a>>) <=> a \in DOMAIN old /\ a \notin Existing
        /\ Noted(Level(tracer), <<"small code", a>>) <=> a \in DOMAIN old /\ a = Stub
        /\ a \in DOMAIN old => old[a] = SizeOf(a)
  BY <1>1 DEF SizesKept
<1>11. ~Noted(Level(tracer), <<"small code", Sender>>)'
  BY <1>1, <1>2, Distinct DEF SizesKept, Noted, NotedSize
<1> SUFFICES ASSUME NEW a \in Addresses \ {Sender}
             PROVE  /\ Noted(Level(tracer), <<"no code", a>>)' <=> a \in DOMAIN new /\ a \notin Existing
                    /\ Noted(Level(tracer), <<"small code", a>>)' <=> a \in DOMAIN new /\ a = Stub
                    /\ a \in DOMAIN new => new[a] = SizeOf(a)
  BY <1>11 DEF SizesKept, SizeOf, Existing, Addresses
<1> HIDE DEF old, new
<1>7. /\ Noted(Level(tracer), <<"no code", a>>)' <=>
            Noted(Level(tracer), <<"no code", a>>) \/ (a = addr /\ a \notin Existing \cup {Precompile})
      /\ Noted(Level(tracer), <<"small code", a>>)' <=>
            Noted(Level(tracer), <<"small code", a>>) \/ (a = addr /\ a = Stub)
  BY <1>2, <1>4 DEF Noted, NotedSize, Existing
<1>8. CASE addr = Precompile
  <2>1. new = old /\ addr # Stub
    BY <1>3, <1>8, Distinct DEF Existing
  <2> QED
    BY <1>6, <1>7, <1>8, <2>1
<1>9. CASE addr # Precompile /\ a # addr
  <2>1. (a \in DOMAIN new <=> a \in DOMAIN old) /\ (a \in DOMAIN old => new[a] = old[a])
    BY <1>3, <1>9 DEF Put
  <2> QED
    BY <1>6, <1>7, <1>9, <2>1
<1>10. CASE addr # Precompile /\ a = addr
  <2>1. a \in DOMAIN new
    BY <1>3, <1>10 DEF Put
  <2>2. new[a] = SizeOf(a)
    <3>1. CASE a \in DOMAIN old /\ old[a] # 0
      BY <1>3, <1>6, <1>10, <3>1
    <3>2. CASE ~(a \in DOMAIN old /\ old[a] # 0)
      <4>1. new = Put(old, a, CodeSize(a))
        BY <1>3, <1>10, <3>2
      <4>2. new[a] = CodeSize(a)
        BY <4>1 DEF Put
      <4> QED
        BY <1>5, <4>2
    <3> QED
      BY <3>1, <3>2
  <2>3. Noted(Level(tracer), <<"no code", a>>)' <=> a \notin Existing
    BY <1>6, <1>7, <1>10
  <2>4. Noted(Level(tracer), <<"small code", a>>)' <=> a = Stub
    BY <1>6, <1>7, <1>10
  <2> QED
    BY <2>1, <2>2, <2>3, <2>4
<1> QED
  BY <1>8, <1>9, <1>10

(* Slots: one is read or written, or none is. *)
NotedAccess(contract, slot, N) ==
    \A where : <<"access", where>> \in N <=> where = <<contract, slot>>
NoAccessNoted(N) == \A where : <<"access", where>> \notin N

LEMMA AccessStays ==
    ASSUME TypeInv, LevelInv, Levels # <<>>, NEW N, Notes(N),
           NoAccessNoted(N),
           Level(tracer').topLevelMethodSig = Title, Level(tracer').access = Level(tracer).access
    PROVE  AccessKept(Level(tracer))'
<1>1. AccessKept(Level(tracer))
  BY LastLevel
<1>2. \A fact : <<Level(tracer').topLevelMethodSig, fact>> \in did'
                   <=> Noted(Level(tracer), fact) \/ fact \in N
  BY DEF Notes, Noted, Title
<1> QED
  BY <1>1, <1>2 DEF AccessKept, Noted, Met, NoAccessNoted

LEMMA AccessKeeps ==
    ASSUME TypeInv, LevelInv, Levels # <<>>, NEW N, Notes(N), NEW contract \in Addresses,
           NEW slot \in Slots, NEW op, NEW value, NEW new,
           NotedAccess(contract, slot, N),
           AccessStep(Accessed(Level(tracer).access, contract), new, op, slot, value),
           Level(tracer').topLevelMethodSig = Title,
           Level(tracer').access = Put(Level(tracer).access, contract, new)
    PROVE  AccessKept(Level(tracer))'
<1> DEFINE a == Level(tracer).access
           b == Level(tracer').access
           old == Accessed(a, contract)
<1>1. AccessKept(Level(tracer))
  BY LastLevel
<1>2. \A fact : <<Level(tracer').topLevelMethodSig, fact>> \in did'
                   <=> Noted(Level(tracer), fact) \/ fact \in N
  BY DEF Notes, Noted, Title
<1>3. a \in Fcts(Addresses, AccessSet)
  BY TitleProperties DEF LevelSet
<1>4. /\ contract \notin DOMAIN a => DOMAIN old.reads = {} /\ DOMAIN old.writes = {}
      /\ contract \in DOMAIN a => old = a[contract]
  <2> HIDE DEF a
  <2> QED
    BY <1>3, AccessedProperties
<1>5. DOMAIN new.reads \cup DOMAIN new.writes = DOMAIN old.reads \cup DOMAIN old.writes \cup {slot}
  BY DEF AccessStep
<1> HIDE DEF old
<1>6. /\ DOMAIN b = DOMAIN a \cup {contract} /\ b[contract] = new
      /\ \A c \in DOMAIN a : c # contract => b[c] = a[c]
  <2>1. b = Put(a, contract, new)
    OBVIOUS
  <2> HIDE DEF a, b
  <2> QED
    BY <2>1 DEF Put
<1>7. \A addr, s : Met(Level(tracer), addr, s)' <=>
                       Met(Level(tracer), addr, s) \/ (addr = contract /\ s = slot)
  BY <1>4, <1>5, <1>6 DEF Met
<1>8. \A addr \in Addresses, s \in Slots :
          Noted(Level(tracer), <<"access", <<addr, s>>>>)' <=>
              Noted(Level(tracer), <<"access", <<addr, s>>>>) \/ (addr = contract /\ s = slot)
  BY <1>2 DEF Noted, NotedAccess
<1>9. \A addr \in Addresses, s \in Slots :
          Noted(Level(tracer), <<"access", <<addr, s>>>>)' <=> Met(Level(tracer), addr, s)'
  BY <1>1, <1>7, <1>8 DEF AccessKept
<1>10. \A addr \in DOMAIN b : \E s \in Slots : Met(Level(tracer), addr, s)'
  BY <1>1, <1>6, <1>7 DEF AccessKept
<1> QED
  BY <1>9, <1>10 DEF AccessKept

---------------------------------------------------------------------------
(* LevelInv, action by action.                                             *)

LEMMA LoneGasProperties ==
    ASSUME TypeInv, FrameInv, frames # <<>>, NEW op
    PROVE  LoneGas(op) = IF tracer.lastOp = "GAS" /\ ~NamedCall(op) THEN {<<"lone GAS">>} ELSE {}
BY DEF LoneGas, FrameInv

(* What is noted at an instruction besides S is its opcode and a lone GAS. *)
Besides(S, N, op, lone) ==
    /\ <<"lone GAS">> \in N <=> lone
    /\ \A o : <<"op", o>> \in N <=> o = op
    /\ <<"OUT OF GAS">> \notin N
    /\ <<"second CREATE2">> \in N <=> <<"second CREATE2">> \in S
    /\ \A a : <<"no code", a>> \in N <=> <<"no code", a>> \in S
    /\ \A a : <<"small code", a>> \in N <=> <<"small code", a>> \in S
    /\ \A w : <<"access", w>> \in N <=> <<"access", w>> \in S

LEMMA BesidesFacts ==
    ASSUME NEW op, NEW lone, NEW S, \A x \in S : x[1] \notin {"lone GAS", "op", "OUT OF GAS"},
           NEW L, L = IF lone THEN {<<"lone GAS">>} ELSE {}, NEW N, N = S \cup {<<"op", op>>} \cup L
    PROVE  Besides(S, N, op, lone)
<1>1. <<"lone GAS">> \in N <=> lone
  <2>1. <<"lone GAS">>[1] = "lone GAS"
    OBVIOUS
  <2> QED
    BY <2>1
<1>2. \A o : <<"op", o>> \in N <=> o = op
  <2>1. \A o : <<"op", o>>[1] = "op"
    OBVIOUS
  <2> QED
    BY <2>1
<1>3. <<"OUT OF GAS">> \notin N
  <2>1. <<"OUT OF GAS">>[1] = "OUT OF GAS"
    OBVIOUS
  <2> QED
    BY <2>1
<1>4. <<"second CREATE2">> \in N <=> <<"second CREATE2">> \in S
  OBVIOUS
<1>5. \A a : <<"no code", a>> \in N <=> <<"no code", a>> \in S
  OBVIOUS
<1>6. \A a : <<"small code", a>> \in N <=> <<"small code", a>> \in S
  OBVIOUS
<1>7. \A w : <<"access", w>> \in N <=> <<"access", w>> \in S
  OBVIOUS
<1> QED
  BY <1>1, <1>2, <1>3, <1>4, <1>5, <1>6, <1>7 DEF Besides

LEMMA InstructionFacts ==
    ASSUME TypeInv, FrameInv, frames # <<>>, NEW op, NEW S,
           \A x \in S : x[1] \notin {"lone GAS", "op", "OUT OF GAS"}, NEW N,
           N = S \cup {<<"op", op>>} \cup LoneGas(op)
    PROVE  Besides(S, N, op, tracer.lastOp = "GAS" /\ ~NamedCall(op))
BY LoneGasProperties, BesidesFacts

(* What is noted of looking at an account, and perhaps calling it. *)
LookedAt(S, addr) ==
    /\ \A x \in S : x[1] \notin {"lone GAS", "op", "OUT OF GAS"}
    /\ \A a : <<"no code", a>> \in S <=> a = addr /\ addr \notin deployed \cup {Stub, Precompile}
    /\ \A a : <<"small code", a>> \in S <=> a = addr /\ addr = Stub
    /\ \A w : <<"access", w>> \notin S
    /\ <<"second CREATE2">> \notin S

LEMMA TouchFacts ==
    ASSUME NEW addr, NEW S, NEW C,
           S = Touch(addr) \cup C, \A x \in C : x[1] = "call"
    PROVE  LookedAt(S, addr)
<1>1. PICK none, small : none = <<"no code", addr>> /\ small = <<"small code", addr>>
  OBVIOUS
<1>2. none[1] = "no code" /\ small[1] = "small code"
  BY <1>1
<1>3. Touch(addr) = IF addr = Stub THEN {small}
                    ELSE IF addr \in deployed \cup {Precompile} THEN {} ELSE {none}
  BY <1>1 DEF Touch
<1>4. \A x \in S : x[1] \in {"no code", "small code", "call"}
  BY <1>2, <1>3
<1>5. ASSUME NEW a
      PROVE  <<"no code", a>> \in S <=> a = addr /\ addr \notin deployed \cup {Stub, Precompile}
  <2>1. PICK x : x = <<"no code", a>>
    OBVIOUS
  <2>2. x[1] = "no code" /\ x[2] = a /\ none[2] = addr
    BY <1>1, <2>1
  <2>3. x = none <=> a = addr
    BY <1>1, <2>1, <2>2
  <2>4. x \in S <=> x = none /\ addr \notin deployed \cup {Stub, Precompile}
    BY <1>2, <1>3, <2>2
  <2> QED
    BY <2>1, <2>3, <2>4
<1>6. ASSUME NEW a
      PROVE  <<"small code", a>> \in S <=> a = addr /\ addr = Stub
  <2>1. PICK x : x = <<"small code", a>>
    OBVIOUS
  <2>2. x[1] = "small code" /\ x[2] = a /\ small[2] = addr
    BY <1>1, <2>1
  <2>3. x = small <=> a = addr
    BY <1>1, <2>1, <2>2
  <2>4. x \in S <=> x = small /\ addr = Stub
    BY <1>2, <1>3, <2>2
  <2> QED
    BY <2>1, <2>3, <2>4
<1>7. \A w : <<"access", w>> \notin S
  <2>1. \A w : <<"access", w>>[1] = "access"
    OBVIOUS
  <2> QED
    BY <1>4, <2>1
<1>8. <<"second CREATE2">> \notin S
  <2>1. <<"second CREATE2">>[1] = "second CREATE2"
    OBVIOUS
  <2> QED
    BY <1>4, <2>1
<1>9. \A x \in S : x[1] \notin {"lone GAS", "op", "OUT OF GAS"}
  BY <1>4
<1> QED
  BY <1>5, <1>6, <1>7, <1>8, <1>9 DEF LookedAt

LEMMA PlainKeepsLevels ==
    ASSUME TypeInv, PhaseInv, FrameInv, LevelInv, NEW op \in PlainOps, Plain(op)
    PROVE  LevelInv'
<1> DEFINE N == {<<"op", op>>} \cup LoneGas(op)
<1>0. frames # <<>> /\ Levels # <<>>
  BY DEF Plain, Instruction, PhaseInv
<1>1. /\ Effect(Counted(op), Level(tracer).access, Level(tracer).contractSize,
                Level(tracer).oog, tracer.calls, op)
      /\ Notes(N)
  BY <1>0, PlainEffect
<1>2. op # "CREATE2"
  BY StepAssumption
<1> HIDE DEF N
<1>8. Besides({}, N, op, tracer.lastOp = "GAS" /\ ~NamedCall(op))
  BY <1>0, InstructionFacts DEF N
<1>3. NotedOp(op, N)
  BY <1>1, <1>2, <1>8 DEF Besides, NotedOp, Effect, Becomes
<1>4. NoSizeNoted(N) /\ NoAccessNoted(N)
  BY <1>8 DEF Besides, NoSizeNoted, NoAccessNoted
<1>5. OpcodesKept(Level(tracer))'
  BY <1>0, <1>1, <1>3, OpcodesStep DEF Effect, Becomes
<1>6. SizesKept(Level(tracer))'
  BY <1>0, <1>1, <1>4, SizesStay DEF Effect, Becomes
<1>7. AccessKept(Level(tracer))'
  BY <1>0, <1>1, <1>4, AccessStays DEF Effect, Becomes
<1> QED
  BY <1>0, <1>1, <1>5, <1>6, <1>7, LevelStep DEF Effect

LEMMA KeccakKeepsLevels ==
    ASSUME TypeInv, PhaseInv, FrameInv, LevelInv, NEW input \in KeccakInputs, Keccak(input)
    PROVE  LevelInv'
<1> DEFINE N == {<<"keccak", input>>} \cup {<<"op", "KECCAK256">>} \cup LoneGas("KECCAK256")
<1>0. frames # <<>> /\ Levels # <<>>
  BY DEF Keccak, Instruction, PhaseInv
<1>1. /\ Effect(Counted("KECCAK256"), Level(tracer).access, Level(tracer).contractSize,
                Level(tracer).oog, tracer.calls, "KECCAK256")
      /\ Notes(N)
  BY <1>0, KeccakEffect
<1> HIDE DEF N
<1>8. PICK S : S = {<<"keccak", input>>}
  OBVIOUS
<1>9. \A x \in S : x[1] = "keccak"
  BY <1>8
<1>10. \A a : /\ <<"no code", a>>[1] = "no code" /\ <<"small code", a>>[1] = "small code"
             /\ <<"access", a>>[1] = "access"
  OBVIOUS
<1>11. <<"second CREATE2">>[1] = "second CREATE2"
  OBVIOUS
<1>7. Besides(S, N, "KECCAK256", tracer.lastOp = "GAS" /\ ~NamedCall("KECCAK256"))
  BY <1>0, <1>8, <1>9, InstructionFacts DEF N
<1>2. NotedOp("KECCAK256", N)
  BY <1>1, <1>7, <1>9, <1>11 DEF Besides, NotedOp, Effect, Becomes
<1>3. NoSizeNoted(N) /\ NoAccessNoted(N)
  BY <1>7, <1>9, <1>10 DEF Besides, NoSizeNoted, NoAccessNoted
<1>4. OpcodesKept(Level(tracer))'
  BY <1>0, <1>1, <1>2, OpcodesStep DEF Effect, Becomes
<1>5. SizesKept(Level(tracer))'
  BY <1>0, <1>1, <1>3, SizesStay DEF Effect, Becomes
<1>6. AccessKept(Level(tracer))'
  BY <1>0, <1>1, <1>3, AccessStays DEF Effect, Becomes
<1> QED
  BY <1>0, <1>1, <1>4, <1>5, <1>6, LevelStep DEF Effect

LEMMA AccessKeepsLevels ==
    ASSUME TypeInv, PhaseInv, FrameInv, LevelInv, NEW op \in {"SLOAD", "SSTORE"},
           NEW slot \in Slots, Access(op, slot)
    PROVE  LevelInv'
<1> DEFINE where == <<Top.contract, slot>>
           N == {<<"access", where>>} \cup {<<"op", op>>} \cup LoneGas(op)
           value == IF where \in storage THEN "new" ELSE "old"
<1>0. frames # <<>> /\ Levels # <<>>
  BY DEF Access, Instruction, PhaseInv
<1>1. PICK new :
         /\ AccessStep(Accessed(Level(tracer).access, Top.contract), new, op, slot, value)
         /\ Effect(Counted(op), Put(Level(tracer).access, Top.contract, new),
                   Level(tracer).contractSize, Level(tracer).oog, tracer.calls, op)
  BY <1>0, AccessEffect
<1>2. Notes(N)
  BY <1>0, AccessEffect
<1> HIDE DEF N
<1> HIDE DEF where
<1>11. PICK S : S = {<<"access", where>>}
  OBVIOUS
<1>12. \A x \in S : x = <<"access", where>> /\ x[1] = "access"
  BY <1>11
<1>13. \A a : <<"no code", a>>[1] = "no code" /\ <<"small code", a>>[1] = "small code"
  OBVIOUS
<1>14. <<"second CREATE2">>[1] = "second CREATE2"
  OBVIOUS
<1>10. Besides(S, N, op, tracer.lastOp = "GAS" /\ ~NamedCall(op))
  BY <1>0, <1>11, <1>12, InstructionFacts DEF N
<1>3. NotedOp(op, N)
  BY <1>1, <1>10, <1>12, <1>14 DEF Besides, NotedOp, Effect, Becomes
<1>4. NoSizeNoted(N)
  BY <1>10, <1>12, <1>13 DEF Besides, NoSizeNoted
<1>5. NotedAccess(Top.contract, slot, N)
  <2>1. \A w : <<"access", w>> \in S <=> w = where
    BY <1>11
  <2> QED
    BY <1>10, <2>1 DEF Besides, NotedAccess, where
<1>6. PICK contract \in Addresses : contract = Top.contract
  BY <1>0, TopProperties DEF FrameSet
<1> HIDE DEF value
<1>7. OpcodesKept(Level(tracer))'
  BY <1>0, <1>1, <1>2, <1>3, OpcodesStep DEF Effect, Becomes
<1>8. SizesKept(Level(tracer))'
  BY <1>0, <1>1, <1>2, <1>4, SizesStay DEF Effect, Becomes
<1>9. AccessKept(Level(tracer))'
  <2>1. /\ AccessStep(Accessed(Level(tracer).access, contract), new, op, slot, value)
        /\ Level(tracer').topLevelMethodSig = Title
        /\ Level(tracer').access = Put(Level(tracer).access, contract, new)
        /\ NotedAccess(contract, slot, N)
    BY <1>1, <1>5, <1>6 DEF Effect, Becomes
  <2> QED
    BY <1>0, <1>2, <2>1, AccessKeeps
<1> QED
  BY <1>0, <1>1, <1>2, <1>7, <1>8, <1>9, LevelStep DEF Effect

LEMMA ExtCodeKeepsLevels ==
    ASSUME TypeInv, PhaseInv, FrameInv, LevelInv, NEW addr \in ExternalOps, ExtCode(addr)
    PROVE  LevelInv'
<1> DEFINE N == Touch(addr) \cup {<<"op", "EXTCODESIZE">>} \cup LoneGas("EXTCODESIZE")
<1>0. frames # <<>> /\ Levels # <<>> /\ addr \in Addresses
  BY DEF ExtCode, Instruction, PhaseInv, Addresses
<1>1. /\ Effect(Counted("EXTCODESIZE"), Level(tracer).access, Sized(addr),
                Level(tracer).oog, tracer.calls, "EXTCODESIZE")
      /\ Notes(N)
  BY <1>0, ExtCodeEffect
<1> HIDE DEF N
<1>8. PICK S : S = Touch(addr) \cup {}
  OBVIOUS
<1>9. LookedAt(S, addr)
  <2>1. PICK C : C = {}
    OBVIOUS
  <2>2. S = Touch(addr) \cup C /\ \A x \in C : x[1] = "call"
    BY <1>8, <2>1
  <2> QED
    BY <2>2, TouchFacts
<1>10. Besides(S, N, "EXTCODESIZE", tracer.lastOp = "GAS" /\ ~NamedCall("EXTCODESIZE"))
  BY <1>0, <1>8, <1>9, InstructionFacts DEF N, LookedAt
<1>2. NotedOp("EXTCODESIZE", N)
  BY <1>1, <1>9, <1>10 DEF Besides, NotedOp, Effect, Becomes, LookedAt
<1>3. NotedSize(addr, N)
  BY <1>9, <1>10 DEF Besides, NotedSize, LookedAt
<1>4. NoAccessNoted(N)
  BY <1>9, <1>10 DEF Besides, NoAccessNoted, LookedAt
<1>5. OpcodesKept(Level(tracer))'
  BY <1>0, <1>1, <1>2, OpcodesStep DEF Effect, Becomes
<1>6. SizesKept(Level(tracer))'
  BY <1>0, <1>1, <1>3, SizesStep DEF Effect, Becomes
<1>7. AccessKept(Level(tracer))'
  BY <1>0, <1>1, <1>4, AccessStays DEF Effect, Becomes
<1> QED
  BY <1>0, <1>1, <1>5, <1>6, <1>7, LevelStep DEF Effect

LEMMA NestedCallKeepsLevels ==
    ASSUME TypeInv, PhaseInv, FrameInv, LevelInv, NEW call \in NestedCalls, NestedCall(call)
    PROVE  LevelInv'
<1> DEFINE N == Touch(call.to) \cup {<<"call", Top.contract, call.to, call.method>>}
                    \cup {<<"op", call.type>>} \cup LoneGas(call.type)
<1>0. frames # <<>> /\ Levels # <<>> /\ call.to \in Addresses /\ call.type \in CallOps
  BY StepAssumption DEF NestedCall, Instruction, PhaseInv, Addresses
<1>1. /\ Effect(Counted(call.type), Level(tracer).access, Sized(call.to), Level(tracer).oog,
                Append(tracer.calls, CallOf(call.type, Top.contract, call.to, call.method)),
                call.type)
      /\ Notes(N)
  BY <1>0, NestedCallEffect
<1> HIDE DEF N
<1>8. PICK S : S = Touch(call.to) \cup {<<"call", Top.contract, call.to, call.method>>}
  OBVIOUS
<1>9. LookedAt(S, call.to)
  <2>1. PICK C : C = {<<"call", Top.contract, call.to, call.method>>}
    OBVIOUS
  <2>2. \A x \in C : x[1] = "call"
    BY <2>1
  <2>3. S = Touch(call.to) \cup C
    BY <1>8, <2>1
  <2> QED
    BY <2>2, <2>3, TouchFacts
<1>10. Besides(S, N, call.type, tracer.lastOp = "GAS" /\ ~NamedCall(call.type))
  BY <1>0, <1>8, <1>9, InstructionFacts DEF N, LookedAt
<1>2. NotedOp(call.type, N)
  BY <1>0, <1>1, <1>9, <1>10 DEF Besides, NotedOp, Effect, Becomes, CallOps, LookedAt
<1>3. NotedSize(call.to, N)
  BY <1>9, <1>10 DEF Besides, NotedSize, LookedAt
<1>4. NoAccessNoted(N)
  BY <1>9, <1>10 DEF Besides, NoAccessNoted, LookedAt
<1>5. OpcodesKept(Level(tracer))'
  BY <1>0, <1>1, <1>2, OpcodesStep DEF Effect, Becomes
<1>6. SizesKept(Level(tracer))'
  BY <1>0, <1>1, <1>3, SizesStep DEF Effect, Becomes
<1>7. AccessKept(Level(tracer))'
  BY <1>0, <1>1, <1>4, AccessStays DEF Effect, Becomes
<1> QED
  BY <1>0, <1>1, <1>5, <1>6, <1>7, LevelStep DEF Effect

LEMMA CallFactoryKeepsLevels ==
    ASSUME TypeInv, PhaseInv, FrameInv, LevelInv, CallFactory
    PROVE  LevelInv'
<1> DEFINE N == {<<"called">>}
<1>0. frames # <<>> /\ Levels # <<>> /\ Factory \in Addresses
  BY DEF CallFactory, PhaseInv, Addresses, Existing
<1>1. /\ Effect(Counted("CALL"), Level(tracer).access, Sized(Factory), Level(tracer).oog,
                Append(tracer.calls, CallOf("CALL", Creator, Factory, "createAccount")), "CALL")
      /\ Notes(N)
  BY <1>0, CallFactoryEffect
<1>2. NotedOp("CALL", N)
  BY <1>0, <1>1 DEF NotedOp, Effect, Becomes, NamedCall, CallOps
<1>3. NotedSize(Factory, N)
  <2>1. Factory \in deployed /\ Factory # Stub
    BY Distinct DEF FrameInv, Existing
  <2>2. \A a : <<"no code", a>> # <<"called">> /\ <<"small code", a>> # <<"called">>
    OBVIOUS
  <2> QED
    BY <2>1, <2>2 DEF NotedSize
<1>4. NoAccessNoted(N)
  BY DEF NoAccessNoted
<1>5. OpcodesKept(Level(tracer))'
  BY <1>0, <1>1, <1>2, OpcodesStep DEF Effect, Becomes
<1>6. SizesKept(Level(tracer))'
  BY <1>0, <1>1, <1>3, SizesStep DEF Effect, Becomes
<1>7. AccessKept(Level(tracer))'
  BY <1>0, <1>1, <1>4, AccessStays DEF Effect, Becomes
<1> QED
  BY <1>0, <1>1, <1>5, <1>6, <1>7, LevelStep DEF Effect

LEMMA Create2KeepsLevels ==
    ASSUME TypeInv, PhaseInv, FrameInv, LevelInv, Create2
    PROVE  LevelInv'
<1> DEFINE N == Again \cup {<<"op", "CREATE2">>} \cup LoneGas("CREATE2")
<1>0. frames # <<>> /\ Levels # <<>>
  BY DEF Create2, Instruction, PhaseInv
<1>1. /\ Effect(Counted("CREATE2"), Level(tracer).access, Level(tracer).contractSize,
                Level(tracer).oog,
                Append(tracer.calls, CallOf("CREATE2", Top.contract, Made, "")), "CREATE2")
      /\ Notes(N)
  BY <1>0, Create2Effect
<1>2. Again = IF Noted(Level(tracer), <<"op", "CREATE2">>) THEN {<<"second CREATE2">>} ELSE {}
  BY DEF Again, Noted, Title
<1> HIDE DEF N
<1>8. PICK S : S = Again
  OBVIOUS
<1>9. /\ \A x \in S : x[1] = "second CREATE2"
      /\ <<"second CREATE2">> \in S <=> Noted(Level(tracer), <<"op", "CREATE2">>)
      /\ \A a : <<"no code", a>> \notin S /\ <<"small code", a>> \notin S /\ <<"access", a>> \notin S
  <2>1. CASE Noted(Level(tracer), <<"op", "CREATE2">>)
    <3>1. S = {<<"second CREATE2">>}
      BY <1>2, <1>8, <2>1
    <3>2. \A x \in S : x[1] = "second CREATE2"
      <4>1. \A x \in S : x = <<"second CREATE2">>
        BY <3>1
      <4>2. <<"second CREATE2">>[1] = "second CREATE2"
        OBVIOUS
      <4> QED
        BY <4>1, <4>2, Zenon
    <3>3. \A a : /\ <<"no code", a>>[1] = "no code" /\ <<"small code", a>>[1] = "small code"
                 /\ <<"access", a>>[1] = "access"
      OBVIOUS
    <3>4. \A a : <<"no code", a>> \notin S /\ <<"small code", a>> \notin S /\ <<"access", a>> \notin S
      BY <3>2, <3>3
    <3>5. <<"second CREATE2">> \in S
      BY <3>1
    <3> QED
      BY <2>1, <3>2, <3>4, <3>5, Zenon
  <2>2. CASE ~Noted(Level(tracer), <<"op", "CREATE2">>)
    <3>1. S = {}
      BY <1>2, <1>8, <2>2
    <3> QED
      BY <2>2, <3>1
  <2> QED
    BY <2>1, <2>2
<1>10. Besides(S, N, "CREATE2", tracer.lastOp = "GAS" /\ ~NamedCall("CREATE2"))
  BY <1>0, <1>8, <1>9, InstructionFacts DEF N
<1>3. NotedOp("CREATE2", N)
  BY <1>1, <1>9, <1>10 DEF Besides, NotedOp, Effect, Becomes
<1>4. NoSizeNoted(N) /\ NoAccessNoted(N)
  BY <1>9, <1>10 DEF Besides, NoSizeNoted, NoAccessNoted
<1>5. OpcodesKept(Level(tracer))'
  BY <1>0, <1>1, <1>3, OpcodesStep DEF Effect, Becomes
<1>6. SizesKept(Level(tracer))'
  BY <1>0, <1>1, <1>4, SizesStay DEF Effect, Becomes
<1>7. AccessKept(Level(tracer))'
  BY <1>0, <1>1, <1>4, AccessStays DEF Effect, Becomes
<1> QED
  BY <1>0, <1>1, <1>5, <1>6, <1>7, LevelStep DEF Effect

(* What is noted at the end of a frame. *)
EndNoted(N, how, data, lone) ==
    /\ <<"lone GAS">> \in N <=> lone
    /\ <<"OUT OF GAS">> \in N <=> how = "OUT OF GAS"
    /\ <<"context">> \in N <=> data = "context" /\ Len(frames) = 1
    /\ <<"second CREATE2">> \notin N
    /\ \A o : /\ <<"op", o>> \notin N /\ <<"no code", o>> \notin N
             /\ <<"small code", o>> \notin N /\ <<"access", o>> \notin N

LEMMA EndNotedFacts ==
    ASSUME NEW how \in {"RETURN", "REVERT", "OUT OF GAS"}, NEW data \in Returns, NEW lone,
           NEW L, L = IF lone THEN {<<"lone GAS">>} ELSE {}, NEW F, \A x \in F : x[1] = "failed",
           NEW N, N = L \cup F \cup {<<what>> : what \in {how} \cap {"OUT OF GAS"}} \cup Returned(data)
    PROVE  EndNoted(N, how, data, lone)
<1>1. \A x : x \in N <=> \/ x = <<"lone GAS">> /\ lone
                         \/ x \in F
                         \/ x = <<"OUT OF GAS">> /\ how = "OUT OF GAS"
                         \/ x = <<data>> /\ Len(frames) = 1 /\ data # "0x"
  BY DEF Returned
<1>2. /\ <<"lone GAS">>[1] = "lone GAS" /\ <<"OUT OF GAS">>[1] = "OUT OF GAS"
      /\ <<"context">>[1] = "context" /\ <<"second CREATE2">>[1] = "second CREATE2"
      /\ <<data>>[1] = data
  OBVIOUS
<1>3. \A o : /\ <<"op", o>>[1] = "op" /\ <<"no code", o>>[1] = "no code"
             /\ <<"small code", o>>[1] = "small code" /\ <<"access", o>>[1] = "access"
  OBVIOUS
<1>4. data \in {"0x", "context", "long context"}
  BY DEF Returns
<1>5. <<"lone GAS">> \in N <=> lone
  BY <1>1, <1>2, <1>4
<1>6. <<"OUT OF GAS">> \in N <=> how = "OUT OF GAS"
  BY <1>1, <1>2, <1>4
<1>7. <<"context">> \in N <=> data = "context" /\ Len(frames) = 1
  BY <1>1, <1>2, <1>4
<1>8. <<"second CREATE2">> \notin N
  BY <1>1, <1>2, <1>4
<1>9. \A x \in N : x[1] \in {"lone GAS", "failed", "OUT OF GAS", "context", "long context"}
  BY <1>1, <1>2, <1>4
<1>10. \A o : /\ <<"op", o>> \notin N /\ <<"no code", o>> \notin N
              /\ <<"small code", o>> \notin N /\ <<"access", o>> \notin N
  BY <1>3, <1>9
<1> QED
  BY <1>5, <1>6, <1>7, <1>8, <1>10 DEF EndNoted

LEMMA EndFacts ==
    ASSUME TypeInv, FrameInv, frames # <<>>, NEW how \in {"RETURN", "REVERT", "OUT OF GAS"},
           NEW data \in Returns, NEW N, N = EndNotes(how, data)
    PROVE  EndNoted(N, how, data, tracer.lastOp = "GAS" /\ ~NamedCall(how))
<1>1. PICK L : L = LoneGas(how)
  OBVIOUS
<1>2. PICK F : F = Failed(how)
  OBVIOUS
<1>3. \A x \in F : x[1] = "failed"
  <2>1. \A x \in F : x = <<"failed", Top.to, Top.method>>
    BY <1>2 DEF Failed
  <2>2. <<"failed", Top.to, Top.method>>[1] = "failed"
    OBVIOUS
  <2> QED
    BY <2>1, <2>2, Zenon
<1>4. L = IF tracer.lastOp = "GAS" /\ ~NamedCall(how) THEN {<<"lone GAS">>} ELSE {}
  BY <1>1, LoneGasProperties
<1>5. N = L \cup F \cup {<<what>> : what \in {how} \cap {"OUT OF GAS"}} \cup Returned(data)
  BY <1>1, <1>2 DEF EndNotes
<1> QED
  BY <1>3, <1>4, <1>5, EndNotedFacts

LEMMA EndFrameKeepsLevels ==
    ASSUME TypeInv, PhaseInv, FrameInv, LevelInv, NEW how \in {"RETURN", "REVERT", "OUT OF GAS"},
           NEW data \in Returns, EndFrame(how, data)
    PROVE  LevelInv'
<1> DEFINE N == EndNotes(how, data)
           opcodes == IF Top.runs THEN Counted(EndOp(how)) ELSE Level(tracer).opcodes
           oog == IF how = "OUT OF GAS" THEN TRUE ELSE Level(tracer).oog
<1>0. frames # <<>> /\ Levels # <<>> /\ Top.runs \in BOOLEAN
  BY TopProperties DEF EndFrame, PhaseInv, FrameSet
<1>1. /\ LastOnly(tracer, tracer')
      /\ Becomes(Level(tracer'), opcodes, Level(tracer).access, Level(tracer).contractSize, oog)
      /\ Notes(N)
  BY <1>0, EndFrameEffect DEF Effect
<1> HIDE DEF N
<1>2. EndNoted(N, how, data, tracer.lastOp = "GAS" /\ ~NamedCall(how))
  BY <1>0, EndFacts DEF N
<1>3. NoSizeNoted(N) /\ NoAccessNoted(N)
  BY <1>2 DEF EndNoted, NoSizeNoted, NoAccessNoted
<1>7. OpcodesKept(Level(tracer))'
  <2>1. CASE Top.runs
    <3>1. NotedOp(EndOp(how), N)
      <4>1. how # "OUT OF GAS" => EndOp(how) = how
        BY DEF EndOp
      <4>2. how = "OUT OF GAS" => EndOp(how) = "ADD"
        BY DEF EndOp
      <4>3. NamedCall(EndOp(how)) <=> NamedCall(how)
        BY <4>1, <4>2 DEF NamedCall, CallOps
      <4>4. Level(tracer').oog <=> Level(tracer).oog \/ <<"OUT OF GAS">> \in N
        BY <1>1, <1>2 DEF Becomes, EndNoted
      <4>5. EndOp(how) \notin {"TIMESTAMP", "BALANCE", "CREATE", "CREATE2"}
        BY <4>1, <4>2
      <4> QED
        BY <1>2, <4>3, <4>4, <4>5 DEF NotedOp, EndNoted
    <3>2. Level(tracer').topLevelMethodSig = Title /\ Level(tracer').opcodes = Counted(EndOp(how))
      BY <1>1, <2>1 DEF Becomes
    <3> QED
      BY <1>0, <1>1, <3>1, <3>2, OpcodesStep
  <2>2. CASE ~Top.runs
    <3>1. how = "RETURN"
      BY <2>2 DEF EndFrame
    <3>2. tracer.lastOp # "GAS"
      <4>1. ~Top.gas
        <5>1. Len(frames) \in DOMAIN frames
          BY <1>0, TopProperties
        <5>2. Top.gas => Top.runs
          BY <5>1 DEF FrameInv, Top
        <5> QED
          BY <2>2, <5>2
      <4> QED
        BY <1>0, <4>1 DEF FrameInv
    <3>3. Level(tracer').topLevelMethodSig = Title /\ Level(tracer').opcodes = Level(tracer).opcodes
          /\ Level(tracer').oog = Level(tracer).oog
      BY <1>1, <2>2, <3>1 DEF Becomes
    <3>4. OpcodesKept(Level(tracer))
      BY <1>0, LastLevel
    <3>5. \A fact : <<Level(tracer').topLevelMethodSig, fact>> \in did'
                       <=> Noted(Level(tracer), fact) \/ fact \in N
      BY <1>1, <3>3 DEF Notes, Noted, Title
    <3> QED
      BY <1>2, <3>1, <3>2, <3>3, <3>4, <3>5 DEF OpcodesKept, Noted, EndNoted
  <2> QED
    BY <1>0, <2>1, <2>2
<1>8. SizesKept(Level(tracer))'
  BY <1>0, <1>1, <1>3, SizesStay DEF Becomes
<1>9. AccessKept(Level(tracer))'
  BY <1>0, <1>1, <1>3, AccessStays DEF Becomes
<1> QED
  BY <1>0, <1>1, <1>7, <1>8, <1>9, LevelStep

---------------------------------------------------------------------------
(* The entry point calls the next entity.                                  *)

LEMMA RestOfSequence ==
    ASSUME NEW S, NEW s \in Seq(S), NEW k \in Nat, SubSeq(s, k + 1, Len(s)) # <<>>
    PROVE  /\ k < Len(s) /\ Head(SubSeq(s, k + 1, Len(s))) = s[k + 1]
           /\ Tail(SubSeq(s, k + 1, Len(s))) = SubSeq(s, (k + 1) + 1, Len(s))
<1>1. k < Len(s)
  OBVIOUS
<1>2. k + 1 \in 1..Len(s) /\ Len(s) \in (k + 1)..Len(s)
  BY <1>1
<1> QED
  BY <1>1, <1>2, HeadTailOfSubSeq

NewLevel == Head(todo)

LEMMA NextPhase ==
    ASSUME TypeInv, PhaseInv, FrameInv, CallEntity
    PROVE  /\ Len(Levels) < Len(Phases(userOp)) /\ NewLevel = Phases(userOp)[Len(Levels) + 1]
           /\ NewLevel \in PhaseSigs /\ Len(Levels) \in Nat /\ Levels \in Seq(LevelSet)
           /\ Tail(todo) = SubSeq(Phases(userOp), (Len(Levels) + 1) + 1, Len(Phases(userOp)))
           /\ Phases(userOp) \in Seq(PhaseSigs)
<1> DEFINE p == Phases(userOp)
<1>1. OncePerEntity(userOp, p)
  BY PhasesProperties DEF TypeInv
<1>2. Levels \in Seq(LevelSet) /\ Len(Levels) \in Nat
  BY DEF TypeInv, TracerSet, Levels
<1>3. todo # <<"failed">>
  <2>1. Codeless \notin deployed
    BY Distinct DEF FrameInv, Existing
  <2> QED
    BY <2>1, TargetProperties DEF CallEntity
<1>4. todo = SubSeq(p, Len(Levels) + 1, Len(p)) /\ todo # <<>>
  BY <1>3 DEF PhaseInv, CallEntity
<1> HIDE DEF p
<1>5. p \in Seq(PhaseSigs) /\ Len(p) \in Nat
  BY <1>1 DEF OncePerEntity
<1>6. PICK k \in Nat : k = Len(Levels)
  BY <1>2
<1>7. /\ k < Len(p) /\ Head(todo) = p[k + 1] /\ Tail(todo) = SubSeq(p, (k + 1) + 1, Len(p))
  BY <1>4, <1>5, <1>6, RestOfSequence
<1>8. p[k + 1] \in PhaseSigs
  BY <1>5, <1>6, <1>7
<1> QED
  BY <1>2, <1>5, <1>6, <1>7, <1>8 DEF NewLevel, p

LEMMA CallEntityEffect ==
    ASSUME TypeInv, PhaseInv, FrameInv, CallEntity
    PROVE  /\ Levels' = Append(Levels, TopLevelCallInfo(NewLevel, Target(NewLevel)))
           /\ TopLevelCallInfo(NewLevel, Target(NewLevel)) \in LevelSet
           /\ tracer' \in TracerSet /\ tracer'.keccak = tracer.keccak
           /\ tracer'.calls = Append(tracer.calls,
                                     CallOf("CALL", EntryPoint, Target(NewLevel), NewLevel))
           /\ CallOf("CALL", EntryPoint, Target(NewLevel), NewLevel) \in CallSet
           /\ tracer'.lastOp = ""
<1> DEFINE level == TopLevelCallInfo(NewLevel, Target(NewLevel))
           c == CallOf("CALL", EntryPoint, Target(NewLevel), NewLevel)
<1>1. NewLevel \in PhaseSigs
  BY NextPhase
<1>2. Target(NewLevel) \in Addresses /\ EntryPoint \in Addresses /\ NewLevel \in Methods
  BY <1>1, TargetProperties DEF Addresses, Existing, Methods
<1>3. level \in LevelSet
  <2>1. /\ NoEntry \in Fcts(OpCodes, Nat \ {0}) /\ NoEntry \in Fcts(Addresses, AccessSet)
        /\ NoEntry \in Fcts(Addresses, Sizes)
    BY NoEntryIsFcts
  <2> HIDE DEF level
  <2> QED
    BY <1>1, <1>2, <2>1 DEF TopLevelCallInfo, LevelSet, level
<1>4. c \in CallSet
  BY <1>2 DEF CallOf, CallSet, CallTypes, CallOps
<1>5. tracer' = [[tracer EXCEPT !.callsFromEntryPoint = Append(@, level), !.lastOp = ""]
                    EXCEPT !.calls = Append(@, c)]
  BY DEF CallEntity, TraceEnter, TraceTopLevelCall, NewLevel, CallOf
<1>6. tracer \in TracerSet /\ "" \in OpCodes
  BY DEF TypeInv, OpCodes
<1> HIDE DEF level, c
<1>7. /\ tracer'.callsFromEntryPoint = Append(tracer.callsFromEntryPoint, level)
      /\ tracer'.lastOp = "" /\ tracer'.calls = Append(tracer.calls, c)
      /\ tracer'.keccak = tracer.keccak
  BY <1>5, <1>6 DEF TracerSet
<1>8. tracer' \in TracerSet
  <2>1. /\ Append(tracer.callsFromEntryPoint, level) \in Seq(LevelSet)
        /\ Append(tracer.calls, c) \in Seq(CallSet \cup ExitSet)
    <3>1. tracer.callsFromEntryPoint \in Seq(LevelSet) /\ tracer.calls \in Seq(CallSet \cup ExitSet)
      BY <1>6 DEF TracerSet
    <3>2. c \in CallSet \cup ExitSet
      BY <1>4
    <3> QED
      BY <1>3, <3>1, <3>2, AppendProperties
  <2> QED
    BY <1>5, <1>6, <2>1 DEF TracerSet
<1> QED
  BY <1>3, <1>4, <1>7, <1>8 DEF level, c, Levels

LEMMA CallEntityLevels ==
    ASSUME TypeInv, PhaseInv, FrameInv, CallEntity
    PROVE  /\ Len(Levels') = Len(Levels) + 1 /\ DOMAIN Levels' = 1..(Len(Levels) + 1)
           /\ DOMAIN Levels = 1..Len(Levels) /\ Len(Levels) \in Nat
           /\ \A i \in 1..Len(Levels) : Levels'[i] = Levels[i]
           /\ Levels'[Len(Levels) + 1] = TopLevelCallInfo(NewLevel, Target(NewLevel))
           /\ Level(tracer') = TopLevelCallInfo(NewLevel, Target(NewLevel))
<1> DEFINE level == TopLevelCallInfo(NewLevel, Target(NewLevel))
<1>1. Levels' = Append(Levels, level) /\ level \in LevelSet
  BY CallEntityEffect
<1>2. Levels \in Seq(LevelSet)
  BY NextPhase
<1> HIDE DEF level
<1>3. /\ Len(Levels') = Len(Levels) + 1 /\ DOMAIN Levels' = 1..(Len(Levels) + 1)
      /\ DOMAIN Levels = 1..Len(Levels) /\ Len(Levels) \in Nat
      /\ \A i \in 1..Len(Levels) : Levels'[i] = Levels[i]
      /\ Levels'[Len(Levels) + 1] = level
  BY <1>1, <1>2
<1>4. Level(tracer') = Levels'[Len(Levels')]
  BY DEF Level, Levels
<1>5. Level(tracer') = level
  BY <1>3, <1>4
<1> QED
  BY <1>3, <1>5 DEF level

LEMMA NotNotedBefore ==
    ASSUME TypeInv, PhaseInv, FrameInv, CallEntity
    PROVE  \A fact : <<NewLevel, fact>> \notin did
<1>1. OncePerEntity(userOp, Phases(userOp))
  BY PhasesProperties DEF TypeInv
<1> DEFINE p == Phases(userOp)
<1>2. \A i \in DOMAIN Levels : Levels[i].topLevelMethodSig = p[i]
  BY DEF PhaseInv
<1>3. Len(Levels) < Len(p) /\ NewLevel = p[Len(Levels) + 1] /\ Len(Levels) \in Nat
  BY NextPhase
<1>4. DOMAIN Levels = 1..Len(Levels)
  BY CallEntityLevels
<1> HIDE DEF p
<1>5. Len(p) \in Nat /\ \A i, j \in 1..Len(p) : p[i] = p[j] => i = j
  BY <1>1 DEF OncePerEntity, p
<1>6. \A i \in 1..Len(Levels) : p[i] # NewLevel
  BY <1>3, <1>5
<1>7. \A i \in DOMAIN Levels : Levels[i].topLevelMethodSig # NewLevel
  BY <1>2, <1>4, <1>6
<1> SUFFICES ASSUME NEW fact, <<NewLevel, fact>> \in did PROVE FALSE
  OBVIOUS
<1>8. PICK i \in DOMAIN Levels : <<NewLevel, fact>>[1] = Levels[i].topLevelMethodSig
  BY DEF PhaseInv
<1> QED
  BY <1>7, <1>8

LEMMA CallEntityKeepsLevels ==
    ASSUME TypeInv, PhaseInv, FrameInv, LevelInv, CallEntity
    PROVE  LevelInv'
<1> DEFINE level == TopLevelCallInfo(NewLevel, Target(NewLevel))
           n == Len(Levels)
<1>1. DOMAIN Levels' = 1..(n + 1) /\ DOMAIN Levels = 1..n /\ n \in Nat
  BY CallEntityLevels
<1>2. \A i \in 1..n : Levels'[i] = Levels[i]
  BY CallEntityLevels
<1>3. Levels'[n + 1] = level
  BY CallEntityLevels
<1>4. did' = did
  BY DEF CallEntity
<1>5. /\ level.topLevelMethodSig = NewLevel /\ DOMAIN level.opcodes = {} /\ DOMAIN level.access = {}
      /\ DOMAIN level.contractSize = {} /\ level.oog = FALSE
  BY DEF TopLevelCallInfo, NoEntry
<1>6. \A fact : <<NewLevel, fact>> \notin did
  BY NotNotedBefore
<1> HIDE DEF level, n
<1> SUFFICES ASSUME NEW i \in 1..(n + 1)
             PROVE  (OpcodesKept(Levels[i]) /\ SizesKept(Levels[i]) /\ AccessKept(Levels[i]))'
  BY <1>1 DEF LevelInv
<1>7. CASE i \in 1..n
  <2>1. Levels'[i] = Levels[i]
    BY <1>2, <1>7
  <2>2. OpcodesKept(Levels[i]) /\ SizesKept(Levels[i]) /\ AccessKept(Levels[i])
    BY <1>1, <1>7 DEF LevelInv
  <2>3. OpcodesKept(Levels[i])'
    BY <1>4, <2>1, <2>2 DEF OpcodesKept, Noted
  <2>4. SizesKept(Levels[i])'
    BY <1>4, <2>1, <2>2 DEF SizesKept, Noted
  <2>5. AccessKept(Levels[i])'
    BY <1>4, <2>1, <2>2 DEF AccessKept, Noted, Met
  <2> QED
    BY <2>3, <2>4, <2>5
<1>8. CASE i = n + 1
  <2>1. Levels'[i] = level
    BY <1>3, <1>8
  <2>2. OpcodesKept(Levels[i])'
    BY <1>4, <1>5, <1>6, <2>1 DEF OpcodesKept, Noted
  <2>3. SizesKept(Levels[i])'
    BY <1>4, <1>5, <1>6, <2>1 DEF SizesKept, Noted
  <2>4. AccessKept(Levels[i])'
    BY <1>4, <1>5, <1>6, <2>1 DEF AccessKept, Noted, Met
  <2> QED
    BY <2>2, <2>3, <2>4
<1> QED
  BY <1>1, <1>7, <1>8

---------------------------------------------------------------------------
(* The frames: one goes on, one is opened above it, or it ends.            *)

SameFrame(a, b) ==
    /\ a.type = b.type /\ a.to = b.to /\ a.contract = b.contract /\ a.method = b.method
    /\ a.runs = b.runs /\ a.storage = b.storage /\ a.deployed = b.deployed

FramesStay(gas) ==
    /\ frames' \in Seq(FrameSet) /\ Len(frames') = Len(frames) /\ DOMAIN frames' = DOMAIN frames
    /\ \A i \in DOMAIN frames : SameFrame(frames'[i], frames[i])
    /\ \A i \in DOMAIN frames : IF i = Len(frames) THEN frames'[i].gas = gas
                                ELSE frames'[i].gas = frames[i].gas

FramesOpen(frame) ==
    /\ frames' \in Seq(FrameSet) /\ Len(frames') = Len(frames) + 1
    /\ DOMAIN frames' = DOMAIN frames \cup {Len(frames) + 1}
    /\ \A i \in DOMAIN frames : SameFrame(frames'[i], frames[i]) /\ frames'[i].gas = FALSE
    /\ frames'[Len(frames) + 1] = frame

FramesClose ==
    /\ frames' \in Seq(FrameSet) /\ Len(frames') = Len(frames) - 1
    /\ DOMAIN frames' = 1..(Len(frames) - 1)
    /\ \A i \in DOMAIN frames' : i \in DOMAIN frames /\ frames'[i] = frames[i]

LEMMA RunningProperties ==
    ASSUME TypeInv, frames # <<>>, NEW op, NEW run, run = Running(op)
    PROVE  /\ run \in Seq(FrameSet) /\ Len(run) = Len(frames) /\ DOMAIN run = DOMAIN frames
           /\ \A i \in DOMAIN frames : SameFrame(run[i], frames[i])
           /\ \A i \in DOMAIN frames : IF i = Len(frames) THEN run[i].gas = (op = "GAS")
                                       ELSE run[i].gas = frames[i].gas
<1>1. frames \in Seq(FrameSet) /\ Len(frames) \in DOMAIN frames
  BY TopProperties DEF TypeInv
<1>2. PICK gas \in BOOLEAN : gas = (op = "GAS")
  OBVIOUS
<1>3. PICK frame : frame = [frames[Len(frames)] EXCEPT !.gas = gas]
  OBVIOUS
<1>4. run = [frames EXCEPT ![Len(frames)] = frame]
  BY <1>2, <1>3 DEF Running
<1>5. frames[Len(frames)] \in FrameSet
  BY <1>1
<1>6. frame \in FrameSet /\ SameFrame(frame, frames[Len(frames)]) /\ frame.gas = gas
  BY <1>2, <1>3, <1>5 DEF FrameSet, SameFrame
<1>7. /\ run \in Seq(FrameSet) /\ Len(run) = Len(frames) /\ DOMAIN run = DOMAIN frames
      /\ \A i \in DOMAIN frames : run[i] = IF i = Len(frames) THEN frame ELSE frames[i]
  BY <1>1, <1>4, <1>6
<1>8. \A i \in DOMAIN frames : SameFrame(run[i], frames[i])
  <2>1. \A f : SameFrame(f, f)
    BY DEF SameFrame
  <2> QED
    BY <1>6, <1>7, <2>1
<1>9. \A i \in DOMAIN frames : IF i = Len(frames) THEN run[i].gas = gas
                              ELSE run[i].gas = frames[i].gas
  BY <1>6, <1>7
<1> QED
  BY <1>2, <1>7, <1>8, <1>9

LEMMA FramesGoOn ==
    ASSUME TypeInv, frames # <<>>, NEW op, frames' = Running(op)
    PROVE  FramesStay(op = "GAS")
<1>1. PICK run : run = Running(op)
  OBVIOUS
<1> QED
  BY <1>1, RunningProperties DEF FramesStay

LEMMA AppendedFrames ==
    ASSUME NEW run \in Seq(FrameSet), Len(run) = Len(frames), DOMAIN run = DOMAIN frames,
           \A i \in DOMAIN frames : SameFrame(run[i], frames[i]) /\ run[i].gas = FALSE,
           NEW frame \in FrameSet, frames' = Append(run, frame)
    PROVE  FramesOpen(frame)
<1>1. /\ frames' \in Seq(FrameSet) /\ Len(frames') = Len(run) + 1
      /\ DOMAIN frames' = 1..(Len(run) + 1) /\ DOMAIN run = 1..Len(run) /\ Len(run) \in Nat
      /\ frames'[Len(run) + 1] = frame
      /\ \A i \in 1..Len(run) : frames'[i] = run[i]
  OBVIOUS
<1>2. DOMAIN frames' = DOMAIN frames \cup {Len(frames) + 1}
  BY <1>1
<1> QED
  BY <1>1, <1>2 DEF FramesOpen

LEMMA FramesPush ==
    ASSUME TypeInv, FrameInv, frames # <<>>, NEW op, op # "GAS", NEW frame \in FrameSet,
           frames' = Append(Running(op), frame)
    PROVE  FramesOpen(frame)
<1>1. PICK run : run = Running(op)
  OBVIOUS
<1>2. /\ run \in Seq(FrameSet) /\ Len(run) = Len(frames) /\ DOMAIN run = DOMAIN frames
      /\ \A i \in DOMAIN frames : SameFrame(run[i], frames[i])
      /\ \A i \in DOMAIN frames : IF i = Len(frames) THEN run[i].gas = (op = "GAS")
                                  ELSE run[i].gas = frames[i].gas
  BY <1>1, RunningProperties
<1>3. \A i \in DOMAIN frames : frames[i].gas \in BOOLEAN
  <2>1. \A i \in DOMAIN frames : frames[i] \in FrameSet
    BY DEF TypeInv
  <2> QED
    BY <2>1 DEF FrameSet
<1>4. \A i \in DOMAIN frames : i # Len(frames) => frames[i].gas = FALSE
  BY <1>3 DEF FrameInv
<1>5. \A i \in DOMAIN frames : run[i].gas = FALSE
  <2> SUFFICES ASSUME NEW i \in DOMAIN frames PROVE run[i].gas = FALSE
    OBVIOUS
  <2>1. CASE i = Len(frames)
    BY <1>2, <2>1
  <2>2. CASE i # Len(frames)
    BY <1>2, <1>4, <2>2
  <2> QED
    BY <2>1, <2>2
<1> QED
  BY <1>1, <1>2, <1>5, AppendedFrames

LEMMA FrontOfSequence ==
    ASSUME NEW S, NEW s \in Seq(S), s # <<>>
    PROVE  /\ Front(s) \in Seq(S) /\ Len(Front(s)) = Len(s) - 1
           /\ DOMAIN Front(s) = 1..(Len(s) - 1)
           /\ \A i \in DOMAIN Front(s) : i \in DOMAIN s /\ Front(s)[i] = s[i]
<1>1. Len(s) \in Nat \ {0} /\ \A i \in 1..Len(s) : s[i] \in S
  OBVIOUS
<1>2. PICK n \in Nat : n = Len(s) - 1
  BY <1>1
<1>3. /\ SubSeq(s, 1, n) \in Seq(S) /\ Len(SubSeq(s, 1, n)) = IF 1 <= n THEN n - 1 + 1 ELSE 0
      /\ \A i \in 1..(n - 1 + 1) : SubSeq(s, 1, n)[i] = s[1 + i - 1]
  <2>1. \A i \in 1..n : s[i] \in S
    BY <1>1, <1>2
  <2> QED
    BY <2>1, SubSeqProperties
<1>4. Front(s) = SubSeq(s, 1, n)
  BY <1>2 DEF Front
<1>8. (IF 1 <= n THEN n - 1 + 1 ELSE 0) = n
  BY <1>2
<1>5. Front(s) \in Seq(S) /\ Len(Front(s)) = Len(s) - 1
  BY <1>2, <1>3, <1>4, <1>8, Zenon
<1>6. DOMAIN Front(s) = 1..(Len(s) - 1)
  BY <1>5
<1>7. \A i \in 1..(Len(s) - 1) : i \in DOMAIN s /\ Front(s)[i] = s[i]
  BY <1>1, <1>2, <1>3, <1>4
<1> QED
  BY <1>5, <1>6, <1>7

LEMMA FramesPop ==
    ASSUME TypeInv, frames # <<>>, frames' = Front(frames)
    PROVE  FramesClose
<1>1. frames \in Seq(FrameSet)
  BY DEF TypeInv
<1>2. /\ Front(frames) \in Seq(FrameSet) /\ Len(Front(frames)) = Len(frames) - 1
      /\ DOMAIN Front(frames) = 1..(Len(frames) - 1)
      /\ \A i \in DOMAIN Front(frames) : i \in DOMAIN frames /\ Front(frames)[i] = frames[i]
  BY <1>1, FrontOfSequence
<1> QED
  BY <1>2 DEF FramesClose

---------------------------------------------------------------------------
(* TypeInv, PhaseInv and FrameInv, action by action.                       *)

LEMMA NoteTypes ==
    ASSUME TypeInv, Levels # <<>>, NEW N \in SUBSET FactSet, Note(N)
    PROVE  did' \in SUBSET (PhaseSigs \X FactSet)
<1>1. Title \in PhaseSigs /\ did \in SUBSET (PhaseSigs \X FactSet)
  BY TitleProperties DEF TypeInv
<1>2. did' = did \cup ({Title} \X N)
  BY DEF Note
<1> HIDE DEF PhaseSigs, FactSet
<1> QED
  BY <1>1, <1>2

LEMMA InstructionTypes ==
    ASSUME TypeInv, PhaseInv, NEW op \in OpCodes, NEW facts \in SUBSET FactSet,
           Instruction(op, facts)
    PROVE  /\ did' \in SUBSET (PhaseSigs \X FactSet) /\ steps' \in 0..MaxSteps
           /\ frames # <<>> /\ Levels # <<>> /\ Top \in FrameSet /\ Top.runs
           /\ Top.contract # Creator /\ Top.contract # EntryPoint
<1>1. /\ frames # <<>> /\ Top.runs /\ Top.contract # Creator /\ Top.contract # EntryPoint
      /\ steps < MaxSteps /\ steps' = steps + 1 /\ Note(facts \cup {<<"op", op>>} \cup LoneGas(op))
  BY DEF Instruction
<1>2. steps' \in 0..MaxSteps
  BY <1>1, BoundAssumption DEF TypeInv
<1>3. Top \in FrameSet /\ Levels # <<>>
  BY <1>1, TopProperties DEF PhaseInv
<1>4. facts \cup {<<"op", op>>} \cup LoneGas(op) \in SUBSET FactSet
  <2>1. <<"op", op>> \in FactSet
    BY DEF FactSet
  <2>2. <<"lone GAS">> \in FactSet
    BY DEF FactSet
  <2>3. LoneGas(op) \in SUBSET FactSet
    BY <2>2 DEF LoneGas
  <2> HIDE DEF FactSet
  <2> QED
    BY <2>1, <2>3
<1> QED
  BY <1>1, <1>2, <1>3, <1>4, NoteTypes

LEMMA TypeStep ==
    ASSUME TypeInv, userOp' = userOp, verdict' = verdict,
           tracer' \in TracerSet, did' \in SUBSET (PhaseSigs \X FactSet),
           frames' \in Seq(FrameSet), Len(frames') <= MaxDepth,
           storage' \in SUBSET (Addresses \X Slots), deployed' \in SUBSET Addresses,
           steps' \in 0..MaxSteps, todo' \in Seq(PhaseSigs \cup {"failed"})
    PROVE  TypeInv'
<1> HIDE DEF TracerSet, FrameSet, FactSet
<1> QED
  BY DEF TypeInv

LEMMA PhaseStep ==
    ASSUME TypeInv, PhaseInv, frames # <<>>, LastOnly(tracer, tracer'),
           Level(tracer').topLevelMethodSig = Title, NEW N, Notes(N),
           did' \in SUBSET (PhaseSigs \X FactSet), userOp' = userOp,
           todo' = todo \/ (todo' = <<"failed">> /\ frames' = <<>>),
           frames' # <<>> => SameFrame(frames'[1], frames[1])
    PROVE  PhaseInv'
<1>0. Levels # <<>>
  BY DEF PhaseInv
<1> DEFINE n == Len(Levels)
           p == Phases(userOp)
<1>1. /\ Len(Levels') = n /\ DOMAIN Levels = 1..n /\ DOMAIN Levels' = 1..n /\ n \in Nat \ {0}
      /\ Level(tracer') = Levels'[n]
  BY <1>0, LevelsAfter
<1>2. \A i \in 1..n : i # n => Levels'[i] = Levels[i]
  BY <1>0, LevelsAfter
<1>3. Title = Levels[n].topLevelMethodSig
  BY <1>0, TitleProperties DEF Title
<1>4. Title' = Levels'[n].topLevelMethodSig /\ Title' = Title
  BY <1>1 DEF Title
<1> HIDE DEF n
<1>5. \A i \in 1..n : Levels'[i].topLevelMethodSig = Levels[i].topLevelMethodSig
  BY <1>2, <1>3, <1>4
<1>6. /\ n <= Len(p) /\ \A i \in DOMAIN Levels : Levels[i].topLevelMethodSig = p[i]
      /\ todo = <<"failed">> \/ todo = SubSeq(p, n + 1, Len(p))
  BY DEF PhaseInv, n
<1> HIDE DEF p
<1>7. \A i \in DOMAIN Levels' : Levels'[i].topLevelMethodSig = p[i]
  BY <1>1, <1>5, <1>6
<1>8. \A f \in did' : \E i \in DOMAIN Levels' : f[1] = Levels'[i].topLevelMethodSig
  <2> SUFFICES ASSUME NEW f \in did' PROVE \E i \in DOMAIN Levels' : f[1] = Levels'[i].topLevelMethodSig
    OBVIOUS
  <2>1. PICK sig \in PhaseSigs, fact \in FactSet : f = <<sig, fact>>
    <3> HIDE DEF PhaseSigs, FactSet
    <3> QED
      OBVIOUS
  <2>2. CASE <<sig, fact>> \in did
    <3>1. PICK i \in DOMAIN Levels : <<sig, fact>>[1] = Levels[i].topLevelMethodSig
      BY <2>2 DEF PhaseInv
    <3> QED
      BY <1>1, <1>5, <2>1, <3>1
  <2>3. CASE <<sig, fact>> \notin did
    <3>1. sig = Title
      BY <2>1, <2>3 DEF Notes
    <3>2. n \in DOMAIN Levels' /\ f[1] = Levels'[n].topLevelMethodSig
      BY <1>1, <1>4, <2>1, <3>1
    <3> QED
      BY <3>2
  <2> QED
    BY <2>2, <2>3
<1>9. todo' = <<"failed">> \/ todo' = SubSeq(p, n + 1, Len(p))
  BY <1>6
<1>10. frames' # <<>> => /\ Levels' # <<>> /\ todo' # <<"failed">>
                         /\ frames'[1].method = Title' /\ frames'[1].to = Target(Title)'
  <2>1. frames' # <<>> => frames'[1].method = frames[1].method /\ frames'[1].to = frames[1].to
    BY DEF SameFrame
  <2>2. /\ frames' # <<>> => todo' = todo
        /\ todo # <<"failed">> /\ frames[1].method = Title /\ frames[1].to = Target(Title)
    BY DEF PhaseInv
  <2>3. Levels' # <<>>
    BY <1>0, LevelsAfter
  <2>4. Target(Title)' = Target(Title)
    BY <1>4 DEF Target
  <2> QED
    BY <1>4, <2>1, <2>2, <2>3, <2>4
<1>11. Phases(userOp)' = p
  BY DEF p, Phases
<1> QED
  BY <1>1, <1>6, <1>7, <1>8, <1>9, <1>10, <1>11 DEF PhaseInv

LEMMA FrameStays ==
    ASSUME TypeInv, FrameInv, frames # <<>>, NEW op, FramesStay(op = "GAS"), tracer'.lastOp = op,
           deployed' = deployed, Top.runs, Top.contract # Creator
    PROVE  FrameInv'
<1>1. /\ Len(frames') = Len(frames) /\ DOMAIN frames' = DOMAIN frames
      /\ Len(frames) \in DOMAIN frames
      /\ \A i \in DOMAIN frames : SameFrame(frames'[i], frames[i])
  BY TopProperties DEF FramesStay
<1>2. \A i \in DOMAIN frames : i # Len(frames) => frames'[i].gas = frames[i].gas
  BY DEF FramesStay
<1>3. frames'[Len(frames)].gas = (op = "GAS")
  BY <1>1 DEF FramesStay
<1>4. ASSUME NEW i \in DOMAIN frames, frames'[i].gas
      PROVE  i = Len(frames) /\ frames'[i].runs /\ frames'[i].contract # Creator
  <2>1. CASE i = Len(frames)
    BY <1>1, <2>1 DEF SameFrame, Top
  <2>2. CASE i # Len(frames)
    <3>1. frames[i].gas
      BY <1>2, <1>4, <2>2
    <3> QED
      BY <2>2, <3>1 DEF FrameInv
  <2> QED
    BY <2>1, <2>2
<1>5. ASSUME NEW i \in DOMAIN frames
      PROVE  /\ frames'[i].contract = Creator => i = 1
             /\ frames'[i].type = "CREATE2" => frames'[i].contract \in {Sender, Codeless}
             /\ frames'[i].deployed \cup {Sender} = Existing
  BY <1>1, <1>5 DEF FrameInv, SameFrame
<1>6. Top' = frames'[Len(frames)]
  BY <1>1 DEF Top
<1>7. Top'.gas <=> tracer'.lastOp = "GAS"
  BY <1>3, <1>6
<1> QED
  BY <1>1, <1>4, <1>5, <1>7 DEF FrameInv, Existing

LEMMA FrameOpens ==
    ASSUME TypeInv, FrameInv, frames # <<>>, NEW frame, FramesOpen(frame), tracer'.lastOp # "GAS",
           deployed' = deployed, frame.gas = FALSE, frame.contract # Creator,
           frame.type = "CREATE2" => frame.contract \in {Sender, Codeless}, frame.deployed = deployed
    PROVE  FrameInv'
<1> DEFINE n == Len(frames)
<1>1. /\ Len(frames') = n + 1 /\ DOMAIN frames' = DOMAIN frames \cup {n + 1}
      /\ frames'[n + 1] = frame
  BY DEF FramesOpen
<1>2. \A i \in DOMAIN frames : SameFrame(frames'[i], frames[i])
  BY DEF FramesOpen
<1>3. \A i \in DOMAIN frames' : frames'[i].gas = FALSE
  BY <1>1 DEF FramesOpen
<1>4. deployed \cup {Sender} = Existing
  BY DEF FrameInv
<1>5. ASSUME NEW i \in DOMAIN frames'
      PROVE  /\ frames'[i].contract = Creator => i = 1
             /\ frames'[i].type = "CREATE2" => frames'[i].contract \in {Sender, Codeless}
             /\ frames'[i].deployed \cup {Sender} = Existing
  <2>1. CASE i \in DOMAIN frames
    BY <1>2, <2>1 DEF FrameInv, SameFrame
  <2>2. CASE i = n + 1
    BY <1>1, <1>4, <2>2
  <2> QED
    BY <1>1, <2>1, <2>2
<1>6. Top' = frames'[n + 1]
  BY <1>1 DEF Top
<1>7. Top'.gas <=> tracer'.lastOp = "GAS"
  BY <1>1, <1>6
<1> QED
  BY <1>3, <1>4, <1>5, <1>7 DEF FrameInv, Existing

LEMMA FrameCloses ==
    ASSUME TypeInv, FrameInv, frames # <<>>, FramesClose, tracer'.lastOp # "GAS",
           deployed' \cup {Sender} = Existing
    PROVE  FrameInv'
<1>0. Len(frames) \in Nat \ {0}
  BY TopProperties
<1>1. /\ Len(frames') = Len(frames) - 1 /\ DOMAIN frames' = 1..(Len(frames) - 1)
      /\ \A i \in DOMAIN frames' : i \in DOMAIN frames /\ frames'[i] = frames[i]
      /\ frames' \in Seq(FrameSet)
  BY DEF FramesClose
<1>2. \A i \in DOMAIN frames' : i # Len(frames)
  BY <1>0, <1>1
<1>3. \A i \in DOMAIN frames' : ~frames'[i].gas
  BY <1>1, <1>2 DEF FrameInv
<1>4. frames' # <<>> => ~Top'.gas
  <2>1. frames' # <<>> => Len(frames') \in DOMAIN frames'
    BY <1>1
  <2> QED
    BY <1>3, <2>1 DEF Top
<1>5. ASSUME NEW i \in DOMAIN frames'
      PROVE  /\ frames'[i].contract = Creator => i = 1
             /\ frames'[i].type = "CREATE2" => frames'[i].contract \in {Sender, Codeless}
             /\ frames'[i].deployed \cup {Sender} = Existing
  BY <1>1, <1>5 DEF FrameInv
<1> QED
  BY <1>3, <1>4, <1>5 DEF FrameInv, Existing

LEMMA TouchTypes ==
    ASSUME NEW addr \in Addresses
    PROVE  Touch(addr) \in SUBSET FactSet
<1>1. <<"no code", addr>> \in FactSet /\ <<"small code", addr>> \in FactSet
  BY DEF FactSet
<1> HIDE DEF FactSet
<1> QED
  BY <1>1 DEF Touch

(* An instruction that opens no frame. *)
LEMMA GoesOn ==
    ASSUME Basics, NEW op \in OpCodes, NEW facts \in SUBSET FactSet, Instruction(op, facts),
           frames' = Running(op), LastOnly(tracer, tracer'),
           Level(tracer').topLevelMethodSig = Title, tracer'.lastOp = op,
           storage' \in SUBSET (Addresses \X Slots),
           UNCHANGED <<userOp, todo, deployed, verdict>>
    PROVE  Basics' /\ FramesStay(op = "GAS")
<1> USE DEF Basics
<1>1. /\ did' \in SUBSET (PhaseSigs \X FactSet) /\ steps' \in 0..MaxSteps
      /\ frames # <<>> /\ Levels # <<>> /\ Top \in FrameSet /\ Top.runs /\ Top.contract # Creator
  BY InstructionTypes
<1>2. FramesStay(op = "GAS")
  BY <1>1, FramesGoOn
<1>3. TypeInv'
  <2>1. tracer' \in TracerSet /\ frames' \in Seq(FrameSet) /\ Len(frames') <= MaxDepth
    BY <1>2 DEF LastOnly, FramesStay, TypeInv
  <2>2. deployed' \in SUBSET Addresses /\ todo' \in Seq(PhaseSigs \cup {"failed"})
    BY DEF TypeInv
  <2> QED
    BY <1>1, <2>1, <2>2, TypeStep
<1>4. PhaseInv'
  <2>1. Notes(facts \cup {<<"op", op>>} \cup LoneGas(op))
    BY NoteProperties DEF Instruction
  <2>2. 1 \in DOMAIN frames
    BY <1>1, TopProperties
  <2>3. SameFrame(frames'[1], frames[1])
    BY <1>2, <2>2 DEF FramesStay
  <2> QED
    BY <1>1, <2>1, <2>3, PhaseStep
<1>5. FrameInv'
  BY <1>1, <1>2, FrameStays
<1> QED
  BY <1>2, <1>3, <1>4, <1>5

(* A call, by an instruction or by the creator. *)
LEMMA OpensFrame ==
    ASSUME Basics, frames # <<>>, NEW N, Notes(N), did' \in SUBSET (PhaseSigs \X FactSet),
           steps' \in 0..MaxSteps, NEW frame \in FrameSet, FramesOpen(frame), Len(frames) < MaxDepth,
           LastOnly(tracer, tracer'), Level(tracer').topLevelMethodSig = Title,
           tracer'.lastOp # "GAS", UNCHANGED <<userOp, todo, storage, deployed, verdict>>,
           frame.gas = FALSE, frame.contract # Creator,
           frame.type = "CREATE2" => frame.contract \in {Sender, Codeless}, frame.deployed = deployed
    PROVE  Basics'
<1> USE DEF Basics
<1>1. TypeInv'
  <2>1. tracer' \in TracerSet /\ frames' \in Seq(FrameSet) /\ Len(frames') = Len(frames) + 1
    BY DEF LastOnly, FramesOpen
  <2>2. Len(frames) \in Nat /\ MaxDepth \in Nat
    BY BoundAssumption, TopProperties
  <2>3. Len(frames') <= MaxDepth
    BY <2>1, <2>2
  <2>4. /\ storage' \in SUBSET (Addresses \X Slots) /\ deployed' \in SUBSET Addresses
        /\ todo' \in Seq(PhaseSigs \cup {"failed"})
    BY DEF TypeInv
  <2> QED
    BY <2>1, <2>3, <2>4, TypeStep
<1>2. PhaseInv'
  <2>1. 1 \in DOMAIN frames
    BY TopProperties
  <2>2. SameFrame(frames'[1], frames[1])
    BY <2>1 DEF FramesOpen
  <2> QED
    BY <2>2, PhaseStep
<1>3. FrameInv'
  BY FrameOpens
<1> QED
  BY <1>1, <1>2, <1>3

LEMMA PlainBasics ==
    ASSUME Basics, NEW op \in PlainOps, Plain(op), UNCHANGED verdict
    PROVE  Basics' /\ FramesStay(op = "GAS")
<1>1. Levels # <<>> /\ TypeInv /\ op \in OpCodes
  BY DEF Basics, Plain, Instruction, PhaseInv, OpCodes
<1>2. /\ LastOnly(tracer, tracer') /\ Level(tracer').topLevelMethodSig = Title
      /\ tracer'.lastOp = op
  BY <1>1, PlainEffect DEF Effect, Becomes
<1>3. storage' \in SUBSET (Addresses \X Slots)
  BY <1>1 DEF TypeInv, Plain
<1>4. /\ Instruction(op, {}) /\ frames' = Running(op)
      /\ UNCHANGED <<userOp, todo, deployed, verdict>>
  BY DEF Plain
<1> QED
  BY <1>1, <1>2, <1>3, <1>4, GoesOn

LEMMA KeccakBasics ==
    ASSUME Basics, NEW input \in KeccakInputs, Keccak(input), UNCHANGED verdict
    PROVE  Basics' /\ FramesStay(FALSE)
<1>1. Levels # <<>> /\ TypeInv /\ "KECCAK256" \in OpCodes
  BY DEF Basics, Keccak, Instruction, PhaseInv, OpCodes
<1>2. /\ LastOnly(tracer, tracer') /\ Level(tracer').topLevelMethodSig = Title
      /\ tracer'.lastOp = "KECCAK256"
  BY <1>1, KeccakEffect DEF Effect, Becomes
<1>3. storage' \in SUBSET (Addresses \X Slots)
  BY <1>1 DEF TypeInv, Keccak
<1>4. {<<"keccak", input>>} \in SUBSET FactSet
  <2>1. <<"keccak", input>> \in FactSet
    BY DEF FactSet
  <2> HIDE DEF FactSet
  <2> QED
    BY <2>1
<1>5. /\ Instruction("KECCAK256", {<<"keccak", input>>}) /\ frames' = Running("KECCAK256")
      /\ UNCHANGED <<userOp, todo, deployed, verdict>>
  BY DEF Keccak
<1>6. Basics' /\ FramesStay("KECCAK256" = "GAS")
  BY <1>1, <1>2, <1>3, <1>4, <1>5, GoesOn
<1>7. ("KECCAK256" = "GAS") = FALSE
  OBVIOUS
<1> QED
  BY <1>6, <1>7

LEMMA AccessBasics ==
    ASSUME Basics, NEW op \in {"SLOAD", "SSTORE"}, NEW slot \in Slots, Access(op, slot),
           UNCHANGED verdict
    PROVE  Basics' /\ FramesStay(FALSE)
<1>1. Levels # <<>> /\ TypeInv /\ op \in OpCodes /\ frames # <<>>
  BY DEF Basics, Access, Instruction, PhaseInv, OpCodes
<1>2. /\ LastOnly(tracer, tracer') /\ Level(tracer').topLevelMethodSig = Title
      /\ tracer'.lastOp = op
  BY <1>1, AccessEffect DEF Effect, Becomes
<1>3. <<Top.contract, slot>> \in Addresses \X Slots
  BY <1>1, TopProperties DEF FrameSet
<1>4. storage' \in SUBSET (Addresses \X Slots)
  BY <1>1, <1>3 DEF TypeInv, Access
<1>5. {<<"access", <<Top.contract, slot>>>>} \in SUBSET FactSet
  <2>1. <<"access", <<Top.contract, slot>>>> \in FactSet
    BY <1>3 DEF FactSet
  <2> HIDE DEF FactSet
  <2> QED
    BY <2>1
<1>6. /\ Instruction(op, {<<"access", <<Top.contract, slot>>>>}) /\ frames' = Running(op)
      /\ UNCHANGED <<userOp, todo, deployed, verdict>>
  BY DEF Access
<1>7. Basics' /\ FramesStay(op = "GAS")
  BY <1>1, <1>2, <1>4, <1>5, <1>6, GoesOn
<1>8. (op = "GAS") = FALSE
  OBVIOUS
<1> QED
  BY <1>7, <1>8

LEMMA ExtCodeBasics ==
    ASSUME Basics, NEW addr \in ExternalOps, ExtCode(addr), UNCHANGED verdict
    PROVE  Basics' /\ FramesStay(FALSE)
<1>1. Levels # <<>> /\ TypeInv /\ "EXTCODESIZE" \in OpCodes /\ addr \in Addresses
  BY DEF Basics, ExtCode, Instruction, PhaseInv, OpCodes, Addresses
<1>2. /\ LastOnly(tracer, tracer') /\ Level(tracer').topLevelMethodSig = Title
      /\ tracer'.lastOp = "EXTCODESIZE"
  BY <1>1, ExtCodeEffect DEF Effect, Becomes
<1>3. storage' \in SUBSET (Addresses \X Slots)
  BY <1>1 DEF TypeInv, ExtCode
<1>4. Touch(addr) \in SUBSET FactSet
  BY <1>1, TouchTypes
<1>5. /\ Instruction("EXTCODESIZE", Touch(addr)) /\ frames' = Running("EXTCODESIZE")
      /\ UNCHANGED <<userOp, todo, deployed, verdict>>
  BY DEF ExtCode
<1>6. Basics' /\ FramesStay("EXTCODESIZE" = "GAS")
  BY <1>1, <1>2, <1>3, <1>4, <1>5, GoesOn
<1>7. ("EXTCODESIZE" = "GAS") = FALSE
  OBVIOUS
<1> QED
  BY <1>6, <1>7

(* The frame that a nested call opens. *)
NestedFrame(call) ==
    Frame(call.type, call.to, IF call.type = "DELEGATECALL" THEN Top.contract ELSE call.to,
          call.method, call.to \in deployed, Top.static \/ call.type = "STATICCALL")

IsNew(frame, type, to, contract, method) ==
    /\ frame \in FrameSet /\ frame.gas = FALSE /\ frame.deployed = deployed
    /\ frame.storage = storage /\ frame.type = type /\ frame.to = to
    /\ frame.contract = contract /\ frame.method = method

LEMMA NewFrame ==
    ASSUME TypeInv, NEW type \in CallTypes, NEW to \in Addresses, NEW contract \in Addresses,
           NEW method \in Methods, NEW runs \in BOOLEAN, NEW static \in BOOLEAN
    PROVE  IsNew(Frame(type, to, contract, method, runs, static), type, to, contract, method)
<1>1. storage \in SUBSET (Addresses \X Slots) /\ deployed \in SUBSET Addresses
  BY DEF TypeInv
<1> QED
  BY <1>1 DEF Frame, FrameSet, IsNew

LEMMA NestedCallBasics ==
    ASSUME Basics, NEW call \in NestedCalls, NestedCall(call), UNCHANGED verdict
    PROVE  /\ Basics' /\ FramesOpen(NestedFrame(call)) /\ NestedFrame(call).to = call.to
           /\ NestedFrame(call).method = call.method /\ NestedFrame(call).storage = storage
<1>1. /\ Levels # <<>> /\ TypeInv /\ FrameInv /\ PhaseInv /\ frames # <<>>
      /\ Top.contract # Creator /\ Len(frames) < MaxDepth
  BY DEF Basics, NestedCall, Instruction, PhaseInv
<1>2. /\ call.type \in CallOps /\ call.type \in OpCodes /\ call.type \in CallTypes
      /\ call.to \in Addresses /\ call.method \in Methods /\ call.to # Creator
      /\ call.type # "CREATE2" /\ call.type # "GAS"
  BY StepAssumption DEF CallTypes, CallOps, OpCodes, Addresses, Methods
<1>3. PICK frame : frame = NestedFrame(call)
  OBVIOUS
<1>4. Top.contract \in Addresses /\ Top.static \in BOOLEAN
  BY <1>1, TopProperties DEF FrameSet
<1>5. PICK contract \in Addresses :
         contract = (IF call.type = "DELEGATECALL" THEN Top.contract ELSE call.to)
  BY <1>2, <1>4
<1>6. contract # Creator
  BY <1>1, <1>2, <1>5
<1> DEFINE runs == call.to \in deployed
           static == Top.static \/ call.type = "STATICCALL"
<1>7. runs \in BOOLEAN /\ static \in BOOLEAN
  BY <1>4
<1>8. frame = Frame(call.type, call.to, contract, call.method, runs, static)
  BY <1>3, <1>5 DEF NestedFrame
<1> HIDE DEF runs, static
<1>9. IsNew(frame, call.type, call.to, contract, call.method)
  BY <1>1, <1>2, <1>7, <1>8, NewFrame
<1>10. /\ frame \in FrameSet /\ frame.gas = FALSE /\ frame.deployed = deployed
       /\ frame.storage = storage /\ frame.type = call.type /\ frame.to = call.to
       /\ frame.contract = contract /\ frame.method = call.method
  BY <1>9 DEF IsNew
<1>11. frames' = Append(Running(call.type), frame)
  BY <1>3 DEF NestedCall, NestedFrame
<1>12. FramesOpen(frame)
  BY <1>1, <1>2, <1>10, <1>11, FramesPush
<1>13. /\ LastOnly(tracer, tracer') /\ Level(tracer').topLevelMethodSig = Title
       /\ tracer'.lastOp = call.type
  BY <1>1, NestedCallEffect DEF Effect, Becomes
<1>14. Touch(call.to) \cup {<<"call", Top.contract, call.to, call.method>>} \in SUBSET FactSet
  <2>1. <<"call", Top.contract, call.to, call.method>> \in FactSet
    BY <1>2, <1>4 DEF FactSet
  <2>2. Touch(call.to) \in SUBSET FactSet
    BY <1>2, TouchTypes
  <2> HIDE DEF FactSet
  <2> QED
    BY <2>1, <2>2
<1>15. /\ Instruction(call.type,
              Touch(call.to) \cup {<<"call", Top.contract, call.to, call.method>>})
       /\ UNCHANGED <<userOp, todo, storage, deployed, verdict>>
  BY DEF NestedCall
<1>16. did' \in SUBSET (PhaseSigs \X FactSet) /\ steps' \in 0..MaxSteps
  BY <1>1, <1>2, <1>14, <1>15, InstructionTypes
<1>17. PICK N : Notes(N)
  BY <1>15, NoteProperties DEF Instruction
<1>18. Basics'
  BY <1>1, <1>2, <1>6, <1>10, <1>12, <1>13, <1>15, <1>16, <1>17, OpensFrame
<1> QED
  BY <1>3, <1>10, <1>12, <1>18

FactoryFrame == Frame("CALL", Factory, Factory, "createAccount", TRUE, FALSE)

LEMMA CallFactoryBasics ==
    ASSUME Basics, CallFactory, UNCHANGED verdict
    PROVE  /\ Basics' /\ FramesOpen(FactoryFrame) /\ FactoryFrame.to = Factory
           /\ FactoryFrame.method = "createAccount" /\ FactoryFrame.storage = storage
<1>1. /\ Levels # <<>> /\ TypeInv /\ FrameInv /\ PhaseInv /\ frames # <<>>
      /\ Top.contract = Creator
  BY DEF Basics, CallFactory, PhaseInv
<1>2. PICK frame : frame = FactoryFrame
  OBVIOUS
<1>3. /\ "CALL" \in CallTypes /\ Factory \in Addresses /\ "createAccount" \in Methods
  BY DEF CallTypes, CallOps, Addresses, Existing, Methods
<1>4. /\ frame \in FrameSet /\ frame.gas = FALSE /\ frame.deployed = deployed
      /\ frame.storage = storage /\ frame.type = "CALL" /\ frame.to = Factory
      /\ frame.contract = Factory /\ frame.method = "createAccount"
  <2>1. frame = Frame("CALL", Factory, Factory, "createAccount", TRUE, FALSE)
    BY <1>2 DEF FactoryFrame
  <2>2. TRUE \in BOOLEAN /\ FALSE \in BOOLEAN
    OBVIOUS
  <2>3. IsNew(frame, "CALL", Factory, Factory, "createAccount")
    BY <1>1, <1>3, <2>1, <2>2, NewFrame
  <2> QED
    BY <2>3 DEF IsNew
<1>5. Len(frames) = 1
  BY <1>1, TopProperties DEF FrameInv, Top
<1>6. FramesOpen(frame)
  <2>1. frames \in Seq(FrameSet) /\ DOMAIN frames = {1}
    BY <1>1, <1>5 DEF TypeInv
  <2>2. Top = frames[1] /\ frames[1] \in FrameSet
    BY <1>5, <2>1 DEF Top
  <2>3. frames[1].gas = FALSE
    <3>1. ~frames[1].gas
      BY <1>1, <2>1, <2>2 DEF FrameInv
    <3> QED
      BY <2>2, <3>1 DEF FrameSet
  <2>4. \A i \in DOMAIN frames : SameFrame(frames[i], frames[i]) /\ frames[i].gas = FALSE
    BY <2>1, <2>3 DEF SameFrame
  <2>5. frames' = Append(frames, frame)
    BY <1>2 DEF CallFactory, FactoryFrame
  <2> QED
    BY <1>4, <2>1, <2>4, <2>5, AppendedFrames
<1>7. /\ LastOnly(tracer, tracer') /\ Level(tracer').topLevelMethodSig = Title
      /\ tracer'.lastOp = "CALL"
  BY <1>1, CallFactoryEffect DEF Effect, Becomes
<1>8. Note({<<"called">>}) /\ UNCHANGED <<userOp, todo, storage, deployed, verdict>>
      /\ steps' = steps
  BY DEF CallFactory
<1>9. did' \in SUBSET (PhaseSigs \X FactSet)
  <2>1. {<<"called">>} \in SUBSET FactSet
    BY DEF FactSet
  <2> QED
    BY <1>1, <1>8, <2>1, NoteTypes
<1>10. Notes({<<"called">>})
  BY <1>8, NoteProperties
<1>11. steps' \in 0..MaxSteps /\ Len(frames) < MaxDepth
  BY <1>1, <1>5, <1>8, BoundAssumption DEF TypeInv
<1>12. Basics'
  BY <1>1, <1>4, <1>6, <1>7, <1>8, <1>9, <1>10, <1>11, Distinct, OpensFrame
<1> QED
  BY <1>2, <1>4, <1>6, <1>12

CreatedFrame == Frame("CREATE2", Made, Made, "", Top.contract = Factory /\ Sender \notin deployed, FALSE)

LEMMA Create2Basics ==
    ASSUME Basics, Create2, UNCHANGED verdict
    PROVE  /\ Basics' /\ FramesOpen(CreatedFrame) /\ CreatedFrame.to = Made
           /\ CreatedFrame.method = "" /\ CreatedFrame.storage = storage
<1>1. /\ Levels # <<>> /\ TypeInv /\ FrameInv /\ PhaseInv /\ frames # <<>>
      /\ Len(frames) < MaxDepth
  BY DEF Basics, Create2, Instruction, PhaseInv
<1>2. PICK frame : frame = CreatedFrame
  OBVIOUS
<1>3. /\ "CREATE2" \in CallTypes /\ "CREATE2" \in OpCodes /\ "" \in Methods
      /\ Made \in {Sender, Codeless} /\ Made \in Addresses
  BY DEF CallTypes, OpCodes, Methods, Addresses, Existing, Made
<1> DEFINE runs == Top.contract = Factory /\ Sender \notin deployed
<1>4. runs \in BOOLEAN /\ FALSE \in BOOLEAN
  OBVIOUS
<1>5. frame = Frame("CREATE2", Made, Made, "", runs, FALSE)
  BY <1>2 DEF CreatedFrame
<1>6. frames' = Append(Running("CREATE2"), frame)
  BY <1>2 DEF Create2, CreatedFrame, Made
<1> HIDE DEF runs
<1>7. IsNew(frame, "CREATE2", Made, Made, "")
  BY <1>1, <1>3, <1>4, <1>5, NewFrame
<1>8. /\ frame \in FrameSet /\ frame.gas = FALSE /\ frame.deployed = deployed
      /\ frame.storage = storage /\ frame.type = "CREATE2" /\ frame.to = Made
      /\ frame.contract = Made /\ frame.method = ""
  BY <1>7 DEF IsNew
<1>9. FramesOpen(frame)
  <2>1. "CREATE2" # "GAS"
    OBVIOUS
  <2> QED
    BY <1>1, <1>6, <1>8, <2>1, FramesPush
<1>10. /\ LastOnly(tracer, tracer') /\ Level(tracer').topLevelMethodSig = Title
       /\ tracer'.lastOp = "CREATE2"
  BY <1>1, Create2Effect DEF Effect, Becomes
<1>11. Again \in SUBSET FactSet
  <2>1. <<"second CREATE2">> \in FactSet
    BY DEF FactSet
  <2> HIDE DEF FactSet
  <2> QED
    BY <2>1 DEF Again
<1>12. Instruction("CREATE2", Again) /\ UNCHANGED <<userOp, todo, storage, deployed, verdict>>
  BY DEF Create2, Again
<1>13. did' \in SUBSET (PhaseSigs \X FactSet) /\ steps' \in 0..MaxSteps
  BY <1>1, <1>3, <1>11, <1>12, InstructionTypes
<1>14. PICK N : Notes(N)
  BY <1>12, NoteProperties DEF Instruction
<1>15. frame.contract # Creator /\ tracer'.lastOp # "GAS"
       /\ (frame.type = "CREATE2" => frame.contract \in {Sender, Codeless})
  BY <1>3, <1>8, <1>10, Distinct
<1>16. Basics'
  BY <1>1, <1>8, <1>9, <1>10, <1>12, <1>13, <1>14, <1>15, OpensFrame
<1> QED
  BY <1>2, <1>8, <1>9, <1>16

LEMMA FramesLeft ==
    ASSUME TypeInv, frames # <<>>, FramesClose
    PROVE  /\ Len(frames') <= MaxDepth
           /\ frames' # <<>> => 1 \in DOMAIN frames'
           /\ Len(frames) = 1 => frames' = <<>>
<1>1. frames' \in Seq(FrameSet) /\ Len(frames') = Len(frames) - 1
  BY DEF FramesClose
<1>2. Len(frames) \in Nat /\ Len(frames) <= MaxDepth /\ MaxDepth \in Nat
  BY TopProperties, BoundAssumption DEF TypeInv
<1>3. Len(frames') <= MaxDepth
  BY <1>1, <1>2
<1>4. frames' # <<>> => 1 \in DOMAIN frames'
  BY <1>1, EmptySeq, LenProperties
<1>5. Len(frames) = 1 => frames' = <<>>
  BY <1>1, EmptySeq
<1> QED
  BY <1>3, <1>4, <1>5

LEMMA FailedTodo == <<"failed">> \in Seq(PhaseSigs \cup {"failed"})
OBVIOUS

LEMMA EndFrameBasics ==
    ASSUME Basics, NEW how \in {"RETURN", "REVERT", "OUT OF GAS"}, NEW data \in Returns,
           EndFrame(how, data), UNCHANGED verdict
    PROVE  Basics' /\ FramesClose
<1>1. /\ Levels # <<>> /\ TypeInv /\ FrameInv /\ PhaseInv /\ frames # <<>>
  BY DEF Basics, EndFrame, PhaseInv
<1>2. FramesClose
  BY <1>1, FramesPop DEF EndFrame
<1> DEFINE lastOp == IF Top.runs THEN EndOp(how) ELSE tracer.lastOp
           N == EndNotes(how, data)
<1>3. /\ LastOnly(tracer, tracer') /\ Level(tracer').topLevelMethodSig = Title
      /\ tracer'.lastOp = lastOp /\ Notes(N)
  BY <1>1, EndFrameEffect DEF Effect, Becomes
<1>4. Top \in FrameSet /\ Len(frames) \in DOMAIN frames /\ Len(frames) \in Nat \ {0}
      /\ DOMAIN frames = 1..Len(frames)
  BY <1>1, TopProperties
<1>5. tracer'.lastOp # "GAS"
  <2>1. CASE Top.runs
    BY <1>3, <2>1 DEF EndOp
  <2>2. CASE ~Top.runs
    <3>1. ~Top.gas
      BY <1>1, <1>4, <2>2 DEF FrameInv, Top
    <3>2. tracer.lastOp # "GAS"
      BY <1>1, <3>1 DEF FrameInv
    <3> QED
      BY <1>3, <2>2, <3>2
  <2> QED
    BY <1>4, <2>1, <2>2 DEF FrameSet
<1>6. did' \in SUBSET (PhaseSigs \X FactSet)
  <2>1. N \in SUBSET FactSet
    <3>1. /\ <<"lone GAS">> \in FactSet /\ <<"OUT OF GAS">> \in FactSet /\ <<"context">> \in FactSet
          /\ <<"long context">> \in FactSet
      BY DEF FactSet
    <3>2. <<"failed", Top.to, Top.method>> \in FactSet
      BY <1>4 DEF FactSet, FrameSet
    <3> HIDE DEF FactSet
    <3>3. LoneGas(how) \in SUBSET FactSet
      BY <3>1 DEF LoneGas
    <3>4. Failed(how) \in SUBSET FactSet
      BY <3>2 DEF Failed
    <3>5. Returned(data) \in SUBSET FactSet
      BY <3>1 DEF Returned, Returns
    <3>6. {<<what>> : what \in {how} \cap {"OUT OF GAS"}} \in SUBSET FactSet
      BY <3>1
    <3> QED
      BY <3>3, <3>4, <3>5, <3>6 DEF EndNotes
  <2>2. Note(N)
    BY DEF EndFrame, Failed, EndNotes
  <2> HIDE DEF N
  <2> QED
    BY <1>1, <2>1, <2>2, NoteTypes
<1> HIDE DEF N, lastOp
<1>7. /\ userOp' = userOp /\ steps' = steps
      /\ todo' = todo \/ (todo' = <<"failed">> /\ Len(frames) = 1)
      /\ storage' = storage \/ storage' = Top.storage
      /\ \/ deployed' = deployed \/ deployed' = Top.deployed
         \/ Top.type = "CREATE2" /\ deployed' = deployed \cup ({Top.contract} \ {Codeless})
  BY DEF EndFrame
<1>8. deployed' \cup {Sender} = Existing
  <2>1. deployed \cup {Sender} = Existing /\ Top.deployed \cup {Sender} = Existing
        /\ (Top.type = "CREATE2" => Top.contract \in {Sender, Codeless})
    BY <1>1, <1>4 DEF FrameInv, Top
  <2> QED
    BY <1>7, <2>1
<1>9. TypeInv'
  <2>1. tracer' \in TracerSet /\ frames' \in Seq(FrameSet) /\ Len(frames') = Len(frames) - 1
    BY <1>2, <1>3 DEF LastOnly, FramesClose
  <2>2. Len(frames') <= MaxDepth
    BY <1>1, <1>2, FramesLeft
  <2>3. storage' \in SUBSET (Addresses \X Slots)
    BY <1>1, <1>4, <1>7 DEF TypeInv, FrameSet
  <2>4. deployed' \in SUBSET Addresses
    BY <1>8 DEF Addresses
  <2>5. todo' \in Seq(PhaseSigs \cup {"failed"})
    <3>1. todo \in Seq(PhaseSigs \cup {"failed"})
      BY <1>1 DEF TypeInv
    <3> QED
      BY <1>7, <3>1, FailedTodo
  <2>6. steps' \in 0..MaxSteps
    BY <1>1, <1>7 DEF TypeInv
  <2> QED
    BY <1>1, <1>6, <1>7, <2>1, <2>2, <2>3, <2>4, <2>5, <2>6, TypeStep
<1>10. PhaseInv'
  <2>0. /\ frames' # <<>> => 1 \in DOMAIN frames'
        /\ Len(frames) = 1 => frames' = <<>>
    BY <1>1, <1>2, FramesLeft
  <2>1. frames' # <<>> => SameFrame(frames'[1], frames[1])
    <3>1. frames' # <<>> => 1 \in DOMAIN frames'
      BY <1>2, <2>0
    <3>2. frames' # <<>> => frames'[1] = frames[1]
      BY <1>2, <3>1 DEF FramesClose
    <3> QED
      BY <3>2 DEF SameFrame
  <2> QED
    BY <1>1, <1>3, <1>6, <1>7, <2>0, <2>1, PhaseStep
<1>11. FrameInv'
  BY <1>1, <1>2, <1>5, <1>8, FrameCloses
<1> QED
  BY <1>2, <1>9, <1>10, <1>11 DEF Basics

TopLevelFrame == Frame("CALL", Target(NewLevel), Target(NewLevel), NewLevel, TRUE, FALSE)

LEMMA CallEntityBasics ==
    ASSUME Basics, CallEntity, UNCHANGED verdict
    PROVE  /\ Basics' /\ frames' = <<TopLevelFrame>>
           /\ IsNew(TopLevelFrame, "CALL", Target(NewLevel), Target(NewLevel), NewLevel)
<1>1. TypeInv /\ PhaseInv /\ FrameInv
  BY DEF Basics
<1>2. /\ Len(Levels) < Len(Phases(userOp)) /\ NewLevel = Phases(userOp)[Len(Levels) + 1]
      /\ NewLevel \in PhaseSigs
      /\ Tail(todo) = SubSeq(Phases(userOp), (Len(Levels) + 1) + 1, Len(Phases(userOp)))
      /\ Phases(userOp) \in Seq(PhaseSigs)
  BY <1>1, NextPhase
<1>3. Target(NewLevel) \in Addresses /\ NewLevel \in Methods /\ "CALL" \in CallTypes
  BY <1>2, TargetProperties DEF Addresses, Existing, Methods, CallTypes, CallOps
<1>4. IsNew(TopLevelFrame, "CALL", Target(NewLevel), Target(NewLevel), NewLevel)
  BY <1>1, <1>3, NewFrame DEF TopLevelFrame
<1>5. frames' = <<TopLevelFrame>>
  BY DEF CallEntity, TopLevelFrame, NewLevel
<1>6. /\ tracer' \in TracerSet /\ tracer'.lastOp = ""
  BY <1>1, CallEntityEffect
<1>7. /\ userOp' = userOp /\ storage' = storage /\ deployed' = deployed /\ steps' = steps
      /\ did' = did /\ todo' = Tail(todo)
  BY DEF CallEntity
<1> DEFINE p == Phases(userOp)
           n == Len(Levels)
<1>8. TopLevelFrame \in FrameSet /\ TopLevelFrame.gas = FALSE
      /\ TopLevelFrame.deployed = deployed /\ TopLevelFrame.type = "CALL"
      /\ TopLevelFrame.method = NewLevel /\ TopLevelFrame.to = Target(NewLevel)
  BY <1>4 DEF IsNew
<1> HIDE DEF TopLevelFrame
<1>9. /\ frames' \in Seq(FrameSet) /\ Len(frames') = 1 /\ frames'[1] = TopLevelFrame
      /\ DOMAIN frames' = {1}
  BY <1>5, <1>8
<1>10. n \in Nat /\ Len(p) \in Nat /\ Levels \in Seq(LevelSet)
  BY <1>1, <1>2, NextPhase
<1>11. todo' \in Seq(PhaseSigs) /\ todo' # <<"failed">>
  <2>1. todo' = SubSeq(p, (n + 1) + 1, Len(p))
    BY <1>2, <1>7
  <2> HIDE DEF p, n
  <2>2. todo' \in Seq(PhaseSigs)
    BY <1>2, <1>10, <2>1 DEF p
  <2>3. "failed" \notin PhaseSigs
    BY DEF PhaseSigs
  <2>4. \A s \in Seq(PhaseSigs) : s # <<>> => s[1] \in PhaseSigs
    OBVIOUS
  <2>5. <<"failed">>[1] = "failed" /\ <<"failed">> # <<>>
    OBVIOUS
  <2> QED
    BY <2>2, <2>3, <2>4, <2>5
<1>12. TypeInv'
  <2>1. Len(frames') <= MaxDepth
    BY <1>9, BoundAssumption
  <2>2. todo' \in Seq(PhaseSigs \cup {"failed"})
    <3> HIDE DEF PhaseSigs
    <3> QED
      BY <1>11
  <2>3. /\ did' \in SUBSET (PhaseSigs \X FactSet) /\ storage' \in SUBSET (Addresses \X Slots)
        /\ deployed' \in SUBSET Addresses /\ steps' \in 0..MaxSteps
    BY <1>1, <1>7 DEF TypeInv
  <2> QED
    BY <1>1, <1>6, <1>7, <1>9, <2>1, <2>2, <2>3, TypeStep
<1>13. /\ Len(Levels') = n + 1 /\ DOMAIN Levels' = 1..(n + 1) /\ DOMAIN Levels = 1..n
  BY <1>1, CallEntityLevels
<1>14. /\ \A i \in 1..n : Levels'[i] = Levels[i]
       /\ Levels'[n + 1].topLevelMethodSig = NewLevel
       /\ Level(tracer').topLevelMethodSig = NewLevel
  BY <1>1, CallEntityLevels DEF TopLevelCallInfo
<1>15. PhaseInv'
  <2>1. /\ \A i \in 1..n : Levels[i].topLevelMethodSig = p[i]
        /\ \A f \in did : \E i \in 1..n : f[1] = Levels[i].topLevelMethodSig
    BY <1>1, <1>13 DEF PhaseInv
  <2>2. Phases(userOp)' = p
    BY <1>7 DEF Phases
  <2>3. todo' = SubSeq(p, (n + 1) + 1, Len(p)) /\ n + 1 <= Len(p) /\ NewLevel = p[n + 1]
    BY <1>2, <1>7, <1>10
  <2> HIDE DEF p, n
  <2>4. \A i \in 1..(n + 1) : Levels'[i].topLevelMethodSig = p[i]
    <3> SUFFICES ASSUME NEW i \in 1..(n + 1) PROVE Levels'[i].topLevelMethodSig = p[i]
      OBVIOUS
    <3>1. CASE i = n + 1
      BY <1>14, <2>3, <3>1
    <3>2. CASE i # n + 1
      <4>1. i \in 1..n
        BY <1>10, <3>2
      <4> QED
        BY <1>14, <2>1, <4>1
    <3> QED
      BY <3>1, <3>2
  <2>5. \A f \in did' : \E i \in 1..(n + 1) : f[1] = Levels'[i].topLevelMethodSig
    <3> SUFFICES ASSUME NEW f \in did'
                 PROVE  \E i \in 1..(n + 1) : f[1] = Levels'[i].topLevelMethodSig
      OBVIOUS
    <3>1. PICK i \in 1..n : f[1] = Levels[i].topLevelMethodSig
      BY <1>7, <2>1
    <3>2. i \in 1..(n + 1)
      BY <1>10
    <3> QED
      BY <1>14, <3>1, <3>2
  <2>6. Title' = NewLevel /\ Target(Title)' = Target(NewLevel)
    BY <1>14 DEF Title, Target
  <2>7. Levels' # <<>>
    BY <1>10, <1>13
  <2>8. frames'[1].method = Title' /\ frames'[1].to = Target(Title)'
    BY <1>8, <1>9, <2>6
  <2> QED
    BY <1>11, <1>13, <2>2, <2>3, <2>4, <2>5, <2>7, <2>8 DEF PhaseInv
<1>16. FrameInv'
  <2>1. frames' # <<>> /\ Top' = TopLevelFrame
    BY <1>9 DEF Top
  <2>2. ~Top'.gas /\ tracer'.lastOp # "GAS"
    BY <1>6, <1>8, <2>1
  <2>3. deployed \cup {Sender} = Existing
    BY <1>1 DEF FrameInv
  <2>4. \A i \in DOMAIN frames' : i = 1 /\ frames'[i] = TopLevelFrame
    BY <1>9
  <2>5. (deployed \cup {Sender} = Existing)'
    BY <1>7, <2>3 DEF Existing
  <2>6. \A i \in DOMAIN frames' :
          /\ frames'[i].gas => i = Len(frames') /\ frames'[i].runs /\ frames'[i].contract # Creator
          /\ frames'[i].contract = Creator => i = 1
          /\ frames'[i].type = "CREATE2" => frames'[i].contract \in {Sender, Codeless}
          /\ frames'[i].deployed \cup {Sender} = Existing
    BY <1>8, <2>3, <2>4
  <2> QED
    BY <2>2, <2>5, <2>6 DEF FrameInv
<1> QED
  BY <1>4, <1>5, <1>12, <1>15, <1>16 DEF Basics

(* The exit of simulateValidation itself. *)
LEMMA RevertsEffect ==
    ASSUME TypeInv, EntryPointReverts
    PROVE  /\ tracer' \in TracerSet /\ Levels' = Levels /\ tracer'.keccak = tracer.keccak
           /\ tracer'.calls = Append(tracer.calls, ExitOf("REVERT", "0x"))
           /\ ExitOf("REVERT", "0x") \in ExitSet
<1> DEFINE c == ExitOf("REVERT", "0x")
<1>1. c \in ExitSet /\ tracer \in TracerSet
  BY DEF ExitOf, ExitSet, Kept, Data, TypeInv
<1>2. tracer' = [tracer EXCEPT !.calls = Append(@, c)]
  BY DEF EntryPointReverts, TraceExit, ExitOf
<1> HIDE DEF c
<1> QED
  BY <1>1, <1>2, AppendCallProperties DEF Levels, c

LEMMA SameBasics ==
    ASSUME Basics, UNCHANGED <<evmVars, did>>, tracer' \in TracerSet, Levels' = Levels,
           frames = <<>> \/ tracer' = tracer,
           verdict' \in {"tracing", "traced", "ok", "SimulateValidation", "OpcodeValidation",
                         "InvalidSignature", "NotInTimeRange", "UnsupportedSignatureAggregator"}
    PROVE  Basics'
<1>1. /\ userOp' = userOp /\ todo' = todo /\ frames' = frames /\ storage' = storage
      /\ deployed' = deployed /\ steps' = steps /\ did' = did
  BY DEF evmVars
<1>2. TypeInv /\ PhaseInv /\ FrameInv
  BY DEF Basics
<1>3. TypeInv'
  BY <1>1, <1>2 DEF TypeInv
<1>4. PhaseInv'
  <2>1. Phases(userOp)' = Phases(userOp) /\ Title' = Title /\ Target(Title)' = Target(Title)
    BY <1>1 DEF Phases, Title, Target, Level, Levels
  <2> QED
    BY <1>1, <1>2, <2>1 DEF PhaseInv
<1>5. FrameInv'
  <2>1. frames' # <<>> => tracer' = tracer /\ Top' = Top
    BY <1>1 DEF Top
  <2> QED
    BY <1>1, <1>2, <2>1 DEF FrameInv
<1> QED
  BY <1>3, <1>4, <1>5 DEF Basics

LEMMA RevertsBasics ==
    ASSUME Basics, EntryPointReverts
    PROVE  Basics'
<1>1. /\ tracer' \in TracerSet /\ Levels' = Levels
  BY RevertsEffect DEF Basics
<1>2. frames = <<>> /\ verdict' = "traced" /\ UNCHANGED <<evmVars, did>>
  BY DEF EntryPointReverts, Simulated
<1> QED
  BY <1>1, <1>2, SameBasics

LEMMA ValidateBasics ==
    ASSUME Basics, ValidateUserOp
    PROVE  Basics'
<1>1. tracer' = tracer /\ UNCHANGED <<evmVars, did>>
  BY DEF ValidateUserOp, traceVars
<1>2. PICK info \in ReturnInfos : verdict' = Outcome(info)
  BY DEF ValidateUserOp
<1>3. tracer' \in TracerSet
  BY <1>1 DEF Basics, TypeInv
<1>4. Outcome(info) \in {"SimulateValidation", "OpcodeValidation", "InvalidSignature",
                         "NotInTimeRange", "UnsupportedSignatureAggregator", "ok"}
  BY DEF Outcome
<1> QED
  BY <1>1, <1>2, <1>3, <1>4, SameBasics DEF Levels

LEMMA InitialBasics ==
    ASSUME ScanInit
    PROVE  Basics /\ LevelInv
<1>1. /\ userOp \in UserOpCases /\ todo = Phases(userOp) /\ frames = <<>> /\ storage = {}
      /\ deployed = {EntryPoint, Creator, Factory, Paymaster, Token, Stub}
                       \cup (IF userOp.initCode THEN {} ELSE {Sender})
      /\ steps = 0 /\ tracer = EmptyTracer /\ did = {} /\ verdict = "tracing"
  BY DEF ScanInit, TraceInit
<1> DEFINE p == Phases(userOp)
<1>2. p \in Seq(PhaseSigs) /\ Len(p) \in 1..3
  BY <1>1, PhasesProperties DEF OncePerEntity
<1>3. Levels = <<>> /\ tracer.keccak = {} /\ tracer.calls = <<>> /\ tracer.lastOp = ""
  BY <1>1 DEF EmptyTracer, Levels
<1>10. Len(Levels) = 0 /\ DOMAIN Levels = {}
  <2>1. Len(<<>>) = 0 /\ DOMAIN <<>> = {}
    OBVIOUS
  <2> QED
    BY <1>3, <2>1
<1>4. tracer \in TracerSet
  <2>1. "" \in OpCodes
    BY DEF OpCodes
  <2>2. <<>> \in Seq(LevelSet) /\ <<>> \in Seq(CallSet \cup ExitSet)
    BY EmptySeq
  <2> QED
    BY <1>1, <2>1, <2>2 DEF EmptyTracer, TracerSet
<1>5. deployed \cup {Sender} = Existing
  BY <1>1 DEF Existing
<1>6. TypeInv
  <2>1. deployed \in SUBSET Addresses
    BY <1>5 DEF Addresses
  <2>2. todo \in Seq(PhaseSigs \cup {"failed"})
    <3> HIDE DEF PhaseSigs
    <3> QED
      BY <1>1, <1>2
  <2>3. frames \in Seq(FrameSet) /\ Len(frames) <= MaxDepth
    BY <1>1, EmptySeq, BoundAssumption
  <2>4. steps \in 0..MaxSteps
    BY <1>1, BoundAssumption
  <2> QED
    BY <1>1, <1>4, <2>1, <2>2, <2>3, <2>4 DEF TypeInv
<1>7. PhaseInv
  <2>1. todo = SubSeq(p, 0 + 1, Len(p))
    BY <1>1, <1>2
  <2> HIDE DEF p
  <2> QED
    BY <1>1, <1>2, <1>10, <2>1 DEF PhaseInv, p
<1>8. FrameInv
  BY <1>1, <1>5 DEF FrameInv
<1>9. LevelInv
  BY <1>10 DEF LevelInv
<1> QED
  BY <1>6, <1>7, <1>8, <1>9 DEF Basics

---------------------------------------------------------------------------
(* ParseCallStack takes one call after the other.                          *)

NothingParsed == [out |-> <<>>, stack |-> <<>>]
Parses(f, calls, n) ==
    f = [k \in 0..n |-> IF k = 0 THEN NothingParsed ELSE ParseStep(f[k - 1], calls[k])]

LEMMA ParsesProperties ==
    ASSUME NEW calls, NEW n \in Nat, NEW f, Parses(f, calls, n)
    PROVE  f[0] = NothingParsed /\ \A k \in 1..n : f[k] = ParseStep(f[k - 1], calls[k])
<1>1. ASSUME NEW k \in 0..n
      PROVE  f[k] = IF k = 0 THEN NothingParsed ELSE ParseStep(f[k - 1], calls[k])
  BY DEF Parses
<1>2. 0 \in 0..n /\ \A k \in 1..n : k \in 0..n /\ k # 0
  OBVIOUS
<1> QED
  BY <1>1, <1>2

LEMMA ParseExists ==
    ASSUME NEW calls, NEW length \in Nat
    PROVE  \E f : Parses(f, calls, length)
<1> DEFINE Built == {n \in Nat : \E f : Parses(f, calls, n)}
<1>1. 0 \in Built
  <2> DEFINE f == [k \in 0..0 |-> NothingParsed]
  <2>1. Parses(f, calls, 0)
    <3>1. \A k \in 0..0 : k = 0
      OBVIOUS
    <3> QED
      BY <3>1 DEF Parses
  <2> QED
    BY <2>1
<1>2. ASSUME NEW n \in 0..(length - 1), n \in Built PROVE n + 1 \in Built
  <2>1. PICK f : Parses(f, calls, n)
    BY <1>2
  <2>2. f[0] = NothingParsed /\ \A k \in 1..n : f[k] = ParseStep(f[k - 1], calls[k])
    BY <2>1, ParsesProperties
  <2> DEFINE g == [k \in 0..(n + 1) |-> IF k = n + 1 THEN ParseStep(f[n], calls[n + 1]) ELSE f[k]]
  <2>3. /\ g[n + 1] = ParseStep(f[n], calls[n + 1])
        /\ \A k \in 0..n : g[k] = f[k]
        /\ g = [k \in 0..(n + 1) |-> g[k]]
    OBVIOUS
  <2> HIDE DEF g
  <2>4. ASSUME NEW k \in 0..(n + 1)
        PROVE  g[k] = IF k = 0 THEN NothingParsed ELSE ParseStep(g[k - 1], calls[k])
    <3>1. CASE k = 0
      BY <2>2, <2>3, <3>1
    <3>2. CASE k = n + 1
      <4>1. n \in 0..n /\ k - 1 = n /\ k # 0
        BY <3>2
      <4>2. g[n] = f[n]
        BY <2>3, <4>1
      <4> QED
        BY <2>3, <3>2, <4>1, <4>2
    <3>3. CASE k \in 1..n
      <4>1. k \in 0..n /\ k - 1 \in 0..n /\ k # 0
        BY <3>3
      <4>2. g[k] = f[k] /\ g[k - 1] = f[k - 1]
        BY <2>3, <4>1
      <4> QED
        BY <2>2, <3>3, <4>1, <4>2
    <3> QED
      BY <3>1, <3>2, <3>3
  <2>5. Parses(g, calls, n + 1)
    BY <2>3, <2>4 DEF Parses
  <2> QED
    BY <2>5
<1> HIDE DEF Built
<1>3. \A k \in 0..length : k \in Built
  BY <1>1, <1>2, SetInduction
<1> QED
  BY <1>3 DEF Built

LEMMA ParseCallStackIs ==
    ASSUME NEW S, NEW calls \in Seq(S)
    PROVE  \E f : Parses(f, calls, Len(calls)) /\ ParseCallStack(calls) = f[Len(calls)]
<1> DEFINE parsed == CHOOSE f : Parses(f, calls, Len(calls))
<1>1. ParseCallStack(calls) = parsed[Len(calls)]
  BY DEF ParseCallStack, Parses, NothingParsed
<1>2. Parses(parsed, calls, Len(calls))
  <2>1. Len(calls) \in Nat
    OBVIOUS
  <2>2. \E f : Parses(f, calls, Len(calls))
    BY <2>1, ParseExists
  <2> QED
    BY <2>2
<1> QED
  BY <1>1, <1>2

LEMMA ParseNothing ==
    ParseCallStack(<<>>) = NothingParsed
<1>1. <<>> \in Seq({}) /\ Len(<<>>) = 0 /\ 0 \in Nat
  OBVIOUS
<1>2. PICK f : Parses(f, <<>>, 0) /\ ParseCallStack(<<>>) = f[0]
  <2>1. PICK calls \in Seq({}) : calls = <<>>
    BY <1>1
  <2>2. \E f : Parses(f, calls, Len(calls)) /\ ParseCallStack(calls) = f[Len(calls)]
    BY ParseCallStackIs
  <2>3. Len(calls) = 0
    BY <1>1, <2>1
  <2> QED
    BY <2>1, <2>2, <2>3
<1>3. f[0] = NothingParsed
  BY <1>1, <1>2, ParsesProperties
<1> QED
  BY <1>2, <1>3

LEMMA ParseOneMore ==
    ASSUME NEW S, NEW calls \in Seq(S), NEW c \in S
    PROVE  ParseCallStack(Append(calls, c)) = ParseStep(ParseCallStack(calls), c)
<1>1. PICK more \in Seq(S) : more = Append(calls, c)
  BY AppendProperties
<1>2. PICK n \in Nat : n = Len(calls)
  OBVIOUS
<1>3. /\ Len(more) = n + 1 /\ more[n + 1] = c /\ \A k \in 1..n : more[k] = calls[k]
  BY <1>1, <1>2
<1>4. PICK f : Parses(f, calls, n) /\ ParseCallStack(calls) = f[n]
  BY <1>2, ParseCallStackIs
<1>5. PICK g : Parses(g, more, n + 1) /\ ParseCallStack(more) = g[n + 1]
  BY <1>3, ParseCallStackIs
<1>6. f[0] = NothingParsed /\ \A k \in 1..n : f[k] = ParseStep(f[k - 1], calls[k])
  BY <1>4, ParsesProperties
<1>7. g[0] = NothingParsed /\ \A k \in 1..(n + 1) : g[k] = ParseStep(g[k - 1], more[k])
  BY <1>5, ParsesProperties
<1> DEFINE Same == {k \in Nat : g[k] = f[k]}
<1>8. 0 \in Same
  BY <1>6, <1>7
<1>9. ASSUME NEW k \in 0..(n - 1), k \in Same PROVE k + 1 \in Same
  <2>1. k + 1 \in 1..n /\ k + 1 \in 1..(n + 1) /\ (k + 1) - 1 = k
    OBVIOUS
  <2>2. f[k + 1] = ParseStep(f[k], calls[k + 1]) /\ g[k + 1] = ParseStep(g[k], more[k + 1])
    BY <1>6, <1>7, <2>1
  <2> QED
    BY <1>3, <1>9, <2>1, <2>2
<1> HIDE DEF Same
<1>10. \A k \in 0..n : k \in Same
  BY <1>8, <1>9, SetInduction
<1>11. g[n] = f[n]
  BY <1>10 DEF Same
<1>12. g[n + 1] = ParseStep(g[n], c)
  <2>1. n + 1 \in 1..(n + 1) /\ (n + 1) - 1 = n
    OBVIOUS
  <2> QED
    BY <1>3, <1>7, <2>1
<1> QED
  BY <1>1, <1>4, <1>5, <1>11, <1>12

---------------------------------------------------------------------------
(* The calls that have no exit are the frames.                             *)

LEMMA ParseOfCall ==
    ASSUME NEW acc \in ParsedSet, NEW c \in CallSet
    PROVE  /\ ParseStep(acc, c) \in ParsedSet
           /\ ParseStep(acc, c).stack = Append(acc.stack, c) /\ ParseStep(acc, c).out = acc.out
<1>1. c.type \notin {"REVERT", "RETURN"}
  BY DEF CallSet, CallTypes, CallOps
<1>2. ParseStep(acc, c) = [acc EXCEPT !.stack = Append(@, c)]
  BY <1>1 DEF ParseStep
<1>3. Append(acc.stack, c) \in Seq(CallSet)
  BY AppendProperties DEF ParsedSet
<1> QED
  BY <1>2, <1>3 DEF ParsedSet

LEMMA EntryType ==
    ASSUME NEW call \in CallSet \cup {TopCall}, NEW exit \in ExitSet
    PROVE  CallEntry(call, exit) \in EntrySet
<1>1. call.from \in Addresses /\ call.to \in Addresses /\ call.method \in Methods
  <2>1. CASE call \in CallSet
    BY <2>1 DEF CallSet
  <2>2. CASE call = TopCall
    <3>1. Codeless \in Addresses /\ "validateUserOp" \in Methods
      BY DEF Addresses, Methods, PhaseSigs
    <3> QED
      BY <2>2, <3>1 DEF TopCall
  <2> QED
    BY <2>1, <2>2
<1>2. exit.data \in Data
  BY DEF ExitSet
<1> QED
  BY <1>1, <1>2 DEF CallEntry, EntrySet

LEMMA ParseOfExit ==
    ASSUME NEW acc \in ParsedSet, NEW exit \in ExitSet, acc.stack # <<>>
    PROVE  /\ ParseStep(acc, exit) \in ParsedSet
           /\ ParseStep(acc, exit).stack = Front(acc.stack)
           /\ ParseStep(acc, exit).out = Append(acc.out, CallEntry(Last(acc.stack), exit))
           /\ CallEntry(Last(acc.stack), exit) \in EntrySet
<1>1. exit.type \in {"REVERT", "RETURN"}
  BY DEF ExitSet
<1>2. ParseStep(acc, exit) =
         [out |-> Append(acc.out, CallEntry(Last(acc.stack), exit)), stack |-> Front(acc.stack)]
  BY <1>1 DEF ParseStep
<1>3. acc.stack \in Seq(CallSet) /\ acc.out \in Seq(EntrySet)
  BY DEF ParsedSet
<1>4. Front(acc.stack) \in Seq(CallSet)
  BY <1>3, FrontOfSequence
<1>5. Last(acc.stack) \in CallSet
  BY <1>3 DEF Last
<1>6. CallEntry(Last(acc.stack), exit) \in EntrySet
  BY <1>5, EntryType
<1>7. Append(acc.out, CallEntry(Last(acc.stack), exit)) \in Seq(EntrySet)
  BY <1>3, <1>6, AppendProperties
<1> QED
  BY <1>2, <1>4, <1>6, <1>7 DEF ParsedSet

LEMMA ParseOfLastExit ==
    ASSUME NEW acc \in ParsedSet, NEW exit \in ExitSet, acc.stack = <<>>
    PROVE  /\ ParseStep(acc, exit) \in ParsedSet /\ ParseStep(acc, exit).stack = <<>>
           /\ ParseStep(acc, exit).out = Append(acc.out, CallEntry(TopCall, exit))
           /\ CallEntry(TopCall, exit) \in EntrySet
<1>1. exit.type \in {"REVERT", "RETURN"}
  BY DEF ExitSet
<1>2. ParseStep(acc, exit) = [acc EXCEPT !.out = Append(@, CallEntry(TopCall, exit))]
  BY <1>1 DEF ParseStep
<1>3. CallEntry(TopCall, exit) \in EntrySet
  BY EntryType
<1>4. Append(acc.out, CallEntry(TopCall, exit)) \in Seq(EntrySet)
  BY <1>3, AppendProperties DEF ParsedSet
<1> QED
  BY <1>2, <1>3, <1>4 DEF ParsedSet

(* What an entity's step does to the frames and to the calls. *)
CallsStay(gas) == FramesStay(gas) /\ tracer'.calls = tracer.calls
CallsOpen(frame, c) ==
    /\ FramesOpen(frame) /\ tracer'.calls = Append(tracer.calls, c) /\ c \in CallSet
    /\ c.to = frame.to /\ c.method = frame.method /\ c.from # EntryPoint
CallsClose(exit) ==
    FramesClose /\ tracer'.calls = Append(tracer.calls, exit) /\ exit \in ExitSet

LEMMA ParsedAfter ==
    ASSUME TypeInv, NEW c \in CallSet \cup ExitSet, tracer'.calls = Append(tracer.calls, c)
    PROVE  /\ Parsed' = ParseStep(Parsed, c)
           /\ Len(tracer'.calls) = Len(tracer.calls) + 1 /\ Len(tracer.calls) \in Nat
<1>1. tracer.calls \in Seq(CallSet \cup ExitSet)
  BY DEF TypeInv, TracerSet
<1>2. ParseCallStack(Append(tracer.calls, c)) = ParseStep(ParseCallStack(tracer.calls), c)
  BY <1>1, ParseOneMore
<1>3. Parsed' = ParseCallStack(tracer'.calls) /\ Parsed = ParseCallStack(tracer.calls)
  BY DEF Parsed
<1>4. Len(Append(tracer.calls, c)) = Len(tracer.calls) + 1 /\ Len(tracer.calls) \in Nat
  BY <1>1
<1> QED
  BY <1>2, <1>3, <1>4

LEMMA ParsedStays ==
    ASSUME ParseInv, verdict = "tracing", verdict' = verdict, NEW gas, CallsStay(gas)
    PROVE  ParseInv' /\ Parsed' = Parsed
<1>1. tracer'.calls = tracer.calls /\ Parsed' = Parsed
  BY DEF Parsed, CallsStay
<1>2. /\ Len(frames') = Len(frames) /\ DOMAIN frames' = DOMAIN frames
      /\ \A i \in DOMAIN frames : frames'[i].to = frames[i].to /\ frames'[i].method = frames[i].method
  BY DEF CallsStay, FramesStay, SameFrame
<1>3. FramesParsed /\ Parsed \in ParsedSet
  BY DEF ParseInv
<1>4. FramesParsed'
  BY <1>1, <1>2, <1>3 DEF FramesParsed
<1> QED
  BY <1>1, <1>3, <1>4 DEF ParseInv

LEMMA ParsedOpens ==
    ASSUME TypeInv, ParseInv, verdict = "tracing", verdict' = verdict, frames # <<>>,
           NEW frame, NEW c, CallsOpen(frame, c)
    PROVE  ParseInv' /\ Parsed'.stack = Append(Parsed.stack, c) /\ Parsed'.out = Parsed.out
<1>1. /\ c \in CallSet /\ c.to = frame.to /\ c.method = frame.method /\ c.from # EntryPoint
      /\ tracer'.calls = Append(tracer.calls, c) /\ FramesOpen(frame)
  BY DEF CallsOpen
<1>2. FramesParsed /\ Parsed \in ParsedSet
  BY DEF ParseInv
<1>3. /\ Parsed' = ParseStep(Parsed, c) /\ Len(tracer'.calls) = Len(tracer.calls) + 1
      /\ Len(tracer.calls) \in Nat
  BY <1>1, ParsedAfter
<1>4. Parsed' \in ParsedSet /\ Parsed'.stack = Append(Parsed.stack, c) /\ Parsed'.out = Parsed.out
  BY <1>1, <1>2, <1>3, ParseOfCall
<1>5. /\ Parsed.stack \in Seq(CallSet) /\ Len(Parsed.stack) \in Nat /\ Len(Parsed.out) \in Nat
      /\ Len(Parsed'.stack) = Len(Parsed.stack) + 1 /\ Parsed'.stack[Len(Parsed.stack) + 1] = c
      /\ \A i \in 1..Len(Parsed.stack) : Parsed'.stack[i] = Parsed.stack[i]
  <2>1. Parsed.stack \in Seq(CallSet) /\ Parsed.out \in Seq(EntrySet)
    BY <1>2 DEF ParsedSet
  <2> QED
    BY <1>1, <1>4, <2>1, AppendProperties, LenProperties
<1>6. /\ Len(frames') = Len(frames) + 1 /\ DOMAIN frames' = DOMAIN frames \cup {Len(frames) + 1}
      /\ frames'[Len(frames) + 1] = frame
  BY <1>1 DEF FramesOpen
<1>7. \A i \in DOMAIN frames : frames'[i].to = frames[i].to /\ frames'[i].method = frames[i].method
  BY <1>1 DEF FramesOpen, SameFrame
<1>8. Len(frames) \in Nat \ {0} /\ DOMAIN frames = 1..Len(frames)
  BY TopProperties
<1>9. Len(Parsed.stack) = Len(frames)
  BY <1>2 DEF FramesParsed
<1>10. 2 * Len(Parsed.out) + Len(Parsed.stack) = Len(tracer.calls)
  BY <1>2 DEF FramesParsed
<1>11. 2 * Len(Parsed'.out) + Len(Parsed'.stack) = Len(tracer'.calls)
  <2>1. PICK out \in Nat, stack \in Nat, calls \in Nat :
           out = Len(Parsed.out) /\ stack = Len(Parsed.stack) /\ calls = Len(tracer.calls)
    BY <1>3, <1>5
  <2>2. 2 * out + stack = calls
    BY <1>10, <2>1
  <2>3. Len(Parsed'.out) = out /\ Len(Parsed'.stack) = stack + 1 /\ Len(tracer'.calls) = calls + 1
    BY <1>3, <1>4, <1>5, <2>1
  <2>4. 2 * out + (stack + 1) = calls + 1
    BY <2>2
  <2> QED
    BY <2>3, <2>4, Zenon
<1>12. ASSUME NEW i \in DOMAIN frames'
       PROVE  /\ Parsed'.stack[i].to = frames'[i].to /\ Parsed'.stack[i].method = frames'[i].method
              /\ Parsed'.stack[i].from = EntryPoint <=> i = 1
  <2>1. CASE i \in DOMAIN frames
    <3>1. Parsed'.stack[i] = Parsed.stack[i]
      BY <1>5, <1>8, <1>9, <2>1
    <3>2. /\ Parsed.stack[i].to = frames[i].to /\ Parsed.stack[i].method = frames[i].method
          /\ Parsed.stack[i].from = EntryPoint <=> i = 1
      BY <1>2, <2>1 DEF FramesParsed
    <3> QED
      BY <1>7, <2>1, <3>1, <3>2
  <2>2. CASE i = Len(frames) + 1
    <3>1. i # 1 /\ frames'[i] = frame /\ Parsed'.stack[i] = c
      BY <1>5, <1>6, <1>8, <1>9, <2>2
    <3> QED
      BY <1>1, <3>1
  <2> QED
    BY <1>6, <2>1, <2>2
<1>13. FramesParsed'
  <2>1. Len(Parsed'.stack) = Len(frames')
    BY <1>5, <1>6, <1>9
  <2> QED
    BY <1>11, <1>12, <2>1 DEF FramesParsed
<1> QED
  BY <1>4, <1>13 DEF ParseInv

LEMMA ParsedCloses ==
    ASSUME TypeInv, ParseInv, verdict = "tracing", verdict' = verdict, frames # <<>>,
           NEW exit, CallsClose(exit)
    PROVE  /\ ParseInv' /\ Parsed.stack # <<>> /\ Parsed'.stack = Front(Parsed.stack)
           /\ Parsed'.out = Append(Parsed.out, CallEntry(Last(Parsed.stack), exit))
           /\ Last(Parsed.stack) \in CallSet
           /\ Last(Parsed.stack).to = Top.to /\ Last(Parsed.stack).method = Top.method
           /\ Last(Parsed.stack).from = EntryPoint <=> Len(frames) = 1
<1>1. exit \in ExitSet /\ tracer'.calls = Append(tracer.calls, exit) /\ FramesClose
  BY DEF CallsClose
<1>2. FramesParsed /\ Parsed \in ParsedSet
  BY DEF ParseInv
<1>3. /\ Parsed' = ParseStep(Parsed, exit) /\ Len(tracer'.calls) = Len(tracer.calls) + 1
      /\ Len(tracer.calls) \in Nat
  BY <1>1, ParsedAfter
<1>4. Len(frames) \in Nat \ {0} /\ DOMAIN frames = 1..Len(frames) /\ Len(frames) \in DOMAIN frames
  BY TopProperties
<1>5. Len(Parsed.stack) = Len(frames)
      /\ 2 * Len(Parsed.out) + Len(Parsed.stack) = Len(tracer.calls)
  BY <1>2 DEF FramesParsed
<1>6. Parsed.stack \in Seq(CallSet) /\ Parsed.out \in Seq(EntrySet) /\ Parsed.stack # <<>>
  <2>1. Parsed.stack \in Seq(CallSet) /\ Parsed.out \in Seq(EntrySet)
    BY <1>2 DEF ParsedSet
  <2>2. Len(<<>>) = 0
    OBVIOUS
  <2> QED
    BY <1>4, <1>5, <2>1, <2>2
<1>7. /\ Parsed' \in ParsedSet /\ Parsed'.stack = Front(Parsed.stack)
      /\ Parsed'.out = Append(Parsed.out, CallEntry(Last(Parsed.stack), exit))
      /\ CallEntry(Last(Parsed.stack), exit) \in EntrySet
  BY <1>1, <1>2, <1>3, <1>6, ParseOfExit
<1>8. /\ Len(Parsed'.stack) = Len(Parsed.stack) - 1 /\ Len(Parsed'.out) = Len(Parsed.out) + 1
      /\ Len(Parsed.out) \in Nat
  <2>1. Len(Front(Parsed.stack)) = Len(Parsed.stack) - 1
    BY <1>6, FrontOfSequence
  <2>2. Len(Parsed'.out) = Len(Parsed.out) + 1 /\ Len(Parsed.out) \in Nat
    BY <1>6, <1>7, AppendProperties, LenProperties
  <2> QED
    BY <1>7, <2>1, <2>2
<1>9. \A i \in 1..(Len(frames) - 1) : Parsed'.stack[i] = Parsed.stack[i]
  <2>1. \A i \in DOMAIN Front(Parsed.stack) : Front(Parsed.stack)[i] = Parsed.stack[i]
    BY <1>6, FrontOfSequence
  <2>2. DOMAIN Front(Parsed.stack) = 1..(Len(Parsed.stack) - 1)
    BY <1>6, FrontOfSequence
  <2> QED
    BY <1>5, <1>7, <2>1, <2>2
<1>10. /\ Len(frames') = Len(frames) - 1 /\ DOMAIN frames' = 1..(Len(frames) - 1)
       /\ \A i \in DOMAIN frames' : i \in DOMAIN frames /\ frames'[i] = frames[i]
  BY <1>1 DEF FramesClose
<1>11. 2 * Len(Parsed'.out) + Len(Parsed'.stack) = Len(tracer'.calls)
  <2>1. PICK out \in Nat, stack \in Nat, calls \in Nat :
           out = Len(Parsed.out) /\ stack = Len(Parsed.stack) /\ calls = Len(tracer.calls)
    BY <1>3, <1>4, <1>5, <1>8
  <2>2. 2 * out + stack = calls
    BY <1>5, <2>1
  <2>3. Len(Parsed'.out) = out + 1 /\ Len(Parsed'.stack) = stack - 1
        /\ Len(tracer'.calls) = calls + 1
    BY <1>3, <1>8, <2>1
  <2>4. 2 * (out + 1) + (stack - 1) = calls + 1
    BY <2>2
  <2> QED
    BY <2>3, <2>4, Zenon
<1>12. FramesParsed'
  <2>1. Len(Parsed'.stack) = Len(frames')
    BY <1>5, <1>8, <1>10
  <2>2. ASSUME NEW i \in DOMAIN frames'
        PROVE  /\ Parsed'.stack[i].to = frames'[i].to /\ Parsed'.stack[i].method = frames'[i].method
               /\ Parsed'.stack[i].from = EntryPoint <=> i = 1
    BY <1>2, <1>9, <1>10 DEF FramesParsed
  <2> QED
    BY <1>11, <2>1, <2>2 DEF FramesParsed
<1>13. /\ Last(Parsed.stack) = Parsed.stack[Len(frames)] /\ Top = frames[Len(frames)]
       /\ Last(Parsed.stack) \in CallSet
  BY <1>4, <1>5, <1>6 DEF Last, Top
<1>14. /\ Last(Parsed.stack).to = Top.to /\ Last(Parsed.stack).method = Top.method
       /\ Last(Parsed.stack).from = EntryPoint <=> Len(frames) = 1
  BY <1>2, <1>4, <1>13 DEF FramesParsed
<1> QED
  BY <1>6, <1>7, <1>12, <1>13, <1>14 DEF ParseInv

---------------------------------------------------------------------------
(* What is noted beside the levels: hashes, bad calls and the context.     *)

Quiet(N) == \A x \in N : x[1] \notin {"call", "failed", "keccak", "context"}

Noting(N) == Notes(N) /\ did' \in SUBSET (PhaseSigs \X FactSet)

LEMMA SomewhereAfter ==
    ASSUME TypeInv, Levels # <<>>, NEW N, Noting(N)
    PROVE  /\ \A x : Somewhere(x)' <=> Somewhere(x) \/ x \in N
           /\ BadCalls' <=> BadCalls \/ \E x \in N : BadCall(x)
           /\ PaymasterAsked \/ (\E x \in N : Asks(x)) => PaymasterAsked'
<1>1. Title \in PhaseSigs /\ did \in SUBSET (PhaseSigs \X FactSet)
  BY TitleProperties DEF TypeInv
<1>2. \A sig, fact : <<sig, fact>> \in did' <=> <<sig, fact>> \in did \/ (sig = Title /\ fact \in N)
  BY DEF Noting, Notes
<1>3. did' \in SUBSET (PhaseSigs \X FactSet)
  BY DEF Noting
<1> HIDE DEF PhaseSigs, FactSet
<1>4. \A f \in did : \E sig, fact : f = <<sig, fact>> /\ f[2] = fact
  BY <1>1
<1>5. \A f \in did' : \E sig, fact : f = <<sig, fact>> /\ f[2] = fact
  BY <1>3
<1>6. \A f \in did : f \in did'
  BY <1>2, <1>4
<1>7. \A f \in did' : f \in did \/ f[2] \in N
  BY <1>2, <1>5
<1>8. \A x \in N : <<Title, x>> \in did' /\ <<Title, x>>[2] = x
  BY <1>2
<1>9. ASSUME NEW x PROVE Somewhere(x)' <=> Somewhere(x) \/ x \in N
  <2>1. ASSUME Somewhere(x)' PROVE Somewhere(x) \/ x \in N
    BY <1>7, <2>1 DEF Somewhere
  <2>2. ASSUME Somewhere(x) PROVE Somewhere(x)'
    BY <1>6, <2>2 DEF Somewhere
  <2>3. ASSUME x \in N PROVE Somewhere(x)'
    BY <1>8, <2>3 DEF Somewhere
  <2> QED
    BY <2>1, <2>2, <2>3
<1>10. BadCalls' <=> BadCalls \/ \E x \in N : BadCall(x)
  <2>1. ASSUME BadCalls' PROVE BadCalls \/ \E x \in N : BadCall(x)
    BY <1>7, <2>1 DEF BadCalls, BadCall
  <2>2. ASSUME BadCalls PROVE BadCalls'
    BY <1>6, <2>2 DEF BadCalls, BadCall
  <2>3. ASSUME NEW x \in N, BadCall(x) PROVE BadCalls'
    BY <1>8, <2>3 DEF BadCalls, BadCall
  <2> QED
    BY <2>1, <2>2, <2>3
<1>11. PaymasterAsked \/ (\E x \in N : Asks(x)) => PaymasterAsked'
  <2>1. ASSUME PaymasterAsked PROVE PaymasterAsked'
    BY <1>6, <2>1 DEF PaymasterAsked
  <2>2. ASSUME NEW x \in N, Asks(x) PROVE PaymasterAsked'
    BY <1>8, <2>2 DEF PaymasterAsked, Asks, PaymasterSig
  <2> QED
    BY <2>1, <2>2
<1> QED
  BY <1>9, <1>10, <1>11

LEMMA BadCallFacts ==
    /\ \A x : x[1] \notin {"call", "failed"} => ~BadCall(x)
    /\ \A from, to, method : BadCall(<<"call", from, to, method>>) <=>
                                to = EntryPoint /\ method \notin {"0x", "depositTo"}
    /\ \A to, method : BadCall(<<"failed", to, method>>) <=> to = EntryPoint /\ method = "0x"
<1>1. <<"failed", EntryPoint, "0x">>[1] = "failed"
  OBVIOUS
<1>2. ASSUME NEW x, x[1] \notin {"call", "failed"} PROVE ~BadCall(x)
  BY <1>1, <1>2 DEF BadCall
<1>3. ASSUME NEW from, NEW to, NEW method
      PROVE  BadCall(<<"call", from, to, method>>) <=>
                to = EntryPoint /\ method \notin {"0x", "depositTo"}
  <2> DEFINE x == <<"call", from, to, method>>
  <2>1. x[1] = "call" /\ x[3] = to /\ x[4] = method
    OBVIOUS
  <2>2. x # <<"failed", EntryPoint, "0x">>
    BY <1>1, <2>1
  <2> HIDE DEF x
  <2>3. BadCall(x) <=> to = EntryPoint /\ method \notin {"0x", "depositTo"}
    BY <2>1, <2>2 DEF BadCall
  <2> QED
    BY <2>3 DEF x
<1>4. ASSUME NEW to, NEW method
      PROVE  BadCall(<<"failed", to, method>>) <=> to = EntryPoint /\ method = "0x"
  <2> DEFINE x == <<"failed", to, method>>
             y == <<"failed", EntryPoint, "0x">>
  <2>1. x[1] = "failed" /\ x[2] = to /\ x[3] = method /\ y[2] = EntryPoint /\ y[3] = "0x"
    OBVIOUS
  <2>2. x = y <=> to = EntryPoint /\ method = "0x"
    BY <2>1
  <2>3. x[1] # "call"
    BY <2>1
  <2> HIDE DEF x
  <2>4. BadCall(x) <=> x = y
    BY <2>3 DEF BadCall
  <2> QED
    BY <2>2, <2>4 DEF x
<1> QED
  BY <1>2, <1>3, <1>4

LEMMA QuietProperties ==
    ASSUME NEW N, Quiet(N)
    PROVE  /\ \A x \in N : ~BadCall(x)
           /\ <<"context">> \notin N /\ \A input : <<"keccak", input>> \notin N
<1>1. <<"context">>[1] = "context" /\ \A input : <<"keccak", input>>[1] = "keccak"
  OBVIOUS
<1>2. <<"context">> \notin N /\ \A input : <<"keccak", input>> \notin N
  BY <1>1 DEF Quiet
<1>3. \A x \in N : x[1] \notin {"call", "failed"}
  BY DEF Quiet
<1> QED
  BY <1>2, <1>3, BadCallFacts

(* The opcodes of an instruction are quiet. *)
LEMMA QuietInstruction ==
    ASSUME NEW op, NEW S, \A x \in S : x[1] \notin {"call", "failed", "keccak", "context"}
    PROVE  Quiet(S \cup {<<"op", op>>} \cup LoneGas(op))
<1>1. \A x \in {<<"op", op>>} : x[1] = "op"
  OBVIOUS
<1>2. \A x \in LoneGas(op) : x[1] = "lone GAS"
  <2>1. <<"lone GAS">>[1] = "lone GAS"
    OBVIOUS
  <2>2. PICK lone : lone = <<"lone GAS">>
    OBVIOUS
  <2>3. \A x \in LoneGas(op) : x = lone
    BY <2>2 DEF LoneGas
  <2> QED
    BY <2>1, <2>2, <2>3
<1> QED
  BY <1>1, <1>2 DEF Quiet

(* Of what an instruction notes, what it notes of its own matters here. *)
OwnNotes(N, S) ==
    /\ (\E x \in N : BadCall(x)) <=> (\E x \in S : BadCall(x))
    /\ <<"context">> \in N <=> <<"context">> \in S
    /\ \A input : <<"keccak", input>> \in N <=> <<"keccak", input>> \in S

LEMMA InstructionNotes ==
    ASSUME NEW op, NEW S, NEW N, N = S \cup {<<"op", op>>} \cup LoneGas(op)
    PROVE  OwnNotes(N, S)
<1> DEFINE Q == {} \cup {<<"op", op>>} \cup LoneGas(op)
<1>1. Quiet(Q)
  BY QuietInstruction
<1>2. N = S \cup Q
  OBVIOUS
<1> HIDE DEF Q
<1> QED
  BY <1>1, <1>2, QuietProperties DEF OwnNotes

KeccakKept(N) ==
    \A input \in KeccakInputs :
        input \in tracer'.keccak <=>
            input \in tracer.keccak \/ (input.len \in 21..511 /\ <<"keccak", input>> \in N)

LEMMA KeccakStep ==
    ASSUME TypeInv, Levels # <<>>, KeccakInv, NEW N, Noting(N), KeccakKept(N)
    PROVE  KeccakInv'
<1>1. \A x : Somewhere(x)' <=> Somewhere(x) \/ x \in N
  BY SomewhereAfter
<1> SUFFICES ASSUME NEW input \in KeccakInputs
             PROVE  input \in tracer'.keccak <=>
                        input.len \in 21..511 /\ Somewhere(<<"keccak", input>>)'
  BY DEF KeccakInv
<1>2. Somewhere(<<"keccak", input>>)' <=>
          Somewhere(<<"keccak", input>>) \/ <<"keccak", input>> \in N
  BY <1>1
<1>3. input \in tracer.keccak <=> input.len \in 21..511 /\ Somewhere(<<"keccak", input>>)
  BY DEF KeccakInv
<1>4. input \in tracer'.keccak <=>
          input \in tracer.keccak \/ (input.len \in 21..511 /\ <<"keccak", input>> \in N)
  BY DEF KeccakKept
<1> QED
  BY <1>2, <1>3, <1>4, Zenon

---------------------------------------------------------------------------
(* The entries of the call stack.                                          *)

LEMMA ToSetOfAppend ==
    ASSUME NEW S, NEW s \in Seq(S), NEW e \in S
    PROVE  ToSet(Append(s, e)) = ToSet(s) \cup {e}
<1>1. PICK t : t = Append(s, e)
  OBVIOUS
<1>2. /\ Len(t) = Len(s) + 1 /\ DOMAIN t = 1..(Len(s) + 1) /\ DOMAIN s = 1..Len(s)
      /\ Len(s) \in Nat /\ t[Len(s) + 1] = e
  BY <1>1, AppendProperties, LenProperties
<1>3. \A i \in 1..Len(s) : t[i] = s[i]
  BY <1>1, AppendProperties
<1>4. ToSet(t) = ToSet(s) \cup {e}
  <2>1. \A i \in DOMAIN t : t[i] \in ToSet(s) \cup {e}
    <3> SUFFICES ASSUME NEW i \in 1..(Len(s) + 1) PROVE t[i] \in ToSet(s) \cup {e}
      BY <1>2
    <3>1. CASE i = Len(s) + 1
      BY <1>2, <3>1
    <3>2. CASE i # Len(s) + 1
      <4>1. i \in 1..Len(s)
        BY <1>2, <3>2
      <4> QED
        BY <1>2, <1>3, <4>1 DEF ToSet
    <3> QED
      BY <3>1, <3>2
  <2>2. Len(s) + 1 \in DOMAIN t /\ \A i \in DOMAIN s : i \in DOMAIN t
    BY <1>2
  <2>3. \A i \in DOMAIN s : s[i] \in ToSet(t)
    BY <1>2, <1>3, <2>2 DEF ToSet
  <2>4. e \in ToSet(t)
    BY <1>2, <2>2 DEF ToSet
  <2> QED
    BY <2>1, <2>3, <2>4 DEF ToSet
<1> QED
  BY <1>1, <1>4

LEMMA ToSetOfFront ==
    ASSUME NEW S, NEW s \in Seq(S), s # <<>>
    PROVE  ToSet(s) = ToSet(Front(s)) \cup {Last(s)}
<1>1. Len(s) \in Nat \ {0} /\ DOMAIN s = 1..Len(s) /\ Last(s) = s[Len(s)]
  BY EmptySeq, LenProperties DEF Last
<1>2. DOMAIN Front(s) = 1..(Len(s) - 1)
  BY FrontOfSequence
<1>3. \A i \in 1..(Len(s) - 1) : Front(s)[i] = s[i]
  BY <1>2, FrontOfSequence
<1>4. \A i \in DOMAIN s : i \in DOMAIN Front(s) \/ i = Len(s)
  BY <1>1, <1>2
<1>5. \A i \in DOMAIN s : s[i] \in ToSet(Front(s)) \cup {Last(s)}
  BY <1>1, <1>2, <1>3, <1>4 DEF ToSet
<1>6. \A i \in DOMAIN Front(s) : i \in DOMAIN s
  BY <1>1, <1>2
<1>7. \A i \in DOMAIN Front(s) : Front(s)[i] \in ToSet(s)
  BY <1>2, <1>3, <1>6 DEF ToSet
<1>8. Last(s) \in ToSet(s)
  BY <1>1 DEF ToSet
<1> QED
  BY <1>5, <1>7, <1>8 DEF ToSet

Entries == ToSet(Parsed.stack) \cup ToSet(Parsed.out)

LEMMA EntriesOpen ==
    ASSUME TypeInv, ParseInv, verdict = "tracing", verdict' = verdict, frames # <<>>,
           NEW frame, NEW c, CallsOpen(frame, c)
    PROVE  Entries' = Entries \cup {c} /\ ToSet(Parsed.out)' = ToSet(Parsed.out)
<1>1. Parsed'.stack = Append(Parsed.stack, c) /\ Parsed'.out = Parsed.out
  BY ParsedOpens
<1>2. Parsed.stack \in Seq(CallSet) /\ c \in CallSet
  BY DEF ParseInv, ParsedSet, CallsOpen
<1>3. ToSet(Parsed'.stack) = ToSet(Parsed.stack) \cup {c}
  BY <1>1, <1>2, ToSetOfAppend
<1> QED
  BY <1>1, <1>3 DEF Entries

LEMMA EntriesClose ==
    ASSUME TypeInv, ParseInv, verdict = "tracing", verdict' = verdict, frames # <<>>,
           NEW exit, CallsClose(exit), NEW entry, entry = CallEntry(Last(Parsed.stack), exit)
    PROVE  /\ ToSet(Parsed.out)' = ToSet(Parsed.out) \cup {entry}
           /\ Entries \cup {entry} = Entries' \cup {Last(Parsed.stack)}
           /\ Entries' \subseteq Entries \cup {entry} /\ entry \in Entries'
           /\ Last(Parsed.stack) \in Entries
<1>1. /\ Parsed.stack # <<>> /\ Parsed'.stack = Front(Parsed.stack)
      /\ Parsed'.out = Append(Parsed.out, entry) /\ Last(Parsed.stack) \in CallSet
  BY ParsedCloses
<1>2. Parsed.stack \in Seq(CallSet) /\ Parsed.out \in Seq(EntrySet) /\ exit \in ExitSet
  BY DEF ParseInv, ParsedSet, CallsClose
<1>3. entry \in EntrySet
  BY <1>1, <1>2, EntryType
<1>4. ToSet(Parsed.stack) = ToSet(Front(Parsed.stack)) \cup {Last(Parsed.stack)}
  BY <1>1, <1>2, ToSetOfFront
<1>5. ToSet(Parsed'.out) = ToSet(Parsed.out) \cup {entry}
  BY <1>1, <1>2, <1>3, ToSetOfAppend
<1> QED
  BY <1>1, <1>4, <1>5 DEF Entries

NothingOfPaymaster == OfPaymaster = {} /\ ~ContextNoted

LEMMA NoContextYet ==
    ASSUME OnlyContextInv, frames # <<>> \/ todo \notin {<<>>, <<"failed">>}
    PROVE  NothingOfPaymaster
<1>1. OfPaymaster = {}
  BY DEF OnlyContextInv
<1> QED
  BY <1>1 DEF OnlyContextInv, NothingOfPaymaster

LEMMA CallsQuiet ==
    ASSUME TypeInv, Levels # <<>>, CallsInv, verdict = "tracing", verdict' = verdict,
           frames # <<>>, NEW N, Noting(N), <<"context">> \notin N, \A x \in N : ~BadCall(x),
           NEW gas, CallsStay(gas)
    PROVE  CallsInv'
<1>1. ParseInv' /\ Parsed' = Parsed
  BY ParsedStays DEF CallsInv
<1>2. BadCalls' <=> BadCalls
  BY SomewhereAfter
<1>3. ContextNoted' <=> ContextNoted
  BY SomewhereAfter DEF ContextNoted
<1>4. CallInv'
  BY <1>1, <1>2 DEF CallsInv, CallInv, BadEntry
<1>5. PaymasterAsked => PaymasterAsked'
  BY SomewhereAfter
<1>6. ASSUME ~PaymasterAsked' PROVE OnlyContextInv'
  <2>1. OnlyContextInv
    BY <1>5, <1>6 DEF CallsInv
  <2>2. NothingOfPaymaster
    BY <2>1, NoContextYet
  <2>3. OfPaymaster' = {} /\ ~ContextNoted'
    BY <1>1, <1>3, <2>2 DEF NothingOfPaymaster, OfPaymaster, AsksPaymaster
  <2>4. \A i \in DOMAIN frames' : AsksPaymaster(frames'[i]) => i = 1
    BY <2>1 DEF CallsStay, FramesStay, SameFrame, OnlyContextInv, AsksPaymaster
  <2> QED
    BY <2>3, <2>4 DEF OnlyContextInv, AsksPaymaster
<1> QED
  BY <1>1, <1>4, <1>6 DEF CallsInv

LEMMA CallsOpens ==
    ASSUME TypeInv, Levels # <<>>, CallsInv, verdict = "tracing", verdict' = verdict,
           frames # <<>>, NEW N, Noting(N), <<"context">> \notin N,
           NEW frame, NEW c, CallsOpen(frame, c), (\E x \in N : BadCall(x)) <=> BadEntry(c),
           AsksPaymaster(frame) => \E x \in N : Asks(x)
    PROVE  CallsInv'
<1>1. ParseInv' /\ Entries' = Entries \cup {c} /\ ToSet(Parsed.out)' = ToSet(Parsed.out)
  BY ParsedOpens, EntriesOpen DEF CallsInv
<1>2. BadCalls' <=> BadCalls \/ BadEntry(c)
  BY SomewhereAfter
<1>3. ContextNoted' <=> ContextNoted
  BY SomewhereAfter DEF ContextNoted
<1>4. CallInv'
  <2>1. BadCalls <=> \E e \in Entries : BadEntry(e)
    BY DEF CallsInv, CallInv, Entries
  <2>2. (\E e \in Entries : BadEntry(e))' <=> \E e \in Entries' : BadEntry(e)
    BY DEF BadEntry
  <2>3. BadCalls' <=> (\E e \in Entries : BadEntry(e))'
    BY <1>1, <1>2, <2>1, <2>2
  <2> QED
    BY <2>3 DEF CallInv, Entries
<1>5. PaymasterAsked \/ AsksPaymaster(frame) => PaymasterAsked'
  BY SomewhereAfter
<1>6. ASSUME ~PaymasterAsked' PROVE OnlyContextInv'
  <2>1. OnlyContextInv /\ ~AsksPaymaster(frame)
    BY <1>5, <1>6 DEF CallsInv
  <2>2. NothingOfPaymaster
    BY <2>1, NoContextYet
  <2>3. OfPaymaster' = {} /\ ~ContextNoted'
    BY <1>1, <1>3, <2>2 DEF NothingOfPaymaster, OfPaymaster, AsksPaymaster
  <2>4. /\ DOMAIN frames' = DOMAIN frames \cup {Len(frames) + 1}
        /\ \A i \in DOMAIN frames : frames'[i].method = frames[i].method /\ frames'[i].to = frames[i].to
        /\ frames'[Len(frames) + 1] = frame
    BY DEF CallsOpen, FramesOpen, SameFrame
  <2>5. \A i \in DOMAIN frames' : AsksPaymaster(frames'[i]) => i = 1
    BY <2>1, <2>4 DEF OnlyContextInv, AsksPaymaster
  <2> QED
    BY <2>3, <2>5 DEF OnlyContextInv, AsksPaymaster
<1> QED
  BY <1>1, <1>4, <1>6 DEF CallsInv

(* What the end of the frame on top puts on the call stack. *)
EntryIs(entry, last, how, data) ==
    /\ entry.from = last.from /\ entry.to = Top.to /\ entry.data = Kept(data)
    /\ entry.method = IF how # "RETURN" /\ Top.method = "0x" THEN "undefined" ELSE Top.method

LEMMA EntryOfEnd ==
    ASSUME NEW how \in {"RETURN", "REVERT", "OUT OF GAS"}, NEW data, NEW last,
           last.to = Top.to, last.method = Top.method
    PROVE  EntryIs(CallEntry(last, ExitOf(how, data)), last, how, data)
<1>1. ExitOf(how, data).type = "REVERT" <=> how # "RETURN"
  BY DEF ExitOf
<1>2. ExitOf(how, data).data = Kept(data)
  BY DEF ExitOf
<1> QED
  BY <1>1, <1>2 DEF CallEntry, EntryIs

LEMMA BadEnd ==
    ASSUME TypeInv, PhaseInv, frames # <<>>, NEW how \in {"RETURN", "REVERT", "OUT OF GAS"}, NEW data,
           NEW last, last.to = Top.to, last.method = Top.method,
           last.from = EntryPoint <=> Len(frames) = 1,
           NEW entry, EntryIs(entry, last, how, data)
    PROVE  BadEntry(entry) <=>
              BadEntry(last) \/ (how # "RETURN" /\ Top.to = EntryPoint /\ Top.method = "0x")
<1>1. Top.to = EntryPoint => last.from # EntryPoint
  <2>1. SUFFICES ASSUME Len(frames) = 1 PROVE Top.to # EntryPoint
    OBVIOUS
  <2>2. Top.to = Target(Title) /\ Levels # <<>>
    BY <2>1 DEF PhaseInv, Top
  <2>3. Title \in PhaseSigs
    BY <2>2, TitleProperties
  <2> QED
    BY <2>2, <2>3, TargetProperties, Distinct
<1>2. CASE how # "RETURN" /\ Top.method = "0x"
  BY <1>1, <1>2 DEF BadEntry, EntryIs
<1>3. CASE ~(how # "RETURN" /\ Top.method = "0x")
  BY <1>3 DEF BadEntry, EntryIs
<1> QED
  BY <1>2, <1>3

(* What is noted of it. *)
NotedEnd(N, how, data) ==
    /\ <<"context">> \in N <=> data = "context" /\ Len(frames) = 1
    /\ (\E x \in N : BadCall(x)) <=> how # "RETURN" /\ Top.to = EntryPoint /\ Top.method = "0x"
    /\ data = "context" => how = "RETURN" /\ Top.method = PaymasterSig

SameTitles ==
    \A i \in DOMAIN Levels :
        i \in DOMAIN Levels' /\ Levels'[i].topLevelMethodSig = Levels[i].topLevelMethodSig

TodoStays == todo' = todo \/ todo' = <<"failed">>

(* The paymaster is called last. *)
LEMMA PaymasterIsLast ==
    ASSUME TypeInv, PhaseInv, frames # <<>>, Title = PaymasterSig
    PROVE  /\ todo = <<>> /\ frames[1].to = Paymaster
           /\ \E i \in DOMAIN Levels : Levels[i].topLevelMethodSig = PaymasterSig
<1>1. Levels # <<>> /\ todo # <<"failed">> /\ frames[1].to = Target(Title)
  BY DEF PhaseInv
<1>2. PICK n \in Nat : n = Len(Levels) /\ n # 0 /\ DOMAIN Levels = 1..n
  BY <1>1, TitleProperties
<1>3. n \in DOMAIN Levels /\ Levels[n].topLevelMethodSig = PaymasterSig
  BY <1>2 DEF Title, Level, Levels
<1>4. PICK p : p = Phases(userOp)
  OBVIOUS
<1>5. /\ p \in Seq(PhaseSigs) /\ Len(p) \in 1..3
      /\ \A i \in 1..Len(p) : p[i] = "validatePaymasterUserOp" => i = Len(p)
  BY <1>4, PhasesProperties DEF OncePerEntity, TypeInv
<1>6. p[n] = PaymasterSig /\ n <= Len(p)
  BY <1>2, <1>3, <1>4 DEF PhaseInv
<1>7. todo = SubSeq(p, n + 1, Len(p))
  BY <1>1, <1>2, <1>4 DEF PhaseInv
<1>8. n = Len(p)
  BY <1>2, <1>5, <1>6 DEF PaymasterSig
<1>9. todo = <<>>
  <2>1. Len(SubSeq(p, n + 1, Len(p))) = 0 /\ SubSeq(p, n + 1, Len(p)) \in Seq(PhaseSigs)
    <3> HIDE DEF PhaseSigs
    <3> QED
      BY <1>5, <1>8
  <2> QED
    BY <1>7, <2>1, EmptySeq
<1> QED
  BY <1>1, <1>3, <1>9, TargetProperties DEF PaymasterSig, PhaseSigs

LEMMA LastFrameCloses ==
    ASSUME FramesClose, Len(frames) = 1
    PROVE  frames' = <<>>
<1>1. frames' \in Seq(FrameSet) /\ Len(frames') = Len(frames) - 1
  BY DEF FramesClose
<1>2. Len(frames') = 0
  BY <1>1
<1> QED
  BY <1>1, <1>2, EmptySeq

LEMMA CallsCloses ==
    ASSUME TypeInv, PhaseInv, Levels # <<>>, CallsInv, verdict = "tracing", verdict' = verdict,
           frames # <<>>, NEW N, Noting(N), NEW how \in {"RETURN", "REVERT", "OUT OF GAS"},
           NEW data \in Returns, CallsClose(ExitOf(how, data)),
           NotedEnd(N, how, data), SameTitles, TodoStays
    PROVE  CallsInv'
<1> DEFINE exit == ExitOf(how, data)
<1>0. PICK last, entry : last = Last(Parsed.stack) /\ entry = CallEntry(last, exit)
  OBVIOUS
<1>1. /\ ParseInv' /\ last.to = Top.to /\ last.method = Top.method
      /\ last.from = EntryPoint <=> Len(frames) = 1
  BY <1>0, ParsedCloses DEF CallsInv
<1>2. /\ ToSet(Parsed.out)' = ToSet(Parsed.out) \cup {entry}
      /\ Entries \cup {entry} = Entries' \cup {last}
      /\ Entries' \subseteq Entries \cup {entry} /\ entry \in Entries' /\ last \in Entries
  BY <1>0, EntriesClose DEF CallsInv
<1>3. EntryIs(entry, last, how, data)
  BY <1>0, <1>1, EntryOfEnd
<1>4. BadEntry(entry) <=>
          BadEntry(last) \/ (how # "RETURN" /\ Top.to = EntryPoint /\ Top.method = "0x")
  BY <1>1, <1>3, BadEnd
<1> HIDE DEF exit
<1>5. BadCalls' <=> BadCalls \/ (how # "RETURN" /\ Top.to = EntryPoint /\ Top.method = "0x")
  BY SomewhereAfter DEF NotedEnd
<1>6. ContextNoted' <=> ContextNoted \/ (data = "context" /\ Len(frames) = 1)
  BY SomewhereAfter DEF ContextNoted, NotedEnd
<1>7. CallInv'
  <2>1. BadCalls <=> \E e \in Entries : BadEntry(e)
    BY DEF CallsInv, CallInv, Entries
  <2>2. (\E e \in Entries : BadEntry(e))' <=> \E e \in Entries' : BadEntry(e)
    BY DEF BadEntry
  <2>3. (\E e \in Entries' : BadEntry(e)) <=> (\E e \in Entries : BadEntry(e)) \/ BadEntry(entry)
    BY <1>2, <1>4
  <2>4. BadCalls' <=> (\E e \in Entries : BadEntry(e))'
    BY <1>2, <1>4, <1>5, <2>1, <2>2, <2>3
  <2> QED
    BY <2>4 DEF CallInv, Entries
<1>8. PaymasterAsked => PaymasterAsked'
  BY SomewhereAfter
<1>9. ASSUME ~PaymasterAsked' PROVE OnlyContextInv'
  <2>1. OnlyContextInv
    BY <1>8, <1>9 DEF CallsInv
  <2>2. OfPaymaster = {} /\ ~ContextNoted
    BY <2>1, NoContextYet DEF NothingOfPaymaster
  <2>3. /\ Len(frames) \in Nat \ {0} /\ Len(frames) \in DOMAIN frames /\ Top = frames[Len(frames)]
        /\ Len(frames') = Len(frames) - 1
        /\ \A i \in DOMAIN frames' : i \in DOMAIN frames /\ frames'[i] = frames[i]
    BY TopProperties DEF CallsClose, FramesClose, Top
  <2>4. \A i \in DOMAIN frames' : AsksPaymaster(frames'[i]) => i = 1
    BY <2>1, <2>3 DEF OnlyContextInv
  <2>5. OfPaymaster' \subseteq {entry} /\ (entry \in OfPaymaster' <=> AsksPaymaster(entry))
    BY <1>2, <2>2 DEF OfPaymaster, AsksPaymaster
  <2>6. AsksPaymaster(entry) => AsksPaymaster(Top)
    BY <1>3 DEF EntryIs, AsksPaymaster, PaymasterSig
  <2>7. ASSUME Len(frames) = 1, Top.method = PaymasterSig
        PROVE  /\ todo = <<>> /\ Top.to = Paymaster
               /\ \E i \in DOMAIN Levels : Levels[i].topLevelMethodSig = PaymasterSig
    <3>1. Title = PaymasterSig /\ Top = frames[1]
      BY <2>3, <2>7 DEF PhaseInv
    <3> QED
      BY <3>1, PaymasterIsLast
  <2>8. CASE ~AsksPaymaster(Top)
    <3>1. OfPaymaster' = {}
      BY <2>5, <2>6, <2>8
    <3>2. ~ContextNoted'
      BY <1>6, <2>2, <2>7, <2>8 DEF NotedEnd, AsksPaymaster
    <3> QED
      BY <2>4, <3>1, <3>2 DEF OnlyContextInv, AsksPaymaster
  <2>9. CASE AsksPaymaster(Top)
    <3>1. Len(frames) = 1
      BY <2>1, <2>3, <2>9 DEF OnlyContextInv
    <3>2. frames' = <<>>
      BY <3>1, LastFrameCloses DEF CallsClose
    <3>3. /\ todo = <<>>
          /\ \E i \in DOMAIN Levels : Levels[i].topLevelMethodSig = PaymasterSig
      BY <2>7, <2>9, <3>1 DEF AsksPaymaster
    <3>4. todo' \in {<<>>, <<"failed">>}
      BY <3>3 DEF TodoStays
    <3>5. \E i \in DOMAIN Levels' : Levels'[i].topLevelMethodSig = PaymasterSig
      BY <3>3 DEF SameTitles
    <3>6. how = "RETURN" => AsksPaymaster(entry)
      BY <1>3, <2>9 DEF EntryIs, AsksPaymaster
    <3>7. ContextNoted' <=> data = "context"
      BY <1>6, <2>2, <3>1
    <3>8. entry.data = "context" <=> data = "context"
      BY <1>3 DEF EntryIs, Kept
    <3>9. ContextNoted' => entry \in OfPaymaster'
      BY <2>5, <3>6, <3>7 DEF NotedEnd
    <3>10. \A e \in OfPaymaster' : e.data = "context" <=> ContextNoted'
      BY <2>5, <3>7, <3>8
    <3> QED
      BY <2>4, <3>2, <3>4, <3>5, <3>9, <3>10 DEF OnlyContextInv, AsksPaymaster
  <2> QED
    BY <2>8, <2>9
<1> QED
  BY <1>1, <1>7, <1>9 DEF CallsInv

---------------------------------------------------------------------------
(* Hashes and calls, action by action.                                     *)

Tracing == verdict = "tracing" /\ verdict' = verdict

LEMMA NotingStep ==
    ASSUME Basics, Basics', frames # <<>>, NEW N, Notes(N)
    PROVE  Noting(N) /\ TypeInv /\ PhaseInv /\ FrameInv /\ Levels # <<>>
BY DEF Basics, Noting, TypeInv, PhaseInv

LEMMA QuietKeccak ==
    ASSUME Basics, Basics', frames # <<>>, KeccakInv, NEW N, Notes(N),
           \A input : <<"keccak", input>> \notin N, tracer'.keccak = tracer.keccak
    PROVE  KeccakInv'
<1>1. Noting(N) /\ TypeInv /\ Levels # <<>>
  BY NotingStep
<1>2. KeccakKept(N)
  BY DEF KeccakKept
<1> QED
  BY <1>1, <1>2, KeccakStep

LEMMA QuietStep ==
    ASSUME Basics, Basics', frames # <<>>, Tracing, Collected, NEW N, Notes(N), Quiet(N),
           tracer'.keccak = tracer.keccak, tracer'.calls = tracer.calls, NEW gas, FramesStay(gas)
    PROVE  Collected'
<1>1. Noting(N) /\ TypeInv /\ Levels # <<>>
  BY NotingStep
<1>2. /\ \A x \in N : ~BadCall(x)
      /\ <<"context">> \notin N /\ \A input : <<"keccak", input>> \notin N
  BY QuietProperties
<1>3. KeccakInv'
  BY <1>2, QuietKeccak DEF Collected
<1>4. CallsStay(gas)
  BY DEF CallsStay
<1>5. CallsInv'
  BY <1>1, <1>2, <1>4, CallsQuiet DEF Collected, Tracing
<1> QED
  BY <1>3, <1>5 DEF Collected

LEMMA PlainCollects ==
    ASSUME Basics, Collected, Tracing, NEW op \in PlainOps, Plain(op)
    PROVE  Collected'
<1>1. Basics' /\ FramesStay(op = "GAS")
  BY PlainBasics DEF Tracing
<1>2. frames # <<>> /\ TypeInv /\ Levels # <<>>
  BY DEF Plain, Instruction, Basics, PhaseInv
<1> DEFINE N == {<<"op", op>>} \cup LoneGas(op)
<1>3. Notes(N) /\ tracer'.keccak = tracer.keccak /\ tracer'.calls = tracer.calls
  BY <1>2, PlainEffect DEF Effect
<1>4. Quiet(N)
  <2>1. Quiet({} \cup {<<"op", op>>} \cup LoneGas(op))
    BY QuietInstruction
  <2> QED
    BY <2>1
<1> HIDE DEF N
<1> QED
  BY <1>1, <1>2, <1>3, <1>4, QuietStep

LEMMA AccessCollects ==
    ASSUME Basics, Collected, Tracing, NEW op \in {"SLOAD", "SSTORE"}, NEW slot \in Slots,
           Access(op, slot)
    PROVE  Collected'
<1>1. Basics' /\ FramesStay(FALSE)
  BY AccessBasics DEF Tracing
<1>2. frames # <<>> /\ TypeInv /\ Levels # <<>>
  BY DEF Access, Instruction, Basics, PhaseInv
<1> DEFINE S == {<<"access", <<Top.contract, slot>>>>}
           N == S \cup {<<"op", op>>} \cup LoneGas(op)
<1>3. Notes(N) /\ tracer'.keccak = tracer.keccak /\ tracer'.calls = tracer.calls
  BY <1>2, AccessEffect DEF Effect
<1>4. Quiet(N)
  <2>1. \A x \in S : x[1] = "access"
    OBVIOUS
  <2> HIDE DEF S
  <2> QED
    BY <2>1, QuietInstruction
<1> HIDE DEF N
<1> QED
  BY <1>1, <1>2, <1>3, <1>4, QuietStep

LEMMA QuietTouch ==
    ASSUME NEW addr
    PROVE  \A x \in Touch(addr) : x[1] \in {"no code", "small code"}
<1>1. <<"no code", addr>>[1] = "no code" /\ <<"small code", addr>>[1] = "small code"
  OBVIOUS
<1>2. \A x \in Touch(addr) : x = <<"no code", addr>> \/ x = <<"small code", addr>>
  BY DEF Touch
<1> QED
  BY <1>1, <1>2

LEMMA ExtCodeCollects ==
    ASSUME Basics, Collected, Tracing, NEW addr \in ExternalOps, ExtCode(addr)
    PROVE  Collected'
<1>1. Basics' /\ FramesStay(FALSE)
  BY ExtCodeBasics DEF Tracing
<1>2. frames # <<>> /\ TypeInv /\ Levels # <<>>
  BY DEF ExtCode, Instruction, Basics, PhaseInv
<1> DEFINE N == Touch(addr) \cup {<<"op", "EXTCODESIZE">>} \cup LoneGas("EXTCODESIZE")
<1>3. Notes(N) /\ tracer'.keccak = tracer.keccak /\ tracer'.calls = tracer.calls
  BY <1>2, ExtCodeEffect DEF Effect
<1>4. Quiet(N)
  BY QuietTouch, QuietInstruction
<1> HIDE DEF N
<1> QED
  BY <1>1, <1>2, <1>3, <1>4, QuietStep

LEMMA KeccakCollects ==
    ASSUME Basics, Collected, Tracing, NEW input \in KeccakInputs, Keccak(input)
    PROVE  Collected'
<1>1. Basics' /\ FramesStay(FALSE)
  BY KeccakBasics DEF Tracing
<1>2. frames # <<>> /\ TypeInv /\ Levels # <<>>
  BY DEF Keccak, Instruction, Basics, PhaseInv
<1> DEFINE S == {<<"keccak", input>>}
           N == S \cup {<<"op", "KECCAK256">>} \cup LoneGas("KECCAK256")
<1>3. /\ Notes(N) /\ tracer'.calls = tracer.calls
      /\ tracer'.keccak = tracer.keccak \cup (IF input.len \in 21..511 THEN {input} ELSE {})
  BY <1>2, KeccakEffect DEF Effect
<1>4. \A x \in S : x[1] = "keccak" /\ x[2] = input
  OBVIOUS
<1>5. <<"keccak", input>> \in S
  OBVIOUS
<1> HIDE DEF S
<1>6. OwnNotes(N, S)
  BY InstructionNotes
<1> HIDE DEF N
<1>7. \A i : <<"keccak", i>>[2] = i
  OBVIOUS
<1>8. \A i : <<"keccak", i>> \in N <=> i = input
  BY <1>4, <1>5, <1>6, <1>7 DEF OwnNotes
<1>9. <<"context">> \notin N /\ \A x \in N : ~BadCall(x)
  <2>1. <<"context">>[1] = "context"
    OBVIOUS
  <2>2. <<"context">> \notin S /\ \A x \in S : ~BadCall(x)
    BY <1>4, <2>1, BadCallFacts
  <2> QED
    BY <1>6, <2>2 DEF OwnNotes
<1>10. Noting(N)
  BY <1>1, <1>2, <1>3, NotingStep
<1>11. KeccakKept(N)
  BY <1>3, <1>8 DEF KeccakKept
<1>12. KeccakInv'
  BY <1>2, <1>10, <1>11, KeccakStep DEF Collected
<1>13. CallsStay(FALSE)
  BY <1>1, <1>3 DEF CallsStay
<1>14. CallsInv'
  BY <1>2, <1>9, <1>10, <1>13, CallsQuiet DEF Collected, Tracing
<1> QED
  BY <1>12, <1>14 DEF Collected

LEMMA OpensStep ==
    ASSUME Basics, Basics', frames # <<>>, Tracing, Collected, NEW N, Notes(N),
           <<"context">> \notin N, \A input : <<"keccak", input>> \notin N,
           tracer'.keccak = tracer.keccak, NEW frame, NEW c, CallsOpen(frame, c),
           (\E x \in N : BadCall(x)) <=> BadEntry(c),
           AsksPaymaster(frame) => \E x \in N : Asks(x)
    PROVE  Collected'
<1>1. Noting(N) /\ TypeInv /\ Levels # <<>>
  BY NotingStep
<1>2. KeccakInv'
  BY QuietKeccak DEF Collected
<1>3. CallsInv'
  BY <1>1, CallsOpens DEF Collected, Tracing
<1> QED
  BY <1>2, <1>3 DEF Collected

LEMMA CallFactoryCollects ==
    ASSUME Basics, Collected, Tracing, CallFactory
    PROVE  Collected'
<1>1. /\ Basics' /\ FramesOpen(FactoryFrame) /\ FactoryFrame.to = Factory
      /\ FactoryFrame.method = "createAccount"
  BY CallFactoryBasics DEF Tracing
<1>2. frames # <<>> /\ TypeInv /\ Levels # <<>>
  BY DEF CallFactory, Basics, PhaseInv
<1> DEFINE N == {<<"called">>}
           c == CallOf("CALL", Creator, Factory, "createAccount")
<1>3. /\ Notes(N) /\ tracer'.keccak = tracer.keccak
      /\ tracer'.calls = Append(tracer.calls, c) /\ c \in CallSet
  BY <1>2, CallFactoryEffect DEF Effect
<1>4. Quiet(N)
  BY DEF Quiet
<1>5. c.to = Factory /\ c.from = Creator /\ c.method = "createAccount"
  BY DEF CallOf
<1> HIDE DEF N, c
<1>6. CallsOpen(FactoryFrame, c)
  BY <1>1, <1>3, <1>5, Distinct DEF CallsOpen
<1>7. ~BadEntry(c) /\ ~AsksPaymaster(FactoryFrame)
  BY <1>1, <1>5, Distinct DEF BadEntry, AsksPaymaster, PaymasterSig
<1> QED
  BY <1>1, <1>2, <1>3, <1>4, <1>6, <1>7, QuietProperties, OpensStep

LEMMA Create2Collects ==
    ASSUME Basics, Collected, Tracing, Create2
    PROVE  Collected'
<1>1. /\ Basics' /\ FramesOpen(CreatedFrame) /\ CreatedFrame.to = Made
      /\ CreatedFrame.method = ""
  BY Create2Basics DEF Tracing
<1>2. frames # <<>> /\ TypeInv /\ Levels # <<>> /\ Top.contract # EntryPoint
  BY DEF Create2, Instruction, Basics, PhaseInv
<1> DEFINE N == Again \cup {<<"op", "CREATE2">>} \cup LoneGas("CREATE2")
           c == CallOf("CREATE2", Top.contract, Made, "")
<1>3. /\ Notes(N) /\ tracer'.keccak = tracer.keccak
      /\ tracer'.calls = Append(tracer.calls, c) /\ c \in CallSet
  BY <1>2, Create2Effect DEF Effect
<1>4. Quiet(N)
  <2>1. <<"second CREATE2">>[1] = "second CREATE2"
    OBVIOUS
  <2>2. \A x \in Again : x = <<"second CREATE2">>
    BY DEF Again
  <2>3. \A x \in Again : x[1] \notin {"call", "failed", "keccak", "context"}
    BY <2>1, <2>2
  <2> QED
    BY <2>3, QuietInstruction
<1>5. c.to = Made /\ c.from = Top.contract /\ c.method = ""
  BY DEF CallOf
<1>6. Made # EntryPoint
  BY Distinct DEF Made
<1> HIDE DEF N, c
<1>7. CallsOpen(CreatedFrame, c)
  BY <1>1, <1>2, <1>3, <1>5 DEF CallsOpen
<1>8. ~BadEntry(c) /\ ~AsksPaymaster(CreatedFrame)
  BY <1>1, <1>5, <1>6 DEF BadEntry, AsksPaymaster, PaymasterSig
<1> QED
  BY <1>1, <1>2, <1>3, <1>4, <1>7, <1>8, QuietProperties, OpensStep

LEMMA NestedCallCollects ==
    ASSUME Basics, Collected, Tracing, NEW call \in NestedCalls, NestedCall(call)
    PROVE  Collected'
<1>1. /\ Basics' /\ FramesOpen(NestedFrame(call)) /\ NestedFrame(call).to = call.to
      /\ NestedFrame(call).method = call.method
  BY NestedCallBasics DEF Tracing
<1>2. frames # <<>> /\ TypeInv /\ Levels # <<>> /\ Top.contract # EntryPoint
  BY DEF NestedCall, Instruction, Basics, PhaseInv
<1> DEFINE S == Touch(call.to) \cup {<<"call", Top.contract, call.to, call.method>>}
           N == S \cup {<<"op", call.type>>} \cup LoneGas(call.type)
           c == CallOf(call.type, Top.contract, call.to, call.method)
<1>3. /\ Notes(N) /\ tracer'.keccak = tracer.keccak
      /\ tracer'.calls = Append(tracer.calls, c) /\ c \in CallSet
  BY <1>2, NestedCallEffect DEF Effect
<1>4. c.to = call.to /\ c.from = Top.contract /\ c.method = call.method
  BY DEF CallOf
<1>5. PICK x : x = <<"call", Top.contract, call.to, call.method>>
  OBVIOUS
<1>6. x[1] = "call"
  BY <1>5
<1>7. BadCall(x) <=> call.to = EntryPoint /\ call.method \notin {"0x", "depositTo"}
  BY <1>5, BadCallFacts
<1>8. S = Touch(call.to) \cup {x}
  BY <1>5
<1> HIDE DEF S
<1>9. /\ (\E y \in S : BadCall(y)) <=> BadCall(x)
      /\ <<"context">> \notin S /\ \A i : <<"keccak", i>> \notin S
  <2>1. \A y \in Touch(call.to) : y[1] \in {"no code", "small code"}
    BY QuietTouch
  <2>2. \A y \in Touch(call.to) : ~BadCall(y)
    BY <2>1, BadCallFacts
  <2>3. <<"context">>[1] = "context" /\ \A i : <<"keccak", i>>[1] = "keccak"
    OBVIOUS
  <2>4. \A y \in S : y[1] \in {"no code", "small code", "call"}
    BY <1>6, <1>8, <2>1
  <2>5. <<"context">> \notin S /\ \A i : <<"keccak", i>> \notin S
    BY <2>3, <2>4
  <2> QED
    BY <1>8, <2>2, <2>5
<1>10. OwnNotes(N, S)
  BY InstructionNotes
<1> HIDE DEF N, c
<1>11. CallsOpen(NestedFrame(call), c)
  BY <1>1, <1>2, <1>3, <1>4 DEF CallsOpen
<1>12. BadEntry(c) <=> BadCall(x)
  BY <1>2, <1>4, <1>7 DEF BadEntry
<1>13. AsksPaymaster(NestedFrame(call)) => \E y \in N : Asks(y)
  <2>1. x \in N
    BY <1>8 DEF N
  <2>2. x[3] = call.to /\ x[4] = call.method
    BY <1>5
  <2>3. AsksPaymaster(NestedFrame(call)) => Asks(x)
    BY <1>1, <1>6, <2>2 DEF AsksPaymaster, Asks
  <2> QED
    BY <2>1, <2>3
<1>14. (\E y \in N : BadCall(y)) <=> BadEntry(c)
  BY <1>9, <1>10, <1>12 DEF OwnNotes
<1>15. <<"context">> \notin N /\ \A i : <<"keccak", i>> \notin N
  BY <1>9, <1>10 DEF OwnNotes
<1> QED
  BY <1>1, <1>2, <1>3, <1>11, <1>13, <1>14, <1>15, OpensStep

LEMMA EndNotesFacts ==
    ASSUME NEW how, NEW data \in Returns
    PROVE  /\ (\E x \in EndNotes(how, data) : BadCall(x)) <=>
                 how # "RETURN" /\ Top.to = EntryPoint /\ Top.method = "0x"
           /\ \A input : <<"keccak", input>> \notin EndNotes(how, data)
<1> DEFINE W == {<<what>> : what \in {how} \cap {"OUT OF GAS"}} \cup Returned(data)
<1>1. \A x \in LoneGas(how) : x[1] = "lone GAS"
  <2>1. <<"lone GAS">>[1] = "lone GAS"
    OBVIOUS
  <2>2. PICK lone : lone = <<"lone GAS">>
    OBVIOUS
  <2>3. \A x \in LoneGas(how) : x = lone
    BY <2>2 DEF LoneGas
  <2> QED
    BY <2>1, <2>2, <2>3
<1>2. \A x \in W : x[1] \in {"OUT OF GAS", "context", "long context"}
  <2>1. \A x \in W : x = <<"OUT OF GAS">> \/ (x = <<data>> /\ data # "0x")
    <3>1. \A x \in Returned(data) : x = <<data>> /\ data # "0x"
      BY DEF Returned
    <3>2. \A what \in {how} \cap {"OUT OF GAS"} : what = "OUT OF GAS"
      OBVIOUS
    <3> QED
      BY <3>1, <3>2
  <2>2. <<"OUT OF GAS">>[1] = "OUT OF GAS" /\ <<data>>[1] = data
    OBVIOUS
  <2> HIDE DEF W
  <2> QED
    BY <2>1, <2>2 DEF Returns
<1>3. PICK failed : failed = <<"failed", Top.to, Top.method>>
  OBVIOUS
<1>4. failed[1] = "failed"
  BY <1>3
<1>5. BadCall(failed) <=> Top.to = EntryPoint /\ Top.method = "0x"
  BY <1>3, BadCallFacts
<1>6. Failed(how) = IF how # "RETURN" THEN {failed} ELSE {}
  BY <1>3 DEF Failed
<1>7. EndNotes(how, data) = LoneGas(how) \cup Failed(how) \cup W
  BY DEF EndNotes
<1> HIDE DEF W
<1>8. \A x \in LoneGas(how) \cup W : ~BadCall(x)
  BY <1>1, <1>2, BadCallFacts
<1>9. \A x \in EndNotes(how, data) : x[1] # "keccak"
  BY <1>1, <1>2, <1>4, <1>6, <1>7
<1>10. \A input : <<"keccak", input>>[1] = "keccak"
  OBVIOUS
<1>11. \A input : <<"keccak", input>> \notin EndNotes(how, data)
  BY <1>9, <1>10
<1>12. (\E x \in EndNotes(how, data) : BadCall(x)) <=>
           how # "RETURN" /\ Top.to = EntryPoint /\ Top.method = "0x"
  BY <1>5, <1>6, <1>7, <1>8
<1> QED
  BY <1>11, <1>12

LEMMA EndFrameCollects ==
    ASSUME Basics, Collected, Tracing, NEW how \in {"RETURN", "REVERT", "OUT OF GAS"},
           NEW data \in Returns, EndFrame(how, data)
    PROVE  Collected'
<1>1. Basics' /\ FramesClose
  BY EndFrameBasics DEF Tracing
<1>2. frames # <<>> /\ TypeInv /\ PhaseInv /\ FrameInv /\ Levels # <<>>
  BY DEF EndFrame, Basics, PhaseInv
<1>3. PICK N : N = EndNotes(how, data)
  OBVIOUS
<1>4. /\ Notes(N) /\ tracer'.keccak = tracer.keccak /\ ExitOf(how, data) \in ExitSet
      /\ tracer'.calls = Append(tracer.calls, ExitOf(how, data))
      /\ LastOnly(tracer, tracer') /\ Level(tracer').topLevelMethodSig = Title
  BY <1>2, <1>3, EndFrameEffect DEF Effect, Becomes
<1>5. Noting(N)
  BY <1>1, <1>2, <1>4, NotingStep
<1>6. CallsClose(ExitOf(how, data))
  BY <1>1, <1>4 DEF CallsClose
<1>7. <<"context">> \in N <=> data = "context" /\ Len(frames) = 1
  BY <1>2, <1>3, EndFacts DEF EndNoted
<1>8. data = "context" => how = "RETURN" /\ Top.method = PaymasterSig
  BY DEF EndFrame, PaymasterSig
<1>9. NotedEnd(N, how, data)
  BY <1>3, <1>7, <1>8, EndNotesFacts DEF NotedEnd
<1>10. SameTitles
  <2>1. /\ DOMAIN Levels = 1..Len(Levels) /\ DOMAIN Levels' = 1..Len(Levels)
        /\ Level(tracer') = Levels'[Len(Levels)]
        /\ \A i \in 1..Len(Levels) : i # Len(Levels) => Levels'[i] = Levels[i]
    BY <1>2, <1>4, LevelsAfter
  <2>2. Title = Levels[Len(Levels)].topLevelMethodSig
    BY DEF Title, Level, Levels
  <2> QED
    BY <1>4, <2>1, <2>2 DEF SameTitles
<1>11. TodoStays
  BY DEF EndFrame, TodoStays
<1>12. CallsInv'
  BY <1>2, <1>5, <1>6, <1>9, <1>10, <1>11, CallsCloses DEF Collected, Tracing
<1>13. KeccakInv'
  BY <1>1, <1>2, <1>3, <1>4, EndNotesFacts, QuietKeccak DEF Collected
<1> QED
  BY <1>12, <1>13 DEF Collected

(* Nothing is noted. *)
LEMMA SameNotes ==
    ASSUME did' = did
    PROVE  /\ \A x : Somewhere(x)' <=> Somewhere(x)
           /\ BadCalls' <=> BadCalls
           /\ PaymasterAsked' <=> PaymasterAsked
           /\ tracer'.keccak = tracer.keccak => (KeccakInv => KeccakInv')
BY DEF Somewhere, BadCalls, BadCall, PaymasterAsked, KeccakInv

LEMMA CallEntityCollects ==
    ASSUME Basics, Collected, Tracing, CallEntity
    PROVE  Collected'
<1> DEFINE c == CallOf("CALL", EntryPoint, Target(NewLevel), NewLevel)
<1>1. /\ TypeInv /\ PhaseInv /\ FrameInv /\ frames = <<>> /\ did' = did
      /\ FramesParsed /\ Parsed \in ParsedSet
  BY DEF Basics, CallEntity, Collected, CallsInv, ParseInv, Tracing
<1>2. /\ tracer'.keccak = tracer.keccak /\ tracer'.calls = Append(tracer.calls, c)
      /\ c \in CallSet
  BY <1>1, CallEntityEffect
<1>3. /\ c.to = Target(NewLevel) /\ c.method = NewLevel /\ c.from = EntryPoint
  BY DEF CallOf
<1>4. frames' = <<TopLevelFrame>> /\ TopLevelFrame.to = Target(NewLevel)
      /\ TopLevelFrame.method = NewLevel
  BY CallEntityBasics DEF IsNew, Tracing
<1> HIDE DEF c
<1>5. /\ Parsed' = ParseStep(Parsed, c) /\ Len(tracer'.calls) = Len(tracer.calls) + 1
      /\ Len(tracer.calls) \in Nat
  BY <1>1, <1>2, ParsedAfter
<1>6. Parsed' \in ParsedSet /\ Parsed'.stack = Append(Parsed.stack, c) /\ Parsed'.out = Parsed.out
  BY <1>1, <1>2, <1>5, ParseOfCall
<1>7. Parsed.stack = <<>>
  <2>1. Len(Parsed.stack) = 0
    <3>1. Len(<<>>) = 0
      OBVIOUS
    <3> QED
      BY <1>1, <3>1 DEF FramesParsed
  <2> QED
    BY <1>1, <2>1, EmptySeq DEF ParsedSet
<1>8. Parsed'.stack = <<c>>
  BY <1>6, <1>7
<1>9. FramesParsed'
  <2>1. Len(Parsed'.stack) = 1 /\ Len(frames') = 1 /\ DOMAIN frames' = {1}
        /\ Parsed'.stack[1] = c /\ frames'[1] = TopLevelFrame
    BY <1>4, <1>8
  <2>2. 2 * Len(Parsed'.out) + Len(Parsed'.stack) = Len(tracer'.calls)
    <3>1. PICK out \in Nat, calls \in Nat : out = Len(Parsed.out) /\ calls = Len(tracer.calls)
      BY <1>1, <1>5, LenProperties DEF ParsedSet
    <3>2. 2 * out + 0 = calls
      <4>1. Len(<<>>) = 0
        OBVIOUS
      <4>2. 2 * Len(Parsed.out) + Len(Parsed.stack) = Len(tracer.calls)
        BY <1>1 DEF FramesParsed
      <4> QED
        BY <1>7, <3>1, <4>1, <4>2, Zenon
    <3>3. 2 * out + 1 = calls + 1
      BY <3>2
    <3>4. Len(Parsed'.out) = out /\ Len(tracer'.calls) = calls + 1
      BY <1>5, <1>6, <3>1
    <3> QED
      BY <2>1, <3>3, <3>4, Zenon
  <2>3. \A i \in DOMAIN frames' :
           /\ Parsed'.stack[i].to = frames'[i].to /\ Parsed'.stack[i].method = frames'[i].method
           /\ Parsed'.stack[i].from = EntryPoint <=> i = 1
    BY <1>3, <1>4, <2>1
  <2> QED
    BY <2>1, <2>2, <2>3 DEF FramesParsed
<1>10. ParseInv'
  BY <1>6, <1>9 DEF ParseInv, Tracing
<1>11. Entries' = Entries \cup {c} /\ ToSet(Parsed.out)' = ToSet(Parsed.out)
  <2>1. ToSet(<<>>) = {} /\ ToSet(<<c>>) = {c}
    BY DEF ToSet
  <2> QED
    BY <1>6, <1>7, <1>8, <2>1 DEF Entries
<1>12. CallInv'
  <2>1. ~BadEntry(c)
    BY <1>3 DEF BadEntry
  <2>2. BadCalls' <=> BadCalls
    BY <1>1, SameNotes
  <2>3. BadCalls <=> \E e \in Entries : BadEntry(e)
    BY DEF Collected, CallsInv, CallInv, Entries
  <2>4. (\E e \in Entries : BadEntry(e))' <=> \E e \in Entries' : BadEntry(e)
    BY DEF BadEntry
  <2>5. BadCalls' <=> (\E e \in Entries : BadEntry(e))'
    BY <1>11, <2>1, <2>2, <2>3, <2>4
  <2> QED
    BY <2>5 DEF CallInv, Entries
<1>13. ContextNoted' <=> ContextNoted
  BY <1>1, SameNotes DEF ContextNoted
<1>14. PaymasterAsked' <=> PaymasterAsked
  BY <1>1, SameNotes
<1>15. ASSUME ~PaymasterAsked' PROVE OnlyContextInv'
  <2>1. todo \notin {<<>>, <<"failed">>}
    <3>1. todo # <<>>
      BY DEF CallEntity
    <3>2. NewLevel \in PhaseSigs
      BY <1>1, NextPhase
    <3>3. Head(<<"failed">>) = "failed" /\ "failed" \notin PhaseSigs
      BY DEF PhaseSigs
    <3>4. todo # <<"failed">>
      BY <3>2, <3>3 DEF NewLevel
    <3> QED
      BY <3>1, <3>4
  <2>2. NothingOfPaymaster
    BY <1>14, <1>15, <2>1, NoContextYet DEF Collected, CallsInv
  <2>3. OfPaymaster' = {} /\ ~ContextNoted'
    BY <1>11, <1>13, <2>2 DEF NothingOfPaymaster, OfPaymaster, AsksPaymaster
  <2>4. \A i \in DOMAIN frames' : i = 1
    BY <1>4
  <2> QED
    BY <2>3, <2>4 DEF OnlyContextInv, AsksPaymaster
<1>16. KeccakInv'
  BY <1>1, <1>2, SameNotes DEF Collected
<1> QED
  BY <1>10, <1>12, <1>15, <1>16 DEF Collected, CallsInv

LEMMA RevertsCollects ==
    ASSUME Basics, Collected, EntryPointReverts
    PROVE  Collected'
<1> DEFINE exit == ExitOf("REVERT", "0x")
           entry == CallEntry(TopCall, exit)
<1>1. /\ TypeInv /\ frames = <<>> /\ did' = did /\ verdict = "tracing" /\ verdict' = "traced"
      /\ frames' = frames /\ todo' = todo
      /\ FramesParsed /\ Parsed \in ParsedSet
  BY DEF Basics, EntryPointReverts, Simulated, Collected, CallsInv, ParseInv, evmVars
<1>2. /\ tracer'.keccak = tracer.keccak /\ tracer'.calls = Append(tracer.calls, exit)
      /\ exit \in ExitSet /\ Levels' = Levels
  BY <1>1, RevertsEffect
<1>3. entry.to = Codeless /\ entry.from = Codeless /\ entry.data = "0x"
      /\ entry.method = "validateUserOp"
  BY DEF CallEntry, TopCall, ExitOf, Kept
<1> HIDE DEF exit, entry
<1>4. /\ Parsed' = ParseStep(Parsed, exit) /\ Len(tracer'.calls) = Len(tracer.calls) + 1
      /\ Len(tracer.calls) \in Nat
  BY <1>1, <1>2, ParsedAfter
<1>5. Parsed.stack = <<>>
  <2>1. Len(Parsed.stack) = 0
    <3>1. Len(<<>>) = 0
      OBVIOUS
    <3> QED
      BY <1>1, <3>1 DEF FramesParsed
  <2> QED
    BY <1>1, <2>1, EmptySeq DEF ParsedSet
<1>6. /\ Parsed' \in ParsedSet /\ Parsed'.stack = <<>> /\ Parsed'.out = Append(Parsed.out, entry)
      /\ entry \in EntrySet
  BY <1>1, <1>2, <1>4, <1>5, ParseOfLastExit DEF entry
<1>7. Parsed.out \in Seq(EntrySet)
  BY <1>1 DEF ParsedSet
<1>8. /\ Len(Parsed'.out) = Len(Parsed.out) + 1 /\ Len(Parsed.out) \in Nat
      /\ Last(Parsed'.out) = entry
  BY <1>6, <1>7, AppendProperties, LenProperties DEF Last
<1>9. Entries' = Entries \cup {entry} /\ ToSet(Parsed.out)' = ToSet(Parsed.out) \cup {entry}
  <2>1. ToSet(Parsed'.out) = ToSet(Parsed.out) \cup {entry}
    BY <1>6, <1>7, ToSetOfAppend
  <2> QED
    BY <1>5, <1>6, <2>1 DEF Entries
<1>10. AllParsed'
  <2>1. 2 * Len(Parsed'.out) = Len(tracer'.calls) + 1
    <3>1. PICK out \in Nat, calls \in Nat : out = Len(Parsed.out) /\ calls = Len(tracer.calls)
      BY <1>4, <1>8
    <3>2. 2 * out + 0 = calls
      <4>1. Len(<<>>) = 0
        OBVIOUS
      <4>2. 2 * Len(Parsed.out) + Len(Parsed.stack) = Len(tracer.calls)
        BY <1>1 DEF FramesParsed
      <4> QED
        BY <1>5, <3>1, <4>1, <4>2, Zenon
    <3>3. 2 * (out + 1) = (calls + 1) + 1
      BY <3>2
    <3>4. Len(Parsed'.out) = out + 1 /\ Len(tracer'.calls) = calls + 1
      BY <1>4, <1>8, <3>1
    <3> QED
      BY <3>3, <3>4, Zenon
  <2>2. \E e \in ToSet(Parsed'.out) : e.to # EntryPoint
    BY <1>3, <1>9, Distinct
  <2> QED
    BY <1>1, <1>3, <1>6, <1>8, <2>1, <2>2 DEF AllParsed
<1>11. ParseInv'
  BY <1>1, <1>6, <1>10 DEF ParseInv
<1>12. CallInv'
  <2>1. ~BadEntry(entry)
    BY <1>3, Distinct DEF BadEntry
  <2>2. BadCalls' <=> BadCalls
    BY <1>1, SameNotes
  <2>3. BadCalls <=> \E e \in Entries : BadEntry(e)
    BY DEF Collected, CallsInv, CallInv, Entries
  <2>4. (\E e \in Entries : BadEntry(e))' <=> \E e \in Entries' : BadEntry(e)
    BY DEF BadEntry
  <2>5. BadCalls' <=> (\E e \in Entries : BadEntry(e))'
    BY <1>9, <2>1, <2>2, <2>3, <2>4
  <2> QED
    BY <2>5 DEF CallInv, Entries
<1>13. ContextNoted' <=> ContextNoted
  BY <1>1, SameNotes DEF ContextNoted
<1>14. PaymasterAsked' <=> PaymasterAsked
  BY <1>1, SameNotes
<1>15. ASSUME ~PaymasterAsked' PROVE OnlyContextInv'
  <2>1. OnlyContextInv
    BY <1>14, <1>15 DEF Collected, CallsInv
  <2>2. OfPaymaster' = OfPaymaster
    BY <1>3, <1>9 DEF OfPaymaster, AsksPaymaster, PaymasterSig
  <2> QED
    BY <1>1, <1>2, <1>13, <2>1, <2>2 DEF OnlyContextInv, AsksPaymaster
<1>16. KeccakInv'
  BY <1>1, <1>2, SameNotes DEF Collected
<1> QED
  BY <1>11, <1>12, <1>15, <1>16 DEF Collected, CallsInv

LEMMA SameCollects ==
    ASSUME Collected, UNCHANGED traceVars, verdict = "tracing" <=> verdict' = "tracing"
    PROVE  Collected'
<1>1. tracer' = tracer /\ did' = did /\ frames' = frames /\ todo' = todo
  BY DEF traceVars, evmVars
<1>2. Parsed' = Parsed /\ Levels' = Levels
  BY <1>1 DEF Parsed, Levels
<1>3. (BadCalls' <=> BadCalls) /\ (ContextNoted' <=> ContextNoted) /\ (KeccakInv => KeccakInv')
  BY <1>1, SameNotes DEF ContextNoted
<1>4. ParseInv'
  <2>1. (FramesParsed => FramesParsed') /\ (AllParsed => AllParsed')
    BY <1>1, <1>2 DEF FramesParsed, AllParsed
  <2> QED
    BY <1>2, <2>1 DEF Collected, CallsInv, ParseInv
<1>5. CallInv'
  BY <1>2, <1>3 DEF Collected, CallsInv, CallInv, BadEntry
<1>6. PaymasterAsked' <=> PaymasterAsked
  BY <1>1, SameNotes
<1>7. OnlyContextInv => OnlyContextInv'
  <2>1. OfPaymaster' = OfPaymaster
    BY <1>2 DEF OfPaymaster, AsksPaymaster
  <2> QED
    BY <1>1, <1>2, <1>3, <2>1 DEF OnlyContextInv, AsksPaymaster
<1> QED
  BY <1>3, <1>4, <1>5, <1>6, <1>7 DEF Collected, CallsInv

LEMMA InitialCollected ==
    ASSUME ScanInit
    PROVE  Collected
<1>1. frames = <<>> /\ tracer = EmptyTracer /\ did = {} /\ verdict = "tracing"
  BY DEF ScanInit, TraceInit
<1>2. tracer.calls = <<>> /\ tracer.keccak = {}
  BY <1>1 DEF EmptyTracer
<1>3. Parsed = NothingParsed
  BY <1>2, ParseNothing DEF Parsed
<1>4. Parsed.stack = <<>> /\ Parsed.out = <<>> /\ ToSet(<<>>) = {} /\ Len(<<>>) = 0 /\ DOMAIN <<>> = {}
  BY <1>3 DEF NothingParsed, ToSet
<1>5. Parsed \in ParsedSet
  BY <1>3, EmptySeq DEF NothingParsed, ParsedSet
<1>6. FramesParsed
  BY <1>1, <1>2, <1>4 DEF FramesParsed
<1>7. ParseInv
  BY <1>1, <1>5, <1>6 DEF ParseInv
<1>8. ~BadCalls /\ ~ContextNoted /\ \A x : ~Somewhere(x)
  BY <1>1 DEF BadCalls, ContextNoted, Somewhere
<1>9. KeccakInv
  BY <1>2, <1>8 DEF KeccakInv
<1>10. CallInv
  BY <1>4, <1>8 DEF CallInv
<1>11. OnlyContextInv
  BY <1>1, <1>4, <1>8 DEF OnlyContextInv, OfPaymaster
<1> QED
  BY <1>7, <1>9, <1>10, <1>11 DEF Collected, CallsInv

---------------------------------------------------------------------------
(* The storage before the operation.                                       *)

LEMMA PairFields ==
    ASSUME NEW A, NEW B, NEW a \in A, NEW b \in B
    PROVE  \E w \in A \X B : w = <<a, b>> /\ w[1] = a /\ w[2] = b
<1>1. <<a, b>> \in A \X B /\ <<a, b>>[1] = a /\ <<a, b>>[2] = b
  OBVIOUS
<1> QED
  BY <1>1

LEMMA AccessesStay ==
    ASSUME DOMAIN Levels' = DOMAIN Levels, FirstReadsOld,
           \A i \in DOMAIN Levels : Levels'[i].access = Levels[i].access,
           DOMAIN Levels = 1..Len(Levels)
    PROVE  Written' = Written /\ FirstReadsOld'
<1>1. ASSUME NEW i \in DOMAIN Levels, NEW contract, NEW slot
      PROVE  WrittenIn(Levels[i], contract, slot)' <=> WrittenIn(Levels[i], contract, slot)
  BY DEF WrittenIn
<1>2. Written' = Written
  BY <1>1 DEF Written
<1>3. ASSUME NEW i \in DOMAIN Levels, NEW addr, FirstMet(i, addr)' PROVE FirstMet(i, addr)
  BY <1>3 DEF FirstMet
<1>4. FirstReadsOld'
  BY <1>3 DEF FirstReadsOld
<1> QED
  BY <1>2, <1>4

LEMMA AccessUntouched ==
    ASSUME TypeInv, Levels # <<>>, FirstReadsOld, LastOnly(tracer, tracer'),
           Level(tracer').access = Level(tracer).access
    PROVE  Written' = Written /\ FirstReadsOld'
<1>1. /\ DOMAIN Levels = 1..Len(Levels) /\ DOMAIN Levels' = 1..Len(Levels)
      /\ Level(tracer') = Levels'[Len(Levels)]
  BY LevelsAfter
<1>2. \A i \in 1..Len(Levels) : i # Len(Levels) => Levels'[i] = Levels[i]
  BY LevelsAfter
<1>3. Level(tracer) = Levels[Len(Levels)]
  BY DEF Level, Levels
<1>4. \A i \in DOMAIN Levels : Levels'[i].access = Levels[i].access
  BY <1>1, <1>2, <1>3
<1> QED
  BY <1>1, <1>4, AccessesStay

LEMMA StorageStays ==
    ASSUME TypeInv, Levels # <<>>, StorageInv, LastOnly(tracer, tracer'),
           Level(tracer').access = Level(tracer).access, storage' = storage, NEW gas, FramesStay(gas)
    PROVE  StorageInv'
<1>1. Written' = Written /\ FirstReadsOld'
  BY AccessUntouched DEF StorageInv
<1>2. FramesWritten'
  BY <1>1 DEF StorageInv, FramesStay, SameFrame, FramesWritten
<1> QED
  BY <1>1, <1>2 DEF StorageInv

LEMMA StorageOpens ==
    ASSUME TypeInv, Levels # <<>>, StorageInv, LastOnly(tracer, tracer'),
           Level(tracer').access = Level(tracer).access, storage' = storage,
           NEW frame, FramesOpen(frame), frame.storage = storage
    PROVE  StorageInv'
<1>1. Written' = Written /\ FirstReadsOld'
  BY AccessUntouched DEF StorageInv
<1>2. /\ DOMAIN frames' = DOMAIN frames \cup {Len(frames) + 1}
      /\ \A i \in DOMAIN frames : frames'[i].storage = frames[i].storage
      /\ frames'[Len(frames) + 1] = frame
  BY DEF FramesOpen, SameFrame
<1>3. FramesWritten'
  BY <1>1, <1>2 DEF StorageInv, FramesWritten
<1> QED
  BY <1>1, <1>3 DEF StorageInv

LEMMA StorageCloses ==
    ASSUME TypeInv, Levels # <<>>, StorageInv, LastOnly(tracer, tracer'), frames # <<>>,
           Level(tracer').access = Level(tracer).access, FramesClose,
           storage' = storage \/ storage' = Top.storage
    PROVE  StorageInv'
<1>1. Written' = Written /\ FirstReadsOld'
  BY AccessUntouched DEF StorageInv
<1>2. \A i \in DOMAIN frames' : i \in DOMAIN frames /\ frames'[i] = frames[i]
  BY DEF FramesClose
<1>3. FramesWritten'
  BY <1>1, <1>2 DEF StorageInv, FramesWritten
<1>4. storage' \subseteq Written'
  BY <1>1, TopProperties DEF StorageInv, FramesWritten, Top
<1> QED
  BY <1>1, <1>3, <1>4 DEF StorageInv

(* An access: what it does to the last level. *)
LEMMA StorageAccess ==
    ASSUME Basics, StorageInv, NEW op \in {"SLOAD", "SSTORE"}, NEW slot \in Slots,
           Access(op, slot), FramesStay(FALSE)
    PROVE  StorageInv'
<1> DEFINE n == Len(Levels)

<1>1. frames # <<>> /\ TypeInv /\ Levels # <<>> /\ Top.contract \in Addresses
  <2>1. frames # <<>> /\ TypeInv /\ Levels # <<>>
    BY DEF Access, Instruction, Basics, PhaseInv
  <2> QED
    BY <2>1, TopProperties DEF FrameSet
<1>2. PICK contract \in Addresses : contract = Top.contract
  BY <1>1
<1>3. PICK value : value = IF <<contract, slot>> \in storage THEN "new" ELSE "old"
  OBVIOUS
<1>4. PICK old : old = Accessed(Level(tracer).access, contract)
  OBVIOUS
<1>5. PICK new : /\ AccessStep(old, new, op, slot, value)
                 /\ LastOnly(tracer, tracer')
                 /\ Level(tracer').access = Put(Level(tracer).access, contract, new)
  BY <1>1, <1>2, <1>3, <1>4, AccessEffect DEF Effect, Becomes
<1>6. /\ DOMAIN Levels = 1..n /\ DOMAIN Levels' = 1..n /\ n \in Nat \ {0}
      /\ Level(tracer') = Levels'[n] /\ Level(tracer) = Levels[n]
  BY <1>1, <1>5, LevelsAfter DEF Level, Levels
<1>7. \A i \in 1..n : i # n => Levels'[i] = Levels[i]
  BY <1>1, <1>5, LevelsAfter
<1>8. /\ contract \notin DOMAIN Levels[n].access => DOMAIN old.reads = {} /\ DOMAIN old.writes = {}
      /\ contract \in DOMAIN Levels[n].access => old = Levels[n].access[contract]
  BY <1>4, <1>6, AccessedProperties DEF Accessed, NoEntry
<1> HIDE DEF n
<1>9. /\ DOMAIN Levels'[n].access = DOMAIN Levels[n].access \cup {contract}
      /\ Levels'[n].access[contract] = new
      /\ \A a \in DOMAIN Levels[n].access : a # contract =>
            Levels'[n].access[a] = Levels[n].access[a]
  BY <1>5, <1>6 DEF Put
<1>10. /\ DOMAIN old.writes \subseteq DOMAIN new.writes
       /\ op = "SSTORE" => slot \in DOMAIN new.writes
       /\ \A s \in DOMAIN new.reads :
             \/ s \in DOMAIN old.reads /\ new.reads[s] = old.reads[s]
             \/ s = slot /\ slot \notin DOMAIN old.writes /\ new.reads[s] = value
  BY <1>5 DEF AccessStep
<1>11. ASSUME NEW i \in DOMAIN Levels, NEW a, NEW s, WrittenIn(Levels[i], a, s)
       PROVE  WrittenIn(Levels'[i], a, s)
  <2>1. CASE i # n
    BY <1>6, <1>7, <1>11, <2>1 DEF WrittenIn
  <2>2. CASE i = n /\ a # contract
    BY <1>9, <1>11, <2>2 DEF WrittenIn
  <2>3. CASE i = n /\ a = contract
    BY <1>8, <1>9, <1>10, <1>11, <2>3 DEF WrittenIn
  <2> QED
    BY <2>1, <2>2, <2>3
<1>12. Written \subseteq Written'
  <2> SUFFICES ASSUME NEW w \in Written PROVE w \in Written'
    OBVIOUS
  <2>1. PICK i \in DOMAIN Levels : WrittenIn(Levels[i], w[1], w[2])
    BY DEF Written
  <2>2. WrittenIn(Levels'[i], w[1], w[2]) /\ i \in DOMAIN Levels'
    BY <1>6, <1>11, <2>1
  <2>3. w \in Addresses \X Slots
    BY DEF Written
  <2> QED
    BY <2>2, <2>3 DEF Written, WrittenIn
<1>13. FramesWritten'
  BY <1>12 DEF StorageInv, FramesStay, SameFrame, FramesWritten
<1>14. storage' \subseteq Written'
  <2>1. storage' = IF op = "SSTORE" THEN storage \cup {<<contract, slot>>} ELSE storage
    BY <1>2 DEF Access
  <2>2. ASSUME op = "SSTORE" PROVE <<contract, slot>> \in Written'
    <3>1. WrittenIn(Levels'[n], contract, slot) /\ n \in DOMAIN Levels'
      BY <1>6, <1>9, <1>10, <2>2 DEF WrittenIn
    <3>2. PICK w \in Addresses \X Slots : w = <<contract, slot>> /\ w[1] = contract /\ w[2] = slot
      BY PairFields
    <3>3. w \in Written'
      BY <3>1, <3>2 DEF Written, WrittenIn
    <3> QED
      BY <3>2, <3>3
  <2> QED
    BY <1>12, <2>1, <2>2 DEF StorageInv
<1>15. FirstReadsOld'
  <2> SUFFICES ASSUME NEW i \in DOMAIN Levels', NEW addr, FirstMet(i, addr)',
                      NEW s \in DOMAIN Levels'[i].access[addr].reads
               PROVE  Levels'[i].access[addr].reads[s] = "old"
    BY DEF FirstReadsOld
  <2>1. i \in DOMAIN Levels /\ i \in 1..n
    BY <1>6
  <2>2. \A j \in 1..(i - 1) : j \in 1..n /\ j # n /\ j \in DOMAIN Levels
    BY <1>6, <2>1
  <2>3. \A j \in 1..(i - 1) : addr \notin DOMAIN Levels[j].access
    BY <1>7, <2>2 DEF FirstMet
  <2>4. addr \in DOMAIN Levels'[i].access
    BY DEF FirstMet
  <2>5. ASSUME addr \in DOMAIN Levels[i].access
        PROVE  \A r \in DOMAIN Levels[i].access[addr].reads : Levels[i].access[addr].reads[r] = "old"
    <3>1. FirstMet(i, addr)
      BY <2>3, <2>5 DEF FirstMet
    <3> QED
      BY <2>1, <3>1 DEF StorageInv, FirstReadsOld
  <2>6. CASE i # n
    BY <1>7, <2>1, <2>4, <2>5, <2>6
  <2>7. CASE i = n /\ addr # contract
    BY <1>9, <2>4, <2>5, <2>7
  <2>8. CASE i = n /\ addr = contract
    <3>1. s \in DOMAIN new.reads /\ Levels'[i].access[addr].reads[s] = new.reads[s]
      BY <1>9, <2>8
    <3>2. CASE s \in DOMAIN old.reads /\ new.reads[s] = old.reads[s]
      BY <1>8, <2>5, <2>8, <3>1, <3>2
    <3>3. CASE s = slot /\ slot \notin DOMAIN old.writes /\ new.reads[s] = value
      <4>1. <<contract, slot>> \notin storage
        <5> SUFFICES ASSUME <<contract, slot>> \in Written PROVE FALSE
          BY DEF StorageInv
        <5>1. PICK w \in Addresses \X Slots : w = <<contract, slot>> /\ w[1] = contract /\ w[2] = slot
          BY PairFields
        <5>2. w \in Written
          BY <5>1
        <5>3. PICK k \in DOMAIN Levels : WrittenIn(Levels[k], w[1], w[2])
          BY <5>2 DEF Written
        <5>4. contract \in DOMAIN Levels[k].access /\ slot \in DOMAIN Levels[k].access[contract].writes
          BY <5>1, <5>3 DEF WrittenIn
        <5>5. CASE k = n
          BY <1>8, <3>3, <5>4, <5>5
        <5>6. CASE k # n
          <6>1. k \in 1..(i - 1)
            BY <1>6, <2>8, <5>6
          <6> QED
            BY <2>3, <2>8, <5>4, <6>1
        <5> QED
          BY <5>5, <5>6
      <4> QED
        BY <1>3, <3>1, <3>3, <4>1
    <3> QED
      BY <1>10, <3>1, <3>2, <3>3
  <2> QED
    BY <2>6, <2>7, <2>8
<1> QED
  BY <1>13, <1>14, <1>15 DEF StorageInv

LEMMA StorageCallEntity ==
    ASSUME Basics, StorageInv, CallEntity, UNCHANGED verdict
    PROVE  StorageInv'
<1> DEFINE n == Len(Levels)
<1>1. TypeInv /\ PhaseInv /\ FrameInv /\ storage' = storage
  BY DEF Basics, CallEntity
<1>2. /\ DOMAIN Levels' = 1..(n + 1) /\ DOMAIN Levels = 1..n /\ n \in Nat
  BY <1>1, CallEntityLevels
<1>3. \A i \in 1..n : Levels'[i] = Levels[i]
  BY <1>1, CallEntityLevels
<1>4. DOMAIN Levels'[n + 1].access = {}
  BY <1>1, CallEntityLevels DEF TopLevelCallInfo, NoEntry
<1>5. frames' = <<TopLevelFrame>> /\ TopLevelFrame.storage = storage
  BY CallEntityBasics DEF IsNew
<1> HIDE DEF n
<1>6. Written \subseteq Written'
  <2> SUFFICES ASSUME NEW w \in Written PROVE w \in Written'
    OBVIOUS
  <2>1. PICK i \in DOMAIN Levels : WrittenIn(Levels[i], w[1], w[2])
    BY DEF Written
  <2>2. WrittenIn(Levels'[i], w[1], w[2]) /\ i \in DOMAIN Levels'
    BY <1>2, <1>3, <2>1 DEF WrittenIn
  <2>3. w \in Addresses \X Slots
    BY DEF Written
  <2> QED
    BY <2>2, <2>3 DEF Written, WrittenIn
<1>7. storage' \subseteq Written'
  BY <1>1, <1>6 DEF StorageInv
<1>8. FramesWritten'
  <2>1. \A i \in DOMAIN frames' : frames'[i] = TopLevelFrame
    BY <1>5
  <2> QED
    BY <1>1, <1>5, <1>7, <2>1 DEF FramesWritten
<1>9. FirstReadsOld'
  <2> SUFFICES ASSUME NEW i \in DOMAIN Levels', NEW addr, FirstMet(i, addr)'
               PROVE  \A s \in DOMAIN Levels'[i].access[addr].reads :
                          Levels'[i].access[addr].reads[s] = "old"
    BY DEF FirstReadsOld
  <2>1. addr \in DOMAIN Levels'[i].access /\ \A j \in 1..(i - 1) : addr \notin DOMAIN Levels'[j].access
    BY DEF FirstMet
  <2>2. i # n + 1
    BY <1>4, <2>1
  <2>3. i \in 1..n /\ \A j \in 1..(i - 1) : j \in 1..n
    BY <1>2, <2>2
  <2>4. FirstMet(i, addr)
    BY <1>3, <2>1, <2>3 DEF FirstMet
  <2> QED
    BY <1>2, <1>3, <2>3, <2>4 DEF StorageInv, FirstReadsOld
<1> QED
  BY <1>7, <1>8, <1>9 DEF StorageInv

LEMMA SameStorage ==
    ASSUME TypeInv, StorageInv, Levels' = Levels, storage' = storage, frames' = frames
    PROVE  StorageInv'
<1>1. DOMAIN Levels = 1..Len(Levels)
  BY DEF TypeInv, TracerSet, Levels
<1>2. Written' = Written /\ FirstReadsOld'
  BY <1>1, AccessesStay DEF StorageInv
<1> QED
  BY <1>2 DEF StorageInv, FramesWritten

---------------------------------------------------------------------------
(* Every step keeps the invariant.                                         *)

LEMMA AccessOf ==
    ASSUME NEW opcodes, NEW access, NEW sizes, NEW oog, NEW calls, NEW lastOp,
           Effect(opcodes, access, sizes, oog, calls, lastOp)
    PROVE  LastOnly(tracer, tracer') /\ Level(tracer').access = access
BY DEF Effect, Becomes

LEMMA PlainKeeps ==
    ASSUME Gathered, Tracing, NEW op \in PlainOps, Plain(op)
    PROVE  Gathered'
<1>1. /\ Basics /\ LevelInv /\ Collected /\ StorageInv /\ verdict' = verdict
      /\ TypeInv /\ PhaseInv /\ FrameInv
  BY DEF Gathered, Tracing, Basics
<1>2. Basics' /\ FramesStay(op = "GAS")
  BY <1>1, PlainBasics
<1>3. LevelInv' /\ Collected'
  BY <1>1, PlainKeepsLevels, PlainCollects
<1>4. Levels # <<>> /\ storage' = storage
  BY <1>1 DEF Plain, Instruction, PhaseInv
<1>5. LastOnly(tracer, tracer') /\ Level(tracer').access = Level(tracer).access
  BY <1>1, <1>4, PlainEffect, AccessOf
<1>6. StorageInv'
  BY <1>1, <1>2, <1>4, <1>5, StorageStays
<1> QED
  BY <1>2, <1>3, <1>6 DEF Gathered

LEMMA KeccakKeeps ==
    ASSUME Gathered, Tracing, NEW input \in KeccakInputs, Keccak(input)
    PROVE  Gathered'
<1>1. /\ Basics /\ LevelInv /\ Collected /\ StorageInv /\ verdict' = verdict
      /\ TypeInv /\ PhaseInv /\ FrameInv
  BY DEF Gathered, Tracing, Basics
<1>2. Basics' /\ FramesStay(FALSE)
  BY <1>1, KeccakBasics
<1>3. LevelInv' /\ Collected'
  BY <1>1, KeccakKeepsLevels, KeccakCollects
<1>4. Levels # <<>> /\ storage' = storage
  BY <1>1 DEF Keccak, Instruction, PhaseInv
<1>5. LastOnly(tracer, tracer') /\ Level(tracer').access = Level(tracer).access
  BY <1>1, <1>4, KeccakEffect, AccessOf
<1>6. StorageInv'
  BY <1>1, <1>2, <1>4, <1>5, StorageStays
<1> QED
  BY <1>2, <1>3, <1>6 DEF Gathered

LEMMA AccessKeepsAll ==
    ASSUME Gathered, Tracing, NEW op \in {"SLOAD", "SSTORE"}, NEW slot \in Slots, Access(op, slot)
    PROVE  Gathered'
<1>1. /\ Basics /\ LevelInv /\ Collected /\ StorageInv /\ verdict' = verdict
      /\ TypeInv /\ PhaseInv /\ FrameInv
  BY DEF Gathered, Tracing, Basics
<1>2. Basics' /\ FramesStay(FALSE)
  BY <1>1, AccessBasics
<1>3. LevelInv' /\ Collected'
  BY <1>1, AccessKeepsLevels, AccessCollects
<1>4. StorageInv'
  BY <1>1, <1>2, StorageAccess
<1> QED
  BY <1>2, <1>3, <1>4 DEF Gathered

LEMMA ExtCodeKeeps ==
    ASSUME Gathered, Tracing, NEW addr \in ExternalOps, ExtCode(addr)
    PROVE  Gathered'
<1>1. /\ Basics /\ LevelInv /\ Collected /\ StorageInv /\ verdict' = verdict
      /\ TypeInv /\ PhaseInv /\ FrameInv
  BY DEF Gathered, Tracing, Basics
<1>2. Basics' /\ FramesStay(FALSE)
  BY <1>1, ExtCodeBasics
<1>3. LevelInv' /\ Collected'
  BY <1>1, ExtCodeKeepsLevels, ExtCodeCollects
<1>4. Levels # <<>> /\ storage' = storage
  BY <1>1 DEF ExtCode, Instruction, PhaseInv
<1>5. LastOnly(tracer, tracer') /\ Level(tracer').access = Level(tracer).access
  BY <1>1, <1>4, ExtCodeEffect, AccessOf
<1>6. StorageInv'
  BY <1>1, <1>2, <1>4, <1>5, StorageStays
<1> QED
  BY <1>2, <1>3, <1>6 DEF Gathered

LEMMA NestedCallKeeps ==
    ASSUME Gathered, Tracing, NEW call \in NestedCalls, NestedCall(call)
    PROVE  Gathered'
<1>1. /\ Basics /\ LevelInv /\ Collected /\ StorageInv /\ verdict' = verdict
      /\ TypeInv /\ PhaseInv /\ FrameInv
  BY DEF Gathered, Tracing, Basics
<1>2. Basics' /\ FramesOpen(NestedFrame(call)) /\ NestedFrame(call).storage = storage
  BY <1>1, NestedCallBasics
<1>3. LevelInv' /\ Collected'
  BY <1>1, NestedCallKeepsLevels, NestedCallCollects
<1>4. Levels # <<>> /\ storage' = storage
  BY <1>1 DEF NestedCall, Instruction, PhaseInv
<1>5. LastOnly(tracer, tracer') /\ Level(tracer').access = Level(tracer).access
  BY <1>1, <1>4, NestedCallEffect, AccessOf
<1>6. StorageInv'
  BY <1>1, <1>2, <1>4, <1>5, StorageOpens
<1> QED
  BY <1>2, <1>3, <1>6 DEF Gathered

LEMMA CallFactoryKeeps ==
    ASSUME Gathered, Tracing, CallFactory
    PROVE  Gathered'
<1>1. /\ Basics /\ LevelInv /\ Collected /\ StorageInv /\ verdict' = verdict
      /\ TypeInv /\ PhaseInv /\ FrameInv
  BY DEF Gathered, Tracing, Basics
<1>2. Basics' /\ FramesOpen(FactoryFrame) /\ FactoryFrame.storage = storage
  BY <1>1, CallFactoryBasics
<1>3. LevelInv' /\ Collected'
  BY <1>1, CallFactoryKeepsLevels, CallFactoryCollects
<1>4. Levels # <<>> /\ storage' = storage
  BY <1>1 DEF CallFactory, PhaseInv
<1>5. LastOnly(tracer, tracer') /\ Level(tracer').access = Level(tracer).access
  BY <1>1, <1>4, CallFactoryEffect, AccessOf
<1>6. StorageInv'
  BY <1>1, <1>2, <1>4, <1>5, StorageOpens
<1> QED
  BY <1>2, <1>3, <1>6 DEF Gathered

LEMMA Create2Keeps ==
    ASSUME Gathered, Tracing, Create2
    PROVE  Gathered'
<1>1. /\ Basics /\ LevelInv /\ Collected /\ StorageInv /\ verdict' = verdict
      /\ TypeInv /\ PhaseInv /\ FrameInv
  BY DEF Gathered, Tracing, Basics
<1>2. Basics' /\ FramesOpen(CreatedFrame) /\ CreatedFrame.storage = storage
  BY <1>1, Create2Basics
<1>3. LevelInv' /\ Collected'
  BY <1>1, Create2KeepsLevels, Create2Collects
<1>4. Levels # <<>> /\ storage' = storage
  BY <1>1 DEF Create2, Instruction, PhaseInv
<1>5. LastOnly(tracer, tracer') /\ Level(tracer').access = Level(tracer).access
  BY <1>1, <1>4, Create2Effect, AccessOf
<1>6. StorageInv'
  BY <1>1, <1>2, <1>4, <1>5, StorageOpens
<1> QED
  BY <1>2, <1>3, <1>6 DEF Gathered

LEMMA EndFrameKeeps ==
    ASSUME Gathered, Tracing, NEW how \in {"RETURN", "REVERT", "OUT OF GAS"}, NEW data \in Returns,
           EndFrame(how, data)
    PROVE  Gathered'
<1>1. /\ Basics /\ LevelInv /\ Collected /\ StorageInv /\ verdict' = verdict
      /\ TypeInv /\ PhaseInv /\ FrameInv
  BY DEF Gathered, Tracing, Basics
<1>2. Basics' /\ FramesClose
  BY <1>1, EndFrameBasics
<1>3. LevelInv' /\ Collected'
  BY <1>1, EndFrameKeepsLevels, EndFrameCollects
<1>4. frames # <<>> /\ Levels # <<>> /\ (storage' = storage \/ storage' = Top.storage)
  BY <1>1 DEF EndFrame, PhaseInv
<1>5. LastOnly(tracer, tracer') /\ Level(tracer').access = Level(tracer).access
  BY <1>1, <1>4, EndFrameEffect, AccessOf
<1>6. StorageInv'
  BY <1>1, <1>2, <1>4, <1>5, StorageCloses
<1> QED
  BY <1>2, <1>3, <1>6 DEF Gathered

LEMMA CallEntityKeeps ==
    ASSUME Gathered, Tracing, CallEntity
    PROVE  Gathered'
<1>1. /\ Basics /\ LevelInv /\ Collected /\ StorageInv /\ verdict' = verdict
      /\ TypeInv /\ PhaseInv /\ FrameInv
  BY DEF Gathered, Tracing, Basics
<1>2. Basics'
  BY <1>1, CallEntityBasics
<1>3. LevelInv' /\ Collected'
  BY <1>1, CallEntityKeepsLevels, CallEntityCollects
<1>4. StorageInv'
  BY <1>1, StorageCallEntity
<1> QED
  BY <1>2, <1>3, <1>4 DEF Gathered

LEMMA EntityKeeps ==
    ASSUME Gathered, Tracing, EntityStep
    PROVE  Gathered'
<1>1. CASE \E op \in PlainOps : Plain(op)
  BY <1>1, PlainKeeps
<1>2. CASE \E input \in KeccakInputs : Keccak(input)
  BY <1>2, KeccakKeeps
<1>3. CASE \E op \in {"SLOAD", "SSTORE"}, slot \in Slots : Access(op, slot)
  BY <1>3, AccessKeepsAll
<1>4. CASE \E addr \in ExternalOps : ExtCode(addr)
  BY <1>4, ExtCodeKeeps
<1>5. CASE \E call \in NestedCalls : NestedCall(call)
  BY <1>5, NestedCallKeeps
<1>6. CASE CallFactory
  BY <1>6, CallFactoryKeeps
<1>7. CASE Create2
  BY <1>7, Create2Keeps
<1>8. CASE \E how \in {"RETURN", "REVERT", "OUT OF GAS"}, data \in Returns : EndFrame(how, data)
  BY <1>8, EndFrameKeeps
<1> QED
  BY <1>1, <1>2, <1>3, <1>4, <1>5, <1>6, <1>7, <1>8 DEF EntityStep, Returns

(* What was done is done; only the calls change when the entry point reverts. *)
LEMMA SameLevelInv ==
    ASSUME LevelInv, Levels' = Levels, did' = did
    PROVE  LevelInv'
<1>1. ASSUME NEW i \in DOMAIN Levels', OpcodesKept(Levels[i]), SizesKept(Levels[i]), AccessKept(Levels[i])
      PROVE  OpcodesKept(Levels[i])' /\ SizesKept(Levels[i])' /\ AccessKept(Levels[i])'
  <2>1. OpcodesKept(Levels[i])'
    BY <1>1 DEF OpcodesKept, Noted
  <2>2. SizesKept(Levels[i])'
    BY <1>1 DEF SizesKept, Noted
  <2>3. AccessKept(Levels[i])'
    BY <1>1 DEF AccessKept, Noted, Met
  <2> QED
    BY <2>1, <2>2, <2>3
<1> QED
  BY <1>1 DEF LevelInv

LEMMA RevertsKeeps ==
    ASSUME Gathered, EntryPointReverts
    PROVE  Gathered'
<1>1. Basics /\ LevelInv /\ Collected /\ StorageInv /\ TypeInv
  BY DEF Gathered, Basics
<1>2. Levels' = Levels /\ did' = did /\ storage' = storage /\ frames' = frames
  BY <1>1, RevertsEffect DEF EntryPointReverts, evmVars
<1> QED
  BY <1>1, <1>2, RevertsBasics, RevertsCollects, SameLevelInv, SameStorage DEF Gathered

LEMMA SameGathered ==
    ASSUME Gathered, UNCHANGED traceVars, verdict = "tracing" <=> verdict' = "tracing", Basics'
    PROVE  Gathered'
<1>1. Basics /\ LevelInv /\ Collected /\ StorageInv /\ TypeInv
  BY DEF Gathered, Basics
<1>2. Levels' = Levels /\ did' = did /\ storage' = storage /\ frames' = frames
  BY DEF traceVars, evmVars, Levels
<1>3. Collected'
  BY <1>1, SameCollects
<1> QED
  BY <1>1, <1>2, <1>3, SameLevelInv, SameStorage DEF Gathered

LEMMA SameScanner ==
    ASSUME UNCHANGED traceVars
    PROVE  todo' = todo /\ (ScannerAllows' <=> ScannerAllows) /\ Levels' = Levels
BY DEF traceVars, evmVars, ScannerAllows, NoCallIntoEntryPoint, ValueCheck, CallStack,
   LevelAllowed, OpcodesAllowed, AccessAllowed, ContextAllowed, ContractsExist, LevelsOf,
   SlotAllowed, Forbidden, RequireStake, AssociatedWith, EntitySlots, IsStaked,
   StakeInfoEntities, Levels

LEMMA ValidateKeeps ==
    ASSUME Gathered, ValidateUserOp
    PROVE  Gathered' /\ VerdictInv'
<1>1. Basics
  BY DEF Gathered
<1>2. Basics' /\ verdict = "traced" /\ UNCHANGED traceVars
  BY <1>1, ValidateBasics DEF ValidateUserOp
<1>3. PICK info \in ReturnInfos : verdict' = Outcome(info)
  BY DEF ValidateUserOp
<1>4. verdict' # "tracing"
  BY <1>3 DEF Outcome
<1>5. todo' = todo /\ (ScannerAllows' <=> ScannerAllows) /\ Levels' = Levels
  BY <1>2, SameScanner
<1>6. verdict' = "ok" => todo = <<>> /\ ScannerAllows /\ storageMap' = StorageMapOf(Levels)
  BY <1>3 DEF Outcome, ValidateUserOp, Levels
<1>7. verdict' = "OpcodeValidation" => todo = <<>> /\ ~ScannerAllows
  BY <1>3 DEF Outcome
<1>8. VerdictInv'
  BY <1>5, <1>6, <1>7 DEF VerdictInv
<1> QED
  BY <1>2, <1>4, <1>8, SameGathered

LEMMA SameScanInv ==
    ASSUME ScanInv, UNCHANGED scanVars
    PROVE  ScanInv'
<1>1. Gathered /\ Basics /\ TypeInv /\ UNCHANGED traceVars /\ verdict' = verdict
  BY DEF ScanInv, Gathered, Basics, scanVars
<1>2. UNCHANGED <<evmVars, did>> /\ tracer' = tracer /\ Levels' = Levels
  BY DEF scanVars, traceVars, Levels
<1>3. tracer' \in TracerSet
  BY <1>1, <1>2 DEF TypeInv
<1>4. verdict' \in {"tracing", "traced", "ok", "SimulateValidation", "OpcodeValidation",
                    "InvalidSignature", "NotInTimeRange", "UnsupportedSignatureAggregator"}
  BY <1>1 DEF TypeInv
<1>5. Basics'
  BY <1>1, <1>2, <1>3, <1>4, SameBasics
<1>6. VerdictInv'
  <2>1. todo' = todo /\ (ScannerAllows' <=> ScannerAllows) /\ Levels' = Levels
    BY <1>1, SameScanner
  <2>2. verdict' = verdict /\ storageMap' = storageMap
    BY DEF scanVars
  <2> QED
    BY <2>1, <2>2 DEF ScanInv, VerdictInv
<1> QED
  BY <1>1, <1>5, <1>6, SameGathered DEF ScanInv

LEMMA ScanInvInit ==
    ASSUME ScanInit
    PROVE  ScanInv
<1>1. Basics /\ LevelInv /\ Collected
  BY InitialBasics, InitialCollected
<1>2. storage = {} /\ frames = <<>> /\ Levels = <<>> /\ verdict = "tracing"
  BY DEF ScanInit, TraceInit, EmptyTracer, Levels
<1>3. DOMAIN <<>> = {}
  OBVIOUS
<1>4. StorageInv
  BY <1>2, <1>3 DEF StorageInv, FramesWritten, FirstReadsOld
<1>5. VerdictInv
  BY <1>2 DEF VerdictInv
<1> QED
  BY <1>1, <1>4, <1>5 DEF ScanInv, Gathered

LEMMA ScanInvStep ==
    ASSUME ScanInv, [ScanNext]_scanVars
    PROVE  ScanInv'
<1>1. Gathered
  BY DEF ScanInv
<1>2. CASE verdict = "tracing" /\ (CallEntity \/ EntityStep) /\ UNCHANGED <<verdict, storageMap>>
  <2>1. Tracing /\ VerdictInv'
    BY <1>2 DEF Tracing, VerdictInv
  <2> QED
    BY <1>1, <1>2, <2>1, CallEntityKeeps, EntityKeeps DEF ScanInv
<1>3. CASE EntryPointReverts
  <2>1. VerdictInv'
    BY <1>3 DEF EntryPointReverts, VerdictInv
  <2> QED
    BY <1>1, <1>3, <2>1, RevertsKeeps DEF ScanInv
<1>4. CASE ValidateUserOp
  BY <1>1, <1>4, ValidateKeeps DEF ScanInv
<1>5. CASE UNCHANGED scanVars
  BY <1>5, SameScanInv
<1> QED
  BY <1>2, <1>3, <1>4, <1>5 DEF ScanNext

(* The inductive invariant: at every moment the levels, the hashes, the     *)
(* calls and the storage map of the collector say what the entities did.    *)
THEOREM ScanInvariant == ScanSpec => []ScanInv
<1>1. ScanInit => ScanInv
  BY ScanInvInit
<1>2. ScanInv /\ [ScanNext]_scanVars => ScanInv'
  BY ScanInvStep
<1> QED
  BY <1>1, <1>2, PTL DEF ScanSpec

---------------------------------------------------------------------------
(* What the invariant says of the verdict.                                 *)

LEMMA MinProperties ==
    ASSUME NEW S \in SUBSET Nat, S # {}
    PROVE  Min(S) \in S /\ \A k \in S : Min(S) <= k
<1>1. \E m \in S : \A k \in S : m <= k
  BY SmallestElement
<1> QED
  BY <1>1 DEF Min

(* A fact's first field tells its kind, and its kind its shape. *)
LoneFacts == {"lone GAS", "second CREATE2", "OUT OF GAS", "context", "long context", "called"}

FactShape(x) ==
    /\ x[1] \in LoneFacts => x = <<x[1]>>
    /\ x[1] = "op" => x = <<"op", x[2]>>
    /\ x[1] = "keccak" => x[2] \in KeccakInputs
    /\ x[1] = "no code" => x = <<"no code", x[2]>> /\ x[2] \in Addresses
    /\ x[1] = "small code" => x = <<"small code", x[2]>> /\ x[2] \in Addresses
    /\ x[1] = "access" => \E addr \in Addresses, slot \in Slots : x = <<"access", <<addr, slot>>>>

LEMMA FactShapes ==
    ASSUME NEW x \in FactSet
    PROVE  FactShape(x)
<1>1. CASE \E what \in LoneFacts : x = <<what>>
  <2>1. PICK what \in LoneFacts : x = <<what>>
    BY <1>1
  <2>2. x[1] = what
    BY <2>1
  <2> QED
    BY <2>1, <2>2 DEF FactShape, LoneFacts
<1>2. CASE x \in {"op"} \X OpCodes
  <2>1. x[1] = "op" /\ x = <<"op", x[2]>>
    BY <1>2
  <2> QED
    BY <2>1 DEF FactShape, LoneFacts
<1>3. CASE x \in {"keccak"} \X KeccakInputs
  <2>1. x[1] = "keccak" /\ x[2] \in KeccakInputs
    BY <1>3
  <2> QED
    BY <2>1 DEF FactShape, LoneFacts
<1>4. CASE x \in {"access"} \X (Addresses \X Slots)
  <2>1. x[1] = "access" /\ \E addr \in Addresses, slot \in Slots : x = <<"access", <<addr, slot>>>>
    BY <1>4
  <2> QED
    BY <2>1 DEF FactShape, LoneFacts
<1>5. CASE x \in {"no code"} \X Addresses
  <2>1. PICK tag : tag = "no code"
    OBVIOUS
  <2>2. x \in {tag} \X Addresses
    BY <1>5, <2>1
  <2>3. x[1] = tag /\ x[2] \in Addresses /\ x = <<tag, x[2]>>
    BY <2>2
  <2> QED
    BY <2>1, <2>3 DEF FactShape, LoneFacts
<1>9. CASE x \in {"small code"} \X Addresses
  <2>1. PICK tag : tag = "small code"
    OBVIOUS
  <2>2. x \in {tag} \X Addresses
    BY <1>9, <2>1
  <2>3. x[1] = tag /\ x[2] \in Addresses /\ x = <<tag, x[2]>>
    BY <2>2
  <2> QED
    BY <2>1, <2>3 DEF FactShape, LoneFacts
<1>6. CASE x \in {"call"} \X Addresses \X Addresses \X Methods
  <2>1. x[1] = "call"
    BY <1>6
  <2> QED
    BY <2>1 DEF FactShape, LoneFacts
<1>7. CASE x \in {"failed"} \X Addresses \X Methods
  <2>1. x[1] = "failed"
    BY <1>7
  <2> QED
    BY <2>1 DEF FactShape, LoneFacts
<1>8. x \in {<<"lone GAS">>, <<"second CREATE2">>, <<"OUT OF GAS">>, <<"context">>, <<"long context">>,
             <<"called">>}
         => \E what \in LoneFacts : x = <<what>>
  BY DEF LoneFacts
<1> QED
  BY <1>1, <1>2, <1>3, <1>4, <1>5, <1>6, <1>7, <1>8, <1>9 DEF FactSet

LEMMA TracedLevels ==
    ASSUME TypeInv
    PROVE  /\ DOMAIN Levels = 1..Len(Levels) /\ Len(Levels) \in Nat
           /\ \A i \in DOMAIN Levels : Levels[i] \in LevelSet
BY DEF TypeInv, TracerSet, Levels

(* Every access noted is in some level, and every contract of a level was accessed. *)
LEMMA AccessedContracts ==
    ASSUME Gathered, NEW addr
    PROVE  (\E i \in DOMAIN Levels : addr \in DOMAIN Levels[i].access)
              <=> addr \in {f[2][2][1] : f \in {g \in did : g[2][1] = "access"}}
<1>1. TypeInv /\ PhaseInv /\ LevelInv
  BY DEF Gathered, Basics
<1>2. ASSUME NEW i \in DOMAIN Levels, addr \in DOMAIN Levels[i].access
      PROVE  addr \in {f[2][2][1] : f \in {g \in did : g[2][1] = "access"}}
  <2>1. addr \in Addresses
    BY <1>1, <1>2, TracedLevels, FctsElement DEF LevelSet
  <2>2. AccessKept(Levels[i])
    BY <1>1, <1>2 DEF LevelInv
  <2>3. PICK slot \in Slots : Met(Levels[i], addr, slot)
    BY <1>2, <2>2 DEF AccessKept
  <2>4. PICK f : f = <<Levels[i].topLevelMethodSig, <<"access", <<addr, slot>>>>>>
    OBVIOUS
  <2>5. f \in did
    BY <2>1, <2>2, <2>3, <2>4 DEF AccessKept, Noted
  <2>6. f[2][1] = "access" /\ f[2][2][1] = addr
    BY <2>4
  <2> QED
    BY <2>5, <2>6
<1>3. ASSUME NEW g \in did, g[2][1] = "access", addr = g[2][2][1]
      PROVE  \E i \in DOMAIN Levels : addr \in DOMAIN Levels[i].access
  <2>1. g \in PhaseSigs \X FactSet
    BY <1>1 DEF TypeInv
  <2>2. g = <<g[1], g[2]>> /\ g[2] \in FactSet
    BY <2>1
  <2>3. PICK a \in Addresses, slot \in Slots : g[2] = <<"access", <<a, slot>>>>
    BY <1>3, <2>2, FactShapes DEF FactShape
  <2>4. a = addr
    BY <1>3, <2>3
  <2>5. PICK i \in DOMAIN Levels : g[1] = Levels[i].topLevelMethodSig
    BY <1>1 DEF PhaseInv
  <2>6. Noted(Levels[i], <<"access", <<a, slot>>>>)
    BY <2>2, <2>3, <2>5 DEF Noted
  <2>7. Met(Levels[i], a, slot)
    BY <1>1, <2>6 DEF LevelInv, AccessKept
  <2> QED
    BY <2>4, <2>7 DEF Met
<1> QED
  BY <1>2, <1>3

LEMMA FirstLevel ==
    ASSUME TypeInv, NEW addr, NEW met, met = {i \in DOMAIN Levels : addr \in DOMAIN Levels[i].access},
           met # {}
    PROVE  Min(met) \in DOMAIN Levels /\ FirstMet(Min(met), addr)
<1>1. DOMAIN Levels = 1..Len(Levels) /\ Len(Levels) \in Nat
  BY TracedLevels
<1>2. met \in SUBSET Nat
  BY <1>1
<1>3. PICK m : m = Min(met)
  OBVIOUS
<1>4. m \in met /\ \A k \in met : m <= k
  BY <1>2, <1>3, MinProperties
<1>5. \A j \in 1..(m - 1) : j \in DOMAIN Levels /\ j \notin met
  BY <1>1, <1>4
<1> QED
  BY <1>3, <1>4, <1>5 DEF FirstMet

LEMMA StorageMapSound ==
    ASSUME ScanInv
    PROVE  StorageMapBeforeOp
<1> SUFFICES ASSUME verdict = "ok" PROVE StorageMapBeforeOp
  BY DEF StorageMapBeforeOp
<1>1. TypeInv /\ StorageInv /\ Gathered
  BY DEF ScanInv, Gathered, Basics
<1> DEFINE met(addr) == {i \in DOMAIN Levels : addr \in DOMAIN Levels[i].access}
<1>2. storageMap = [addr \in UNION {DOMAIN Levels[i].access : i \in DOMAIN Levels} |->
                       Levels[Min(met(addr))].access[addr].reads]
  BY DEF ScanInv, VerdictInv, StorageMapOf
<1>3. \A addr : addr \in DOMAIN storageMap <=> \E i \in DOMAIN Levels : addr \in DOMAIN Levels[i].access
  BY <1>2
<1>4. DOMAIN storageMap = {f[2][2][1] : f \in {g \in did : g[2][1] = "access"}}
  BY <1>1, <1>3, AccessedContracts
<1>5. ASSUME NEW addr \in DOMAIN storageMap, NEW slot \in DOMAIN storageMap[addr]
      PROVE  storageMap[addr][slot] = "old"
  <2>1. PICK m : m = Min(met(addr))
    OBVIOUS
  <2>2. storageMap[addr] = Levels[m].access[addr].reads
    BY <1>2, <2>1
  <2>3. met(addr) # {}
    BY <1>3
  <2>4. m \in DOMAIN Levels /\ FirstMet(m, addr)
    BY <1>1, <2>1, <2>3, FirstLevel
  <2> QED
    BY <1>1, <1>5, <2>2, <2>4 DEF StorageInv, FirstReadsOld
<1> QED
  BY <1>4, <1>5 DEF StorageMapBeforeOp

(* The verdicts are the codes of the errors, the counters stay in their     *)
(* bounds, only hashed inputs are kept, and while an entity runs there is a *)
(* level to collect into.                                                   *)
THEOREM ScanTypes == ScanSpec => []ScanTypeOK
<1>1. ASSUME ScanInv PROVE ScanTypeOK
  <2>1. TypeInv /\ PhaseInv
    BY <1>1 DEF ScanInv, Gathered, Basics
  <2>2. tracer.keccak \subseteq KeccakInputs
    BY <2>1 DEF TypeInv, TracerSet
  <2> QED
    BY <2>1, <2>2 DEF ScanTypeOK, TypeInv, PhaseInv, Levels
<1> QED
  BY <1>1, ScanInvariant, PTL

(* Every call the tracer saw entered has its exit, and the last exit is the *)
(* entry point's own revert, which ends no call.                            *)
THEOREM EveryCallIsMatched == ScanSpec => []CallStackBalances
<1>1. ASSUME ScanInv PROVE CallStackBalances
  BY <1>1 DEF ScanInv, Gathered, Collected, CallsInv, ParseInv, AllParsed, Parsed, CallStackBalances,
     TopCall
<1> QED
  BY <1>1, ScanInvariant, PTL

(* The storage map of an accepted operation names every contract whose      *)
(* storage was accessed, with values from before the operation.             *)
THEOREM StorageMapIsComplete == ScanSpec => []StorageMapBeforeOp
<1>1. ASSUME ScanInv PROVE StorageMapBeforeOp
  BY <1>1, StorageMapSound
<1> QED
  BY <1>1, ScanInvariant, PTL

---------------------------------------------------------------------------
(* A level and the facts of its title.                                     *)

Sig(title) == CallsFromEntryPointMethodSig(title)

LEMMA Sigs ==
    /\ \A title \in Titles : Sig(title) \in PhaseSigs
    /\ \A sig \in PhaseSigs : \E title \in Titles : Sig(title) = sig
    /\ Sig("paymaster") = PaymasterSig
    /\ \A title \in Titles : Sig(title) = "createSender" => title = "factory"
    /\ \A title \in Titles : Sig(title) = PaymasterSig => title = "paymaster"
    /\ \A title \in Titles : title \in {"factory", "account", "paymaster"}
<1>1. /\ Sig("factory") = "createSender" /\ Sig("account") = "validateUserOp"
      /\ Sig("paymaster") = "validatePaymasterUserOp"
  BY DEF Sig, CallsFromEntryPointMethodSig
<1> HIDE DEF Sig
<1> QED
  BY <1>1 DEF Titles, PhaseSigs, PaymasterSig

LEMMA FactsOf ==
    ASSUME TypeInv, NEW title
    PROVE  /\ \A fact : fact \in Facts(title) <=> <<Sig(title), fact>> \in did
           /\ \A fact \in Facts(title) : fact \in FactSet /\ FactShape(fact)
<1>1. did \in SUBSET (PhaseSigs \X FactSet)
  BY DEF TypeInv
<1>2. ASSUME NEW f \in did PROVE f = <<f[1], f[2]>> /\ f[2] \in FactSet
  BY <1>1
<1>3. ASSUME NEW fact, fact \in Facts(title) PROVE <<Sig(title), fact>> \in did /\ fact \in FactSet
  <2>1. PICK f \in did : f[1] = Sig(title) /\ fact = f[2]
    BY <1>3 DEF Facts, Sig
  <2> QED
    BY <1>2, <2>1
<1>4. ASSUME NEW fact, <<Sig(title), fact>> \in did PROVE fact \in Facts(title)
  <2>1. PICK f \in did : f = <<Sig(title), fact>>
    BY <1>4
  <2>2. f[1] = Sig(title) /\ f[2] = fact
    BY <2>1
  <2> QED
    BY <2>2 DEF Facts, Sig
<1> QED
  BY <1>3, <1>4, FactShapes

OfTitle(title, i) ==
    /\ i \in DOMAIN Levels /\ title \in Titles \cap StakeInfoEntities
    /\ Levels[i] \in LevelSet /\ Min(LevelsOf(title)) = i
    /\ \A fact : fact \in Facts(title) <=> Noted(Levels[i], fact)

LEMMA LevelOfTitle ==
    ASSUME TypeInv, PhaseInv, NEW title \in Titles, NEW i \in LevelsOf(title)
    PROVE  OfTitle(title, i)
<1>1. i \in DOMAIN Levels /\ Levels[i].topLevelMethodSig = Sig(title)
  BY DEF LevelsOf, Sig, Levels
<1>2. \A j \in LevelsOf(title) : j = i
  BY <1>1, SigsDiffer DEF LevelsOf, Sig, Levels
<1>3. DOMAIN Levels = 1..Len(Levels) /\ Len(Levels) \in Nat /\ Levels[i] \in LevelSet
  BY <1>1, TracedLevels
<1>4. Min(LevelsOf(title)) = i
  <2>1. LevelsOf(title) \in SUBSET Nat /\ LevelsOf(title) # {}
    BY <1>3 DEF LevelsOf, Levels
  <2> QED
    BY <1>2, <2>1, MinProperties
<1>5. title \in StakeInfoEntities
  <2>1. OncePerEntity(userOp, Phases(userOp))
    BY PhasesProperties DEF TypeInv
  <2>2. Sig(title) = Phases(userOp)[i] /\ i \in 1..Len(Phases(userOp))
    <3>0. Len(Phases(userOp)) \in Nat /\ Len(Levels) <= Len(Phases(userOp))
      BY <2>1 DEF PhaseInv, OncePerEntity
    <3>1. PICK n \in Nat, m \in Nat : n = Len(Levels) /\ m = Len(Phases(userOp)) /\ n <= m
      BY <1>3, <3>0
    <3>2. i \in 1..m
      BY <1>1, <1>3, <3>1
    <3> QED
      BY <1>1, <3>1, <3>2 DEF PhaseInv
  <2>3. /\ Sig(title) = "createSender" => userOp.initCode
        /\ Sig(title) = "validatePaymasterUserOp" => userOp.paymaster
    BY <2>1, <2>2 DEF OncePerEntity
  <2>4. /\ Sig("factory") = "createSender" /\ Sig("paymaster") = "validatePaymasterUserOp"
    BY DEF Sig, CallsFromEntryPointMethodSig
  <2> HIDE DEF Sig
  <2>5. CASE title = "factory"
    BY <2>3, <2>4, <2>5 DEF StakeInfoEntities
  <2>6. CASE title = "account"
    BY <2>6 DEF StakeInfoEntities
  <2>7. CASE title = "paymaster"
    BY <2>3, <2>4, <2>7 DEF StakeInfoEntities
  <2> QED
    BY <2>5, <2>6, <2>7 DEF Titles
<1>6. \A fact : fact \in Facts(title) <=> Noted(Levels[i], fact)
  BY <1>1, FactsOf DEF Noted
<1> QED
  BY <1>1, <1>3, <1>4, <1>5, <1>6 DEF OfTitle

LEMMA TitleOfFact ==
    ASSUME TypeInv, PhaseInv, NEW f \in did
    PROVE  \E title \in Titles : f[2] \in Facts(title) /\ Sig(title) = f[1]
<1>1. f \in PhaseSigs \X FactSet
  BY DEF TypeInv
<1>2. f = <<f[1], f[2]>> /\ f[1] \in PhaseSigs
  BY <1>1
<1> QED
  BY <1>2, Sigs, FactsOf

LEMMA FactsHaveLevel ==
    ASSUME TypeInv, PhaseInv, NEW title \in Titles, NEW fact \in Facts(title)
    PROVE  \E i \in LevelsOf(title) : OfTitle(title, i)
<1>1. <<Sig(title), fact>> \in did
  BY FactsOf
<1>2. PICK f \in did : f = <<Sig(title), fact>>
  BY <1>1
<1>3. f[1] = Sig(title)
  BY <1>2
<1>4. PICK i \in DOMAIN Levels : Levels[i].topLevelMethodSig = Sig(title)
  BY <1>3 DEF PhaseInv
<1>5. i \in LevelsOf(title)
  BY <1>4 DEF LevelsOf, Sig, Levels
<1> QED
  BY <1>5, LevelOfTitle

---------------------------------------------------------------------------
(* The rules about storage.                                                *)

LEMMA SlotsAssociated ==
    ASSUME TypeInv, KeccakInv, NEW title \in StakeInfoEntities, NEW slot \in Slots
    PROVE  AssociatedWith(slot, EntityAddr(title)) <=> SlotOf(slot, EntityAddr(title))
<1>1. PICK addr, input : addr = EntityAddr(title) /\ input = slot.input
  OBVIOUS
<1>7. PICK offset \in Int : offset = slot.offset
  BY SlotAssumption
<1>2. input \in tracer.keccak <=> input.len \in 21..511 /\ Somewhere(<<"keccak", input>>)
  <2>1. CASE input \in KeccakInputs
    BY <2>1 DEF KeccakInv
  <2>2. CASE input \notin KeccakInputs
    <3>1. input \notin tracer.keccak
      BY <2>2 DEF TypeInv, TracerSet
    <3>2. ASSUME NEW f \in did, f[2] = <<"keccak", input>> PROVE FALSE
      <4>1. f \in PhaseSigs \X FactSet
        BY DEF TypeInv
      <4>2. f[2] \in FactSet
        BY <4>1
      <4>3. f[2][1] = "keccak" /\ f[2][2] = input
        BY <3>2
      <4> QED
        BY <2>2, <4>2, <4>3, FactShapes DEF FactShape
    <3> QED
      BY <3>1, <3>2 DEF Somewhere
  <2> QED
    BY <2>1, <2>2
<1>3. input \in EntitySlots(addr) <=> input \in tracer.keccak /\ input.prefix = addr
  BY <1>1 DEF EntitySlots
<1>4. offset >= 0 /\ offset < 128 <=> offset \in 0..127
  OBVIOUS
<1>5. AssociatedWith(slot, addr) <=>
         \/ offset = Padded /\ input.prefix = addr
         \/ input \in EntitySlots(addr) /\ (offset >= 0 /\ offset < 128)
  BY <1>1, <1>7 DEF AssociatedWith
<1>6. SlotOf(slot, addr) <=>
         /\ input.prefix = addr
         /\ \/ offset = Padded
            \/ offset \in 0..127 /\ input.len \in 21..511 /\ Somewhere(<<"keccak", input>>)
  BY <1>1, <1>7 DEF SlotOf, Somewhere
<1> QED
  BY <1>1, <1>2, <1>3, <1>4, <1>5, <1>6

LEMMA AccessBreaches ==
    ASSUME TypeInv, KeccakInv, NEW title \in StakeInfoEntities, NEW addr, NEW slot \in Slots
    PROVE  AccessBreach(title, addr, slot) <=>
              addr \notin {Sender, EntryPoint} /\ ~SlotAllowed(title, addr, slot)
<1>1. AssociatedWith(slot, EntityAddr(title)) <=> SlotOf(slot, EntityAddr(title))
  BY SlotsAssociated
<1>2. AssociatedWith(slot, Sender) <=> SlotOf(slot, Sender)
  <2>1. "account" \in StakeInfoEntities /\ EntityAddr("account") = Sender
    BY DEF StakeInfoEntities, EntityAddr
  <2> QED
    BY <2>1, SlotsAssociated
<1>3. IsStaked(title) <=> EntityStaked(title)
  BY DEF IsStaked, EntityStaked
<1>4. userOp.initCode => (IsStaked("factory") <=> EntityStaked("factory"))
  BY DEF IsStaked, EntityStaked, StakeInfoEntities
<1> QED
  BY <1>1, <1>2, <1>3, <1>4 DEF AccessBreach, SlotAllowed, Forbidden, RequireStake

LEMMA AccessRules ==
    ASSUME TypeInv, LevelInv, KeccakInv, NEW title, NEW i, OfTitle(title, i)
    PROVE  AccessAllowed(title, Levels[i]) <=>
              \A fact \in Facts(title) :
                  fact[1] = "access" => ~AccessBreach(title, fact[2][1], fact[2][2])
<1>1. /\ i \in DOMAIN Levels /\ title \in StakeInfoEntities /\ Levels[i] \in LevelSet
      /\ AccessKept(Levels[i])
  BY DEF OfTitle, LevelInv
<1>2. /\ \A addr \in DOMAIN Levels[i].access : addr \in Addresses
      /\ \A addr \in DOMAIN Levels[i].access :
            DOMAIN Levels[i].access[addr].writes \cup DOMAIN Levels[i].access[addr].reads \subseteq Slots
  <2>1. Levels[i].access \in Fcts(Addresses, AccessSet)
    BY <1>1 DEF LevelSet
  <2>2. \A addr \in DOMAIN Levels[i].access : Levels[i].access[addr] \in AccessSet /\ addr \in Addresses
    BY <2>1, FctsElement
  <2>3. ASSUME NEW addr \in DOMAIN Levels[i].access
        PROVE  DOMAIN Levels[i].access[addr].writes \cup DOMAIN Levels[i].access[addr].reads \subseteq Slots
    <3>1. /\ Levels[i].access[addr].reads \in Fcts(Slots, Values)
          /\ Levels[i].access[addr].writes \in Fcts(Slots, Nat \ {0})
      BY <2>2, <2>3 DEF AccessSet
    <3> QED
      BY <3>1, FctsElement
  <2> QED
    BY <2>2, <2>3
<1>3. AccessAllowed(title, Levels[i]) <=>
         \A addr \in Addresses, slot \in Slots :
             Met(Levels[i], addr, slot) => ~AccessBreach(title, addr, slot)
  <2>1. \A addr \in Addresses, slot \in Slots :
           AccessBreach(title, addr, slot) <=>
              addr \notin {Sender, EntryPoint} /\ ~SlotAllowed(title, addr, slot)
    BY <1>1, AccessBreaches
  <2> QED
    BY <1>2, <2>1 DEF AccessAllowed, Met
<1>4. \A addr \in Addresses, slot \in Slots :
         Met(Levels[i], addr, slot) <=> <<"access", <<addr, slot>>>> \in Facts(title)
  BY <1>1 DEF AccessKept, OfTitle
<1>5. ASSUME NEW fact \in Facts(title), fact[1] = "access"
      PROVE  \E addr \in Addresses, slot \in Slots :
                fact = <<"access", <<addr, slot>>>> /\ fact[2][1] = addr /\ fact[2][2] = slot
  <2>1. PICK addr \in Addresses, slot \in Slots : fact = <<"access", <<addr, slot>>>>
    BY <1>5, FactsOf DEF FactShape
  <2>2. fact[2][1] = addr /\ fact[2][2] = slot
    BY <2>1
  <2> QED
    BY <2>1, <2>2
<1>6. ASSUME NEW addr \in Addresses, NEW slot \in Slots, <<"access", <<addr, slot>>>> \in Facts(title)
      PROVE  \E fact \in Facts(title) : fact[1] = "access" /\ fact[2][1] = addr /\ fact[2][2] = slot
  <2>1. PICK fact \in Facts(title) : fact = <<"access", <<addr, slot>>>>
    BY <1>6
  <2>2. fact[1] = "access" /\ fact[2][1] = addr /\ fact[2][2] = slot
    BY <2>1
  <2> QED
    BY <2>2
<1>7. ASSUME NEW fact \in Facts(title), fact[1] = "access", AccessAllowed(title, Levels[i])
      PROVE  ~AccessBreach(title, fact[2][1], fact[2][2])
  <2>1. PICK addr \in Addresses, slot \in Slots :
           fact = <<"access", <<addr, slot>>>> /\ fact[2][1] = addr /\ fact[2][2] = slot
    BY <1>5, <1>7
  <2> QED
    BY <1>3, <1>4, <1>7, <2>1
<1>8. ASSUME NEW addr \in Addresses, NEW slot \in Slots, Met(Levels[i], addr, slot),
             AccessBreach(title, addr, slot)
      PROVE  \E fact \in Facts(title) :
                fact[1] = "access" /\ AccessBreach(title, fact[2][1], fact[2][2])
  <2>1. PICK fact \in Facts(title) : fact[1] = "access" /\ fact[2][1] = addr /\ fact[2][2] = slot
    BY <1>4, <1>6, <1>8
  <2> QED
    BY <1>8, <2>1
<1> QED
  BY <1>3, <1>7, <1>8

---------------------------------------------------------------------------
(* The other rules about a level.                                          *)

OpcodeBreach(title, fact) ==
    \/ fact[1] \in {"lone GAS", "second CREATE2", "OUT OF GAS"}
    \/ fact[1] = "op" /\ fact[2] \in {"TIMESTAMP", "BALANCE", "CREATE"}
    \/ fact = <<"op", "CREATE2">> /\ title # "factory"
CodeBreach(fact) == fact[1] = "no code" /\ fact[2] # Sender
StorageBreach(title, fact) ==
    fact[1] = "access" /\ AccessBreach(title, fact[2][1], fact[2][2])
ContextBreach(fact) == fact[1] \in {"context", "long context"} /\ ~EntityStaked("paymaster")

LEMMA BreachKinds ==
    ASSUME NEW title, NEW fact
    PROVE  Breach(title, fact) <=>
              \/ OpcodeBreach(title, fact) \/ CodeBreach(fact) \/ StorageBreach(title, fact)
              \/ BadCall(fact) \/ ContextBreach(fact)
<1>1. PICK access : access = AccessBreach(title, fact[2][1], fact[2][2])
  OBVIOUS
<1> QED
  BY DEF Breach, OpcodeBreach, CodeBreach, StorageBreach, BadCall, ContextBreach

(* The opcode facts that break a rule, one by one. *)
BrokenBy(title, level) ==
    \/ Noted(level, <<"lone GAS">>) \/ Noted(level, <<"second CREATE2">>)
    \/ Noted(level, <<"OUT OF GAS">>)
    \/ \E op \in {"TIMESTAMP", "BALANCE", "CREATE"} : Noted(level, <<"op", op>>)
    \/ Noted(level, <<"op", "CREATE2">>) /\ title # "factory"

LEMMA OpcodeBreaches ==
    ASSUME TypeInv, NEW title, NEW i, OfTitle(title, i)
    PROVE  (\E fact \in Facts(title) : OpcodeBreach(title, fact)) <=> BrokenBy(title, Levels[i])
<1>1. \A fact : fact \in Facts(title) <=> Noted(Levels[i], fact)
  BY DEF OfTitle
<1>2. ASSUME NEW fact \in Facts(title), OpcodeBreach(title, fact)
      PROVE  BrokenBy(title, Levels[i])
  <2>0. FactShape(fact) /\ Noted(Levels[i], fact)
    BY <1>1, FactsOf
  <2>1. CASE fact[1] \in {"lone GAS", "second CREATE2", "OUT OF GAS"}
    <3>1. fact = <<fact[1]>>
      BY <2>0, <2>1 DEF FactShape, LoneFacts
    <3> QED
      BY <2>0, <2>1, <3>1 DEF BrokenBy
  <2>2. CASE fact[1] = "op" /\ fact[2] \in {"TIMESTAMP", "BALANCE", "CREATE"}
    <3>1. fact = <<"op", fact[2]>>
      BY <2>0, <2>2 DEF FactShape
    <3> QED
      BY <2>0, <2>2, <3>1 DEF BrokenBy
  <2>3. CASE fact = <<"op", "CREATE2">> /\ title # "factory"
    BY <2>0, <2>3 DEF BrokenBy
  <2> QED
    BY <1>2, <2>1, <2>2, <2>3 DEF OpcodeBreach
<1>3. ASSUME BrokenBy(title, Levels[i])
      PROVE  \E fact \in Facts(title) : OpcodeBreach(title, fact)
  <2>1. ASSUME NEW what \in {"lone GAS", "second CREATE2", "OUT OF GAS"}, Noted(Levels[i], <<what>>)
        PROVE  \E fact \in Facts(title) : OpcodeBreach(title, fact)
    <3>1. PICK fact \in Facts(title) : fact = <<what>>
      BY <1>1, <2>1
    <3>2. fact[1] = what
      BY <3>1
    <3> QED
      BY <2>1, <3>2 DEF OpcodeBreach
  <2>2. ASSUME NEW op \in {"TIMESTAMP", "BALANCE", "CREATE"}, Noted(Levels[i], <<"op", op>>)
        PROVE  \E fact \in Facts(title) : OpcodeBreach(title, fact)
    <3>1. PICK fact \in Facts(title) : fact = <<"op", op>>
      BY <1>1, <2>2
    <3>2. fact[1] = "op" /\ fact[2] = op
      BY <3>1
    <3> QED
      BY <2>2, <3>2 DEF OpcodeBreach
  <2>3. ASSUME Noted(Levels[i], <<"op", "CREATE2">>), title # "factory"
        PROVE  \E fact \in Facts(title) : OpcodeBreach(title, fact)
    BY <1>1, <2>3 DEF OpcodeBreach
  <2>4. CASE \/ Noted(Levels[i], <<"lone GAS">>) \/ Noted(Levels[i], <<"second CREATE2">>)
             \/ Noted(Levels[i], <<"OUT OF GAS">>)
    BY <2>1, <2>4
  <2> QED
    BY <1>3, <2>2, <2>3, <2>4 DEF BrokenBy
<1> QED
  BY <1>2, <1>3

LEMMA OpcodeRules ==
    ASSUME TypeInv, LevelInv, NEW title, NEW i, OfTitle(title, i)
    PROVE  OpcodesAllowed(title, Levels[i]) <=>
              \A fact \in Facts(title) : ~OpcodeBreach(title, fact)
<1>1. PICK level : level = Levels[i]
  OBVIOUS
<1>2. OpcodesKept(level) /\ level \in LevelSet
  BY <1>1 DEF OfTitle, LevelInv
<1>3. "CREATE2" \in DOMAIN level.opcodes => level.opcodes["CREATE2"] \in Nat
  BY <1>2, FctsElement DEF LevelSet
<1>4. "CREATE2" \in DOMAIN level.opcodes =>
         (level.opcodes["CREATE2"] <= 1 <=> ~(level.opcodes["CREATE2"] > 1))
  BY <1>3
<1>5. PICK codes : codes = DOMAIN level.opcodes
  OBVIOUS
<1>6. PICK often \in BOOLEAN : often <=> "CREATE2" \in codes /\ level.opcodes["CREATE2"] > 1
  OBVIOUS
<1>7. OpcodesAllowed(title, level) <=>
         /\ ~level.oog
         /\ \A op \in {"TIMESTAMP", "GAS", "BALANCE", "CREATE"} : op \notin codes
         /\ "CREATE2" \in codes => title = "factory" /\ ~often
  <2>1. codes \cap BannedOpCodes = {} <=>
           \A op \in {"TIMESTAMP", "GAS", "BALANCE", "CREATE"} : op \notin codes
    BY DEF BannedOpCodes
  <2> QED
    BY <1>4, <1>5, <1>6, <2>1 DEF OpcodesAllowed
<1>8. BrokenBy(title, level) <=>
         \/ "GAS" \in codes \/ often \/ level.oog
         \/ \E op \in {"TIMESTAMP", "BALANCE", "CREATE"} : op \in codes
         \/ "CREATE2" \in codes /\ title # "factory"
  BY <1>2, <1>5, <1>6 DEF BrokenBy, OpcodesKept
<1>9. often => "CREATE2" \in codes
  BY <1>6
<1>10. OpcodesAllowed(title, level) <=> ~BrokenBy(title, level)
  BY <1>7, <1>8, <1>9
<1> QED
  BY <1>1, <1>10, OpcodeBreaches

(* A contract of one or two bytes is refused, too. *)
LEMMA CodeRules ==
    ASSUME TypeInv, LevelInv, NEW title, NEW i, OfTitle(title, i)
    PROVE  ContractsExist(Levels[i]) <=>
              \A fact \in Facts(title) : ~CodeBreach(fact) /\ fact[1] # "small code"
<1>1. PICK level : level = Levels[i]
  OBVIOUS
<1>2. SizesKept(level) /\ level \in LevelSet /\ \A fact : fact \in Facts(title) <=> Noted(level, fact)
  BY <1>1 DEF OfTitle, LevelInv
<1>3. \A addr \in DOMAIN level.contractSize : addr \in Addresses
  <2>1. level.contractSize \in Fcts(Addresses, Sizes)
    BY <1>2 DEF LevelSet
  <2> QED
    BY <2>1, FctsElement
<1>4. \A addr : SizeOf(addr) > 2 <=> addr \in Existing \ {Stub}
  BY DEF SizeOf
<1>5. ContractsExist(level) <=>
         \A addr \in DOMAIN level.contractSize : addr # Sender => addr \in Existing \ {Stub}
  <2>1. \A addr \in DOMAIN level.contractSize :
           addr # Sender => level.contractSize[addr] = SizeOf(addr)
    BY <1>2, <1>3 DEF SizesKept
  <2> QED
    BY <1>4, <2>1 DEF ContractsExist
<1>6. ContractsExist(level) <=>
         \A addr \in Addresses \ {Sender} :
            ~Noted(level, <<"no code", addr>>) /\ ~Noted(level, <<"small code", addr>>)
  <2>1. \A addr \in Addresses \ {Sender} :
           Noted(level, <<"no code", addr>>) \/ Noted(level, <<"small code", addr>>) <=>
              addr \in DOMAIN level.contractSize /\ addr \notin Existing \ {Stub}
    BY <1>2 DEF SizesKept, Existing
  <2> QED
    BY <1>3, <1>5, <2>1
<1>7. ~Noted(level, <<"small code", Sender>>)
  BY <1>2 DEF SizesKept
<1>8. ASSUME NEW fact \in Facts(title), CodeBreach(fact) \/ fact[1] = "small code"
      PROVE  \E addr \in Addresses \ {Sender} :
                Noted(level, <<"no code", addr>>) \/ Noted(level, <<"small code", addr>>)
  <2>1. CASE CodeBreach(fact)
    <3>1. fact = <<"no code", fact[2]>> /\ fact[2] \in Addresses /\ fact[2] # Sender
      BY <2>1, FactsOf DEF FactShape, CodeBreach
    <3> QED
      BY <1>2, <3>1
  <2>2. CASE fact[1] = "small code"
    <3>1. fact = <<"small code", fact[2]>> /\ fact[2] \in Addresses
      BY <2>2, FactsOf DEF FactShape
    <3> QED
      BY <1>2, <1>7, <3>1
  <2> QED
    BY <1>8, <2>1, <2>2
<1>9. ASSUME NEW addr \in Addresses \ {Sender}, NEW kind \in {"no code", "small code"},
             Noted(level, <<kind, addr>>)
      PROVE  \E fact \in Facts(title) : CodeBreach(fact) \/ fact[1] = "small code"
  <2>1. PICK fact \in Facts(title) : fact = <<kind, addr>>
    BY <1>2, <1>9
  <2>2. fact[1] = kind /\ fact[2] = addr
    BY <2>1
  <2> QED
    BY <2>2 DEF CodeBreach
<1>10. (\E fact \in Facts(title) : CodeBreach(fact) \/ fact[1] = "small code") <=>
         \E addr \in Addresses \ {Sender} :
            Noted(level, <<"no code", addr>>) \/ Noted(level, <<"small code", addr>>)
  BY <1>8, <1>9
<1> QED
  BY <1>1, <1>6, <1>10

LEMMA StorageRules ==
    ASSUME TypeInv, LevelInv, KeccakInv, NEW title, NEW i, OfTitle(title, i)
    PROVE  AccessAllowed(title, Levels[i]) <=>
              \A fact \in Facts(title) : ~StorageBreach(title, fact)
BY AccessRules DEF StorageBreach

---------------------------------------------------------------------------
(* The rules about calls and the context.                                  *)

LEMMA CallRules ==
    ASSUME Gathered, verdict # "tracing"
    PROVE  /\ CallStack = ToSet(Parsed.out) /\ ValueCheck
           /\ NoCallIntoEntryPoint <=> ~BadCalls
<1>1. AllParsed /\ CallInv
  BY DEF Gathered, Collected, CallsInv, ParseInv
<1>2. CallStack = ToSet(Parsed.out)
  BY DEF CallStack, Parsed
<1>3. ToSet(Parsed.stack) = {}
  <2>1. ToSet(<<>>) = {}
    BY DEF ToSet
  <2> QED
    BY <1>1, <2>1 DEF AllParsed
<1>4. ValueCheck
  BY <1>1, <1>2 DEF AllParsed, ValueCheck
<1>5. NoCallIntoEntryPoint <=> ~BadCalls
  BY <1>1, <1>2, <1>3 DEF NoCallIntoEntryPoint, CallInv, BadEntry
<1> QED
  BY <1>2, <1>4, <1>5

LEMMA FirstOfPaymaster ==
    ASSUME Gathered, NEW found,
           found = {i \in DOMAIN Parsed.out :
                       Parsed.out[i].method = PaymasterSig /\ Parsed.out[i].to = Paymaster}
    PROVE  found # {} => Min(found) \in found /\ Parsed.out[Min(found)] \in OfPaymaster
<1>1. Parsed.out \in Seq(EntrySet)
  BY DEF Gathered, Collected, CallsInv, ParseInv, ParsedSet
<1>2. DOMAIN Parsed.out = 1..Len(Parsed.out) /\ Len(Parsed.out) \in Nat
  BY <1>1
<1>3. found \in SUBSET Nat
  BY <1>2
<1>4. ASSUME found # {} PROVE Min(found) \in found
  BY <1>3, <1>4, MinProperties
<1>5. \A m \in found : Parsed.out[m] \in OfPaymaster
  BY DEF OfPaymaster, AsksPaymaster, ToSet
<1> QED
  BY <1>4, <1>5

(* A context is refused only if one was returned, to the entry point or to  *)
(* another entity that asked for it.                                        *)
LEMMA ContextRefused ==
    ASSUME Gathered, ~ContextAllowed
    PROVE  (PaymasterAsked \/ ContextNoted) /\ ~IsStaked("paymaster")
<1> DEFINE found == {i \in DOMAIN Parsed.out :
                       Parsed.out[i].method = PaymasterSig /\ Parsed.out[i].to = Paymaster}
<1>1. found # {} /\ Parsed.out[Min(found)].data = "context" /\ ~IsStaked("paymaster")
  BY DEF ContextAllowed, Parsed, PaymasterSig
<1>2. Parsed.out[Min(found)] \in OfPaymaster
  BY <1>1, FirstOfPaymaster
<1>3. ~PaymasterAsked => ContextNoted
  BY <1>1, <1>2 DEF Gathered, Collected, CallsInv, OnlyContextInv
<1> QED
  BY <1>1, <1>3

(* A context that was returned to the entry point is found, unless somebody *)
(* else asked for one.                                                      *)
LEMMA ContextFound ==
    ASSUME Gathered, ~PaymasterAsked, ContextNoted, ContextAllowed
    PROVE  IsStaked("paymaster")
<1> DEFINE found == {i \in DOMAIN Parsed.out :
                       Parsed.out[i].method = PaymasterSig /\ Parsed.out[i].to = Paymaster}
<1>1. OnlyContextInv
  BY DEF Gathered, Collected, CallsInv
<1>2. found # {}
  <2>1. PICK e : e \in OfPaymaster
    BY <1>1 DEF OnlyContextInv
  <2>2. PICK i \in DOMAIN Parsed.out : Parsed.out[i] = e
    BY <2>1 DEF OfPaymaster, ToSet
  <2>3. Parsed.out[i].method = PaymasterSig /\ Parsed.out[i].to = Paymaster
    BY <2>1, <2>2 DEF OfPaymaster, AsksPaymaster
  <2> QED
    BY <2>2, <2>3
<1>3. Parsed.out[Min(found)] \in OfPaymaster
  BY <1>2, FirstOfPaymaster
<1>4. Parsed.out[Min(found)].data = "context"
  BY <1>1, <1>3 DEF OnlyContextInv
<1>5. found # {} /\ Parsed.out[Min(found)].data = "context" => IsStaked("paymaster")
  BY DEF ContextAllowed, Parsed, PaymasterSig
<1> QED
  BY <1>2, <1>4, <1>5

---------------------------------------------------------------------------
(* The verdict.                                                            *)

RulesKept(title) ==
    \A fact \in Facts(title) :
        ~OpcodeBreach(title, fact) /\ ~CodeBreach(fact) /\ ~StorageBreach(title, fact)

NoSmallCode(title) == \A fact \in Facts(title) : fact[1] # "small code"

LEMMA LevelRules ==
    ASSUME Gathered, NEW title, NEW i, OfTitle(title, i)
    PROVE  LevelAllowed(title, Levels[i]) <=>
              /\ RulesKept(title) /\ NoSmallCode(title)
              /\ title = "paymaster" => ContextAllowed
<1>1. TypeInv /\ LevelInv /\ KeccakInv
  BY DEF Gathered, Basics, Collected
<1>2. OpcodesAllowed(title, Levels[i]) <=> \A fact \in Facts(title) : ~OpcodeBreach(title, fact)
  BY <1>1, OpcodeRules
<1>3. ContractsExist(Levels[i]) <=>
         NoSmallCode(title) /\ \A fact \in Facts(title) : ~CodeBreach(fact)
  BY <1>1, CodeRules DEF NoSmallCode
<1>4. AccessAllowed(title, Levels[i]) <=> \A fact \in Facts(title) : ~StorageBreach(title, fact)
  BY <1>1, StorageRules
<1>5. RulesKept(title) <=>
         /\ \A fact \in Facts(title) : ~OpcodeBreach(title, fact)
         /\ \A fact \in Facts(title) : ~CodeBreach(fact)
         /\ \A fact \in Facts(title) : ~StorageBreach(title, fact)
  BY DEF RulesKept
<1> QED
  BY <1>2, <1>3, <1>4, <1>5 DEF LevelAllowed

(* What the scanner looks at, in terms of what was done. *)
LEMMA ScannerRules ==
    ASSUME Gathered, verdict # "tracing"
    PROVE  ScannerAllows <=>
              /\ ~BadCalls
              /\ \A title \in Titles : LevelsOf(title) # {} =>
                    /\ RulesKept(title) /\ NoSmallCode(title)
                    /\ title = "paymaster" => ContextAllowed
<1>1. TypeInv /\ PhaseInv
  BY DEF Gathered, Basics
<1>2. ASSUME NEW title \in Titles, NEW i \in LevelsOf(title)
      PROVE  /\ i = Min(LevelsOf(title))
             /\ LevelAllowed(title, tracer.callsFromEntryPoint[i]) <=>
                   /\ RulesKept(title) /\ NoSmallCode(title)
                   /\ title = "paymaster" => ContextAllowed
  <2>1. OfTitle(title, i)
    BY <1>1, LevelOfTitle
  <2>2. tracer.callsFromEntryPoint[i] = Levels[i]
    BY DEF Levels
  <2> QED
    BY <2>1, <2>2, LevelRules DEF OfTitle
<1>3. ValueCheck /\ (NoCallIntoEntryPoint <=> ~BadCalls)
  BY CallRules
<1> QED
  BY <1>2, <1>3 DEF ScannerAllows

(* A breach is seen if it is not a context, or one that the scanner finds. *)
SeenContext(fact) == fact[1] = "context" /\ ~PaymasterAsked /\ ~EntityStaked("paymaster")

LEMMA SeenBreaches ==
    ASSUME NEW title, NEW fact, FactShape(fact)
    PROVE  (Breach(title, fact) /\ ~Unseen(fact)) <=>
              \/ BadCall(fact) \/ SeenContext(fact)
              \/ OpcodeBreach(title, fact) \/ CodeBreach(fact) \/ StorageBreach(title, fact)
<1> DEFINE kind == fact[1]
           others == \/ BadCall(fact) \/ OpcodeBreach(title, fact) \/ CodeBreach(fact)
                     \/ StorageBreach(title, fact)
<1>1. others => kind \notin {"context", "long context"}
  <2>1. BadCall(fact) => kind \in {"call", "failed"}
    <3>1. <<"failed", EntryPoint, "0x">>[1] = "failed"
      OBVIOUS
    <3> QED
      BY <3>1 DEF BadCall, kind
  <2>2. OpcodeBreach(title, fact) => kind \in {"lone GAS", "second CREATE2", "OUT OF GAS", "op"}
    <3>1. <<"op", "CREATE2">>[1] = "op"
      OBVIOUS
    <3> QED
      BY <3>1 DEF OpcodeBreach
  <2>3. CodeBreach(fact) => kind = "no code"
    BY DEF CodeBreach
  <2>4. StorageBreach(title, fact) => kind = "access"
    BY DEF StorageBreach
  <2> HIDE DEF kind
  <2>5. others => kind \in {"call", "failed", "lone GAS", "second CREATE2", "OUT OF GAS", "op",
                            "no code", "access"}
    BY <2>1, <2>2, <2>3, <2>4
  <2> QED
    BY <2>5
<1>2. Breach(title, fact) <=> others \/ ContextBreach(fact)
  BY BreachKinds
<1>3. Unseen(fact) <=> kind = "long context" \/ (kind = "context" /\ PaymasterAsked)
  BY DEF Unseen
<1>4. ContextBreach(fact) <=> kind \in {"context", "long context"} /\ ~EntityStaked("paymaster")
  BY DEF ContextBreach
<1>5. SeenContext(fact) <=> kind = "context" /\ ~PaymasterAsked /\ ~EntityStaked("paymaster")
  BY DEF SeenContext
<1>6. (Breach(title, fact) /\ ~Unseen(fact)) <=> (others \/ SeenContext(fact))
  <2> HIDE DEF kind, others
  <2> QED
    BY <1>1, <1>2, <1>3, <1>4, <1>5
<1> QED
  BY <1>6

LEMMA BreachesIff ==
    ASSUME TypeInv, PhaseInv
    PROVE  Breaches # {} <=>
              \/ BadCalls
              \/ ContextNoted /\ ~PaymasterAsked /\ ~EntityStaked("paymaster")
              \/ \E title \in Titles : ~RulesKept(title)
<1>1. ASSUME NEW title \in Titles, NEW fact \in Facts(title)
      PROVE  \E f \in did : f[2] = fact
  <2>1. <<Sig(title), fact>> \in did
    BY FactsOf
  <2>2. PICK f \in did : f = <<Sig(title), fact>>
    BY <2>1
  <2>3. f[2] = fact
    BY <2>2
  <2> QED
    BY <2>3
<1>2. ASSUME NEW f \in did PROVE \E title \in Titles : f[2] \in Facts(title)
  BY TitleOfFact
<1>3. Breaches # {} <=>
         \E title \in Titles : \E fact \in Facts(title) : Breach(title, fact) /\ ~Unseen(fact)
  BY DEF Breaches
<1>4. BadCalls <=> \E title \in Titles : \E fact \in Facts(title) : BadCall(fact)
  BY <1>1, <1>2 DEF BadCalls
<1>5. ContextNoted <=> \E title \in Titles : \E fact \in Facts(title) : fact[1] = "context"
  <2>1. ASSUME NEW title \in Titles, NEW fact \in Facts(title), fact[1] = "context"
        PROVE  fact = <<"context">>
    BY <2>1, FactsOf DEF FactShape, LoneFacts
  <2>2. <<"context">>[1] = "context"
    OBVIOUS
  <2> QED
    BY <1>1, <1>2, <2>1, <2>2 DEF ContextNoted, Somewhere
<1>6. ASSUME NEW title \in Titles, NEW fact \in Facts(title)
      PROVE  (Breach(title, fact) /\ ~Unseen(fact)) <=>
                \/ BadCall(fact)
                \/ fact[1] = "context" /\ ~PaymasterAsked /\ ~EntityStaked("paymaster")
                \/ OpcodeBreach(title, fact) \/ CodeBreach(fact) \/ StorageBreach(title, fact)
  <2>1. FactShape(fact)
    BY FactsOf
  <2> QED
    BY <2>1, SeenBreaches DEF SeenContext
<1>7. (\E title \in Titles : \E fact \in Facts(title) : Breach(title, fact) /\ ~Unseen(fact)) <=>
         \/ \E title \in Titles : \E fact \in Facts(title) : BadCall(fact)
         \/ /\ \E title \in Titles : \E fact \in Facts(title) : fact[1] = "context"
            /\ ~PaymasterAsked /\ ~EntityStaked("paymaster")
         \/ \E title \in Titles : ~RulesKept(title)
  BY <1>6 DEF RulesKept
<1> QED
  BY <1>3, <1>4, <1>5, <1>7

LEMMA PaymasterStake ==
    ASSUME Gathered, LevelsOf("paymaster") # {}
    PROVE  IsStaked("paymaster") <=> EntityStaked("paymaster")
<1>1. PICK i \in LevelsOf("paymaster") : OfTitle("paymaster", i)
  BY LevelOfTitle DEF Gathered, Basics, Titles
<1> QED
  BY <1>1 DEF OfTitle, IsStaked, EntityStaked

LEMMA AcceptedSound ==
    ASSUME ScanInv
    PROVE  AcceptedWithinRules
<1> SUFFICES ASSUME verdict = "ok", Breaches # {} PROVE FALSE
  BY DEF AcceptedWithinRules
<1>1. Gathered /\ TypeInv /\ PhaseInv /\ ScannerAllows
  BY DEF ScanInv, Gathered, Basics, VerdictInv
<1>2. /\ ~BadCalls
      /\ \A title \in Titles : LevelsOf(title) # {} =>
            RulesKept(title) /\ (title = "paymaster" => ContextAllowed)
  BY <1>1, ScannerRules
<1>3. \A title \in Titles : RulesKept(title)
  BY <1>1, <1>2, FactsHaveLevel DEF RulesKept
<1>4. ContextNoted /\ ~PaymasterAsked /\ ~EntityStaked("paymaster")
  BY <1>1, <1>2, <1>3, BreachesIff
<1>5. LevelsOf("paymaster") # {}
  <2>1. OnlyContextInv
    BY <1>1, <1>4 DEF Gathered, Collected, CallsInv
  <2>2. PICK i \in DOMAIN Levels : Levels[i].topLevelMethodSig = PaymasterSig
    BY <1>4, <2>1 DEF OnlyContextInv
  <2> QED
    BY <2>2, Sigs DEF LevelsOf, Levels, Sig
<1>6. IsStaked("paymaster")
  BY <1>1, <1>2, <1>4, <1>5, ContextFound DEF Titles
<1> QED
  BY <1>1, <1>4, <1>5, <1>6, PaymasterStake

LEMMA RefusedSound ==
    ASSUME ScanInv
    PROVE  RefusedForCause
<1> DEFINE smallCode == \E f \in did : f[2][1] = "small code"
<1> SUFFICES ASSUME verdict = "OpcodeValidation", Breaches = {}, ~smallCode,
                    ~(PaymasterAsked /\ ~EntityStaked("paymaster"))
             PROVE  FALSE
  BY DEF RefusedForCause
<1>1. Gathered /\ TypeInv /\ PhaseInv /\ ~ScannerAllows
  BY DEF ScanInv, Gathered, Basics, VerdictInv
<1>2. /\ ~BadCalls /\ (ContextNoted => EntityStaked("paymaster") \/ PaymasterAsked)
      /\ \A title \in Titles : RulesKept(title)
  BY <1>1, BreachesIff
<1>3. \A title \in Titles : NoSmallCode(title)
  <2>1. ASSUME NEW title \in Titles, NEW fact \in Facts(title), fact[1] = "small code"
        PROVE  FALSE
    <3>1. PICK f \in did : f = <<Sig(title), fact>>
      BY <1>1, FactsOf
    <3>2. f[2][1] = "small code"
      BY <2>1, <3>1
    <3> QED
      BY <3>2
  <2> QED
    BY <2>1 DEF NoSmallCode
<1>4. LevelsOf("paymaster") # {} /\ ~ContextAllowed
  BY <1>1, <1>2, <1>3, ScannerRules
<1>5. (PaymasterAsked \/ ContextNoted) /\ ~IsStaked("paymaster")
  BY <1>1, <1>4, ContextRefused
<1> QED
  BY <1>1, <1>2, <1>4, <1>5, PaymasterStake

(* An operation that passes broke no rule in any frame of its validation:   *)
(* nothing that matters escapes the tracer's levels, hashes and calls, save *)
(* a context that is cut, or that follows another call of the paymaster.    *)
THEOREM AcceptedKeptTheRules == ScanSpec => []AcceptedWithinRules
<1>1. ScanInv => AcceptedWithinRules
  BY AcceptedSound
<1> QED
  BY <1>1, ScanInvariant, PTL

(* An operation is refused by the opcode and storage rules only if one of   *)
(* its entities broke one, looked at a contract of one or two bytes, or     *)
(* asked an unstaked paymaster for a context in the entry point's stead.    *)
THEOREM RefusalsHaveCause == ScanSpec => []RefusedForCause
<1>1. ScanInv => RefusedForCause
  BY RefusedSound
<1> QED
  BY <1>1, ScanInvariant, PTL
=============================================================================
