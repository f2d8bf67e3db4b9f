----------------------------- MODULE MCScanner -----------------------------
(***************************************************************************)
(* Instances of UserOpScanner: every kind of slot, and the operations for  *)
(* which who is staked matters.                                            *)
(***************************************************************************)
EXTENDS UserOpScanner

Case(initCode, paymaster, staked) ==
    [initCode |-> initCode, paymaster |-> paymaster, staked |-> staked]

MCUserOpCases ==
    {Case(FALSE, TRUE, {}), Case(TRUE, FALSE, {"factory"}), Case(TRUE, TRUE, {"paymaster"})}

Mapping(addr) == [prefix |-> addr, len |-> 64]
MCSlots ==
    {[input |-> Mapping(Sender), offset |-> o] : o \in {Padded, 127, 128}}
        \cup {[input |-> Mapping(Paymaster), offset |-> 0]}
MCKeccakInputs == {Mapping(Sender), Mapping(Paymaster)}
MCPlainOps == {"GAS", "CALLER", "TIMESTAMP"}
MCExternalOps == {Sender, Codeless, Stub, Precompile}

Call(type, to, method) == [type |-> type, to |-> to, method |-> method]
MCNestedCalls ==
    {Call("CALL", Token, "transfer"), Call("DELEGATECALL", Token, "lib"),
     Call("CALL", EntryPoint, "0x"), Call("CALL", EntryPoint, "withdrawTo"),
     Call("CALL", Paymaster, "validatePaymasterUserOp")}

Info(sigFailed, after, until, aggregator) ==
    [sigFailed |-> sigFailed, validAfter |-> after, validUntil |-> until, aggregator |-> aggregator]
MCReturnInfos ==
    {Info(FALSE, 0, 31, FALSE), Info(TRUE, 0, 31, FALSE), Info(FALSE, 1, 31, FALSE),
     Info(FALSE, 0, 30, FALSE), Info(FALSE, 0, 31, TRUE)}
=============================================================================
