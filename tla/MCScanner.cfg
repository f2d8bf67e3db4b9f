SPECIFICATION ScanSpec
CONSTANTS
    EntryPoint = EntryPoint
    Creator = Creator
    Factory = Factory
    Sender = Sender
    Paymaster = Paymaster
    Token = Token
    Stub = Stub
    Precompile = Precompile
    Codeless = Codeless
    UserOpCases <- MCUserOpCases
    Slots <- MCSlots
    KeccakInputs <- MCKeccakInputs
    PlainOps <- MCPlainOps
    ExternalOps <- MCExternalOps
    NestedCalls <- MCNestedCalls
    ReturnInfos <- MCReturnInfos
    ValidUntilFutureSeconds = 30
    MaxSteps = 3
    MaxDepth = 4
CHECK_DEADLOCK FALSE
INVARIANTS
    ScanTypeOK
    
    RefusedForCause
    StorageMapBeforeOp
    CallStackBalances
