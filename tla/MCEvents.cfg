SPECIFICATION EventsSpec
CONSTANTS
    alice = alice
    bob = bob
    pm = pm
    n1 = n1
    s1 = s1
    s2 = s2
    NoAddr = NoAddr
    Addr <- MCAddr
    Nonce <- MCNonce
    AccountOf <- MCAccountOf
    NonceValue <- MCNonceValue
    StakeOf <- MCStakeOf
    Aggregators <- NoAggregator
    UserOps <- MCUserOps
    ConfigWhitelist <- Nobody
    ConfigBlacklist <- Nobody
    DumpCounts <- NoDumps
    Judged <- Nobody
    MinInclusionDenominator = 10
    ThrottlingSlack = 10
    BanSlack = 10
    MinStake = 1
    MinUnstakeDelay = 0
    MaxUserOpsPerSender = 4
    MaxCount = 4
    MaxOps = 3
    Scanner <- TwoScanners
    LookBack = 1000
    MaxBlocks = 2
INVARIANTS
    EventsTypeOK
    IncludedAwaitsItsEvent
    CursorWithinChain
PROPERTIES
    EventsRemoveOnlyIncluded
    ScanFlushes
SYMMETRY Interchangeable
