SPECIFICATION BundleSafetySpec
CONSTANTS
    alice = alice
    bob = bob
    pm = pm
    fac = fac
    n1 = n1
    n2 = n2
    main = main
    flush = flush
    NoAddr = NoAddr
    Addr <- MCAddr
    Nonce <- MCNonce
    AccountOf <- MCAccountOf
    NonceValue <- MCNonceValue
    StakeOf <- MCStakeOf
    Aggregators <- NoAggregator
    UserOps <- DeployingOps
    ConfigWhitelist <- None
    ConfigBlacklist <- None
    DumpCounts <- NoDumps
    Judged <- None
    MinInclusionDenominator = 2
    ThrottlingSlack = 0
    BanSlack = 1
    MinStake = 1
    MinUnstakeDelay = 0
    MaxUserOpsPerSender = 4
    MaxCount = 8
    MaxOps = 6
    Scanner <- TwoScanners
    LookBack = 1000
    MaxBlocks = 3
    Bundling = main
    MaxBundleGas = 2
    Gas <- OneEach
    Prefund <- OneEach
    Touches <- ReadsBob
    InitialDeposit <- TwoCovered
    DepositValues <- None
    Spoilable <- None
    ForeignOps <- None
    NodeMayFail = TRUE
INVARIANTS
    UndisturbedBundleExecutes
