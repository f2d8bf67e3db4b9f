SPECIFICATION BundleSpec
CONSTANTS
    alice = alice
    bob = bob
    pm = pm
    fac = fac
    n1 = n1
    n2 = n2
    main = main
    flush = flush
    NoAddr = NoAddr
    Addr <- MCAddr
    Nonce <- MCNonce
    AccountOf <- MCAccountOf
    NonceValue <- MCNonceValue
    StakeOf <- MCStakeOf
    Aggregators <- NoAggregator
    UserOps <- ReplacedOps
    ConfigWhitelist <- None
    ConfigBlacklist <- None
    DumpCounts <- NoDumps
    Judged <- None
    MinInclusionDenominator = 10
    ThrottlingSlack = 10
    BanSlack = 10
    MinStake = 1
    MinUnstakeDelay = 0
    MaxUserOpsPerSender = 4
    MaxCount = 8
    MaxOps = 4
    Scanner <- MCScanner
    LookBack = 1000
    MaxBlocks = 3
    Bundling = main
    MaxBundleGas = 2
    Gas <- A1TakesTwo
    Prefund <- OneEach
    Touches <- NoTouches
    InitialDeposit <- TwoCovered
    DepositValues <- None
    Spoilable <- OnlyA1
    ForeignOps <- None
    NodeMayFail = FALSE
PROPERTIES
    PooledOpIsResolved
