SPECIFICATION MempoolSpec
CONSTANTS
    alice = alice
    bob = bob
    pm = pm
    n1 = n1
    n2 = n2
    NoAddr = NoAddr
    Addr <- MCAddr
    Nonce <- MCNonce
    AccountOf <- MCAccountOf
    NonceValue <- MCNonceValue
    StakeOf <- MCStakeOf
    Aggregators <- NoAggregator
    UserOps <- MCUserOps
    ConfigWhitelist <- Nobody
    ConfigBlacklist <- Nobody
    DumpCounts <- ZeroDumps
    MinInclusionDenominator = 10
    ThrottlingSlack = 8
    BanSlack = 9
    MinStake = 1
    MinUnstakeDelay = 0
    MaxUserOpsPerSender = 1
    Judged <- OnlyBob
    MaxCount = 3
    MaxOps = 5
INVARIANTS
    MempoolTypeOK
    OneOpPerSenderNonce
    CountCoversPool
    UnstakedSendersLimited
PROPERTIES
    ImplementsOpPool
