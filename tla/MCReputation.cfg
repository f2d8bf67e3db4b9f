SPECIFICATION RepSpec
CONSTANTS
    p = p
    q = q
    NoAddr = NoAddr
    Addr <- MCAddr
    ConfigWhitelist <- Nobody
    ConfigBlacklist <- Nobody
    MinInclusionDenominator = 2
    ThrottlingSlack = 0
    BanSlack = 1
    MinStake = 1
    MinUnstakeDelay = 0
    MaxOps = 4
    DumpCounts <- DumpEnds
INVARIANTS
    RepTypeOK
PROPERTIES
    
    ForgivingStepsNeverWorsen
