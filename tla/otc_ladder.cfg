SPECIFICATION FairSpec
CONSTANTS
    s1 = s1
    s2 = s2
    s3 = s3
    Signals <- LadderSignals
    Immediate <- LadderImmediate
    MaxLevel = 2
    Start <- LadderStart
    Prot <- LadderProt
    Slots = 2
    MaxOpen = 2
    Martingale <- MCMartingale
    SessionStake = 25
    DefaultStake = 25
    PayoutPct = 80
    Limits <- MCLimits
    MaxDay = 2
INVARIANTS
    TypeOK
    ProtectionOnlyAfterLoss
    OrdersAccounted
PROPERTIES
    ImplementsLadder
    QueuedConcludes
