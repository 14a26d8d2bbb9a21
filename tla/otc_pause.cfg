SPECIFICATION FairSpec
CONSTANTS
    s1 = s1
    s2 = s2
    s3 = s3
    Signals <- LimitSignals
    Immediate <- LimitImmediate
    MaxLevel = 1
    Start <- LimitStart
    Prot <- LimitProt
    Slots = 2
    MaxOpen = 1
    Martingale <- MCMartingale
    SessionStake = 25
    DefaultStake = 25
    PayoutPct = 80
    Limits <- MCLimits
    MaxDay = 1
PROPERTIES
    PausedUntilNextDay
