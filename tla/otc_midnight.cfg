SPECIFICATION FairSpec
CONSTANTS
    none = none
    NoTime = none
    SignalSet <- MidnightSignals
    Second = 2
    Minute = 4
    Day = 16
    EntryLateness = 0
    ProtLateness = 1
    MaxLevel = 2
    MaxNow = 40
INVARIANTS
    RejectedOncePast
