SPECIFICATION DaySpec
CONSTANTS
    none = none
    NoTime = none
    SignalSet <- MCSignals
    Second = 2
    Minute = 4
    Day = 16
    EntryLateness = 0
    ProtLateness = 1
    MaxLevel = 2
    MaxNow = 40
    worker = worker
    beat = beat
    None = None
    Workers <- MCWorkers
    Beat <- MCBeat
    Dates <- MCDates
    Balances <- MCBalances
    Settings <- MCSettings
    DefaultStake = 500
INVARIANTS
    ReleasedAtItsTimeOfDay
    MissedOnlyIfLate
    EntryFromASession
PROPERTIES
    WaitEnds
    ImplementsFrozenSession
