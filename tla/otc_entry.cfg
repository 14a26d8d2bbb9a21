SPECIFICATION SessionSpec
CONSTANTS
    worker = worker
    beat = beat
    None = None
    Workers <- MCWorkers
    Beat <- MCBeat
    Dates <- MCDates
    Balances <- MCBalances
    Settings <- MCSettings
    DefaultStake = 500
INVARIANT EntryFixedForTheDay
