SPECIFICATION DeskSpec
CONSTANTS
    leg = leg
    other = other
    twin = twin
    single = single
    Legs = {leg}
    Others = {other}
    Kinds = {twin, single}
    NextTimes = {2, NoNext}
    NoNext = NoNext
    Duration = 2
    Offers <- MCOffers
    HistoryLimit = 1
    Grace = 1
    Extra = 1
    Transports = {"mcp", "legacy"}
    LastOpening = 0
    LastTick = 3
    MaxCallFaults = 1
    Nothing = Nothing
    Messages = {1, 2}
    Posts <- MCPosts
    Source <- MCSource
    Modes = {"bot", "user"}
    KeyTtl = 2
    Retention = 2
    MaxUpdates = 2
    MaxDayPart = 2
    MaxDeaths = 1
    MaxMishaps = 1
    w1 = w1
    w2 = w2
    divap = divap
    fast = fast
    room = room
    Workers = {w1}
    Callers = {w2}
    Profiles = {divap, fast, room}
    Fallback = divap
    Enabled = {divap, fast, room}
    Unscanned = {room}
    ActiveChoices <- MCActiveChoices
    PairsOf <- MCPairs
    Directions = {"buy"}
    ScanEvery <- MCScanEvery
    MonitorEvery <- MCMonitorEvery
    RecentHours = 1
    RaisingChoices <- MCRaisingChoices
    MaxScanFaults = 1
    Never = Never
    curto1 = curto1
    long1 = long1
    Trades = {curto1, long1}
    Curto = {curto1}
    Keyboards <- MCKeyboards
    MaxSent = 4
    MaxFalls = 1
    BaseStakes = {100, 23309}
    Payoffs = {8000, 8733}
    Targets = {50}
    Multipliers <- MCMultipliers
    MaxPlayed = 3
    Charts <- MCCharts
    MaxPrice = 4020
    MaxRsi = 1
    NoRsi = NoRsi
    MinCandles = 7
    Lookback = 7
    SwingLookback = 7
    VolumePeriod = 3
    MinDistance = 3
    Unavailable = Unavailable
    Sentiments = {20, 35, 65, 80}
    CapChanges <- MCCapChanges
    HighFrames <- MCHighFrames
INVARIANTS
    OwnResult
    VisibleResultIsTaken
    HandledOnce
    AlertsPerWindow
    OpenedOnce
    CountdownKept
    CyclesAreLadders
    ReplayIsTrue
    MirrorImage
    ConfirmGoesWithTrend
PROPERTIES
    SettlementEnds
    EverySignalHandled
    ProfilesScannedAgain
