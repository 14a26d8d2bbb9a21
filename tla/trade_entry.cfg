SPECIFICATION Spec
CONSTANTS
    Workers = {w1, w2}
    Ids = {i1, i2, i3}
    Signals <- EntrySignals
    Profiles <- EntryProfiles
    TassoKind <- EntryTasso
    Cap <- EntryCap
    GlobalCap = 2
    OtcRows <- FewOtcRows
    MaxFaults = 1
VIEW Relevant
SYMMETRY Alike
INVARIANTS
    TypeOK
    CapsOverrunOnlyInFlight
    OneTradePerSetup
    OnlyFaultsLoseTrack
    ProtectedAfterGoal
