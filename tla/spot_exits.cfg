SPECIFICATION FairSpec
CONSTANTS
    Monitors = {m1}
    Listeners = {l1}
    Plans <- ExitPlans
    Quantity = 4
    Slip = 1
    NewStops <- Stops
    MaxOrders = 2
    MaxFaults = 1
INVARIANTS
    TypeOK
    ClosedMeansSold
    BookedWhole
PROPERTIES
    ImplementsScaleOut
    ExitsWhenDecided
