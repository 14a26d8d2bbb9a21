SPECIFICATION Spec
CONSTANTS
    Monitors = {m1, m2}
    Listeners = {l1}
    Plans <- RacedPlans
    Quantity = 3
    Slip = 1
    NewStops <- Stops
    MaxOrders = 2
    MaxFaults = 0
INVARIANTS
    NamedStopIsLive
    BookedWhole
VIEW Unsold
SYMMETRY Alike
