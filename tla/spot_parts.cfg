SPECIFICATION Spec
CONSTANTS
    Monitors = {m1}
    Listeners = {}
    Plans <- OnlyAtivo
    Quantity = 4
    Slip = 1
    NewStops <- Stops
    MaxOrders = 3
    MaxFaults = 0
INVARIANT PartsMakeTheWhole
