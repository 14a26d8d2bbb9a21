SPECIFICATION SimulationSpec
CONSTANTS
    BaseStakes = {100, 23309}
    Payoffs = {8000, 8733}
    Targets = {0, 50}
    Multipliers <- MCMultipliers
    MaxPlayed = 3
INVARIANT SameOutcomes
