CONSTANTS
    Spender = {x1}
    ModelCall = {l1, l2, l3}
    Budget = 3
    CompactAt = 4
    MaxTrouble = 1
    Torn = Torn
    Unlocked = Unlocked
SPECIFICATION UsageSpec
INVARIANT TornTailIsForgiven
CHECK_DEADLOCK FALSE
