SPECIFICATION Spec
CONSTANTS
    Guids = {g1}
    MaxToken = 1
    Mints = {m1, m2}
    TTL = 1
    MaxDevices = 2
    MaxSecret = 2
    MaxChanges = 4
    MaxFaults = 1
INVARIANTS RedeemedOnce
PROPERTY OneSecret
CHECK_DEADLOCK FALSE
