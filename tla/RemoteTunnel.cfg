SPECIFICATION FairSpec
CONSTANTS
    Guids = {g1, g2}
    MaxToken = 2
    Mints = {}
    TTL = 1
    MaxDevices = 1
    MaxSecret = 1
    MaxChanges = 5
    MaxFaults = 1
INVARIANTS TunnelCurrent TransportOwn
PROPERTY Settles
CHECK_DEADLOCK FALSE
