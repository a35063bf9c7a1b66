SPECIFICATION FairSpec
CONSTANTS
    Devices = {d1, d2}
    Founder = f
    Legacy = {d1}
    Limit = 1
    MaxFaults = 1
INVARIANTS TypeOK NoneForgotten OwnIdentity
PROPERTY Settled
