SPECIFICATION Spec
CONSTANTS
    d1 = d1
    d2 = d2
    d3 = d3
    d4 = d4
    r1 = r1
    r2 = r2
    Devices = {d1, d2, d3, d4}
    Kind <- KindPairing
    InviteRoles = {"member"}
    Revokes = {r1, r2}
    Legs = {"tunnel"}
    Resetters = {}
    Upserts = {}
    Founders = 1
    DeviceCap = 2
    Deletable = {}
    MaxToken = 1
    MaxWindow = 2
SYMMETRY AlikeRevokes
INVARIANTS TypeOK CapHeld
PROPERTIES ImplementsRecoveryCode OwnerKept TunnelNeverUnpairs
