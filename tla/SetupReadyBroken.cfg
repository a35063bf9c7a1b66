SPECIFICATION Spec
CONSTANTS
    d1 = d1
    d2 = d2
    d3 = d3
    d4 = d4
    r1 = r1
    r2 = r2
    Devices = {d1, d2}
    Kind <- KindJoining
    InviteRoles = {"member"}
    Revokes = {}
    Legs = {}
    Resetters = {"watcher"}
    Upserts = {}
    Founders = 1
    DeviceCap = 2
    Deletable = {1}
    MaxToken = 1
    MaxWindow = 1
INVARIANT SetupReady
