SPECIFICATION Spec
CONSTANTS
    d1 = d1
    d2 = d2
    d3 = d3
    d4 = d4
    r1 = r1
    r2 = r2
    Devices = {d1, d2, d3}
    Kind <- KindResetting
    InviteRoles = {"member"}
    Revokes = {r1}
    Legs = {"lan"}
    Resetters = {"watcher", "lan"}
    Upserts = {u1}
    Founders = 1
    DeviceCap = 2
    Deletable = {1}
    MaxToken = 2
    MaxWindow = 1
PROPERTIES ResetReachesOwnHousehold RegisteredUnderOwn
