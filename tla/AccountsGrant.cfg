SPECIFICATION Spec
CONSTANTS
    MaxUsers = 2
    Proc = {p1, p2}
    MaxCreds = 4
    Reset = {t1}
    Invite = {i1}
    DeviceLimit = 1
    MaxPasswords = 2
    MaxRequests = 3
    Ops = {"patch"}
    Patches <- MCPatches
    InitialRoles <- MCInitialRoles
    NoReset = NoReset
    NoInvite = NoInvite
SYMMETRY MCSymmetry
PROPERTIES
    OnlyOwnerGrantsAdmin
CHECK_DEADLOCK FALSE
