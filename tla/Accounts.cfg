SPECIFICATION Spec
CONSTANTS
    MaxUsers = 3
    Proc = {p1, p2}
    MaxCreds = 3
    Reset = {t1}
    Invite = {i1}
    DeviceLimit = 1
    MaxPasswords = 2
    MaxRequests = 3
    Ops = {"login", "revoke", "change", "patch", "disable", "purge", "reset", "user", "invite", "redeem", "operator"}
    Patches <- MCPatches
    InitialRoles <- MCInitialRoles
    NoReset = NoReset
    NoInvite = NoInvite
SYMMETRY MCSymmetry
INVARIANTS
    OldPasswordsEndSessions
    LinksWorkOnce
    OwnerStaysEnabled
CHECK_DEADLOCK FALSE
