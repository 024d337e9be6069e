SPECIFICATION Spec
CONSTANTS
    good = good
    bad = bad
    NoBody = NoBody
    Request = {r1, r2}
    NumParts = 1
    Body <- OneBody
    Good <- good
    Setups <- LocalOptimized
    MaxFaults = 0
PROPERTIES
    ReadyStaysReady
CHECK_DEADLOCK FALSE
