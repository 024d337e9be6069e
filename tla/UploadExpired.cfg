SPECIFICATION LiveSpec
CONSTANTS
    good = good
    bad = bad
    NoBody = NoBody
    Request = {r1}
    NumParts = 1
    Body <- OneBody
    Good <- good
    Setups <- LocalPlain
    MaxFaults = 1
PROPERTIES
    ExpiredIsReclaimed
CHECK_DEADLOCK FALSE
