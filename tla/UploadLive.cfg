SPECIFICATION LiveSpec
CONSTANTS
    good = good
    bad = bad
    NoBody = NoBody
    Request = {r1}
    NumParts = 2
    Body <- TwoBodies
    Good <- good
    Setups <- LiveSetups
    MaxFaults = 2
PROPERTIES
    AcknowledgedUploadsComplete
    LeftoversReclaimed
CHECK_DEADLOCK FALSE
