SPECIFICATION Spec
CONSTANTS
    good = good
    bad = bad
    NoBody = NoBody
    Request = {r1, r2}
    NumParts = 2
    Body <- TwoBodies
    Good <- good
    Setups <- PlainSetups
    MaxFaults = 2
SYMMETRY RequestSymmetry
INVARIANTS
    CompletedHasObject
    AcknowledgedPartsAreKept
PROPERTIES
    CompletedIsFinal
    DeletedStaysDeleted
CHECK_DEADLOCK FALSE
