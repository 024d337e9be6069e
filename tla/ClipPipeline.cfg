SPECIFICATION Spec
CONSTANTS
    Runner = {r1, r2}
    JobId = {j1, j2}
    Clip = {c1}
    MediaKind <- MCMedia
    Configs <- MCKeepsOrPlain
    MaxGeneration = 1
    MaxAttempts = 2
    MaxFaults <- MCStallAndDb
    NoRunner = NoRunner
    NoJob = NoJob
    NoClip = NoClip
    NoObject = NoObject
SYMMETRY MCSymmetry
INVARIANTS
    ProcessingIsAttended
PROPERTIES
    OptimizedSizeIsRecorded
    ReplacedIsKept
CHECK_DEADLOCK FALSE
