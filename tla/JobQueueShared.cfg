SPECIFICATION Spec
CONSTANTS
    Runner = {r1, r2}
    JobId = {j1, j2, j3}
    Clip = {c1}
    ClipKind = {"validate"}
    SweepKind = {"sweep"}
    EntryKind = {"validate"}
    BestEffortKind = {}
    FollowUps <- MCNoFollowUps
    BurialEnqueues <- MCNoBurialEnqueues
    StartupSweeps <- MCStartupSweeps
    MaxAttempts = 2
    MaxFaults <- MCOneOfEach
    NoRunner = NoRunner
    NoJob = NoJob
    NoClip = NoClip
SYMMETRY MCSymmetry
CONSTRAINT MCTwoFaults
INVARIANTS
    NoDuplicateJobs
    ExclusiveUnlessStalled
    SweepStaysArmed
PROPERTIES
    ImplementsService
CHECK_DEADLOCK FALSE
