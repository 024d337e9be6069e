SPECIFICATION LiveSpec
CONSTANTS
    Runner = {r1}
    JobId = {j1, j2, j3, j4}
    Clip = {c1}
    ClipKind = {}
    SweepKind = {"sweep"}
    EntryKind = {}
    BestEffortKind = {}
    FollowUps <- MCNoFollowUps
    BurialEnqueues <- MCNoBurialEnqueues
    StartupSweeps <- MCStartupSweeps
    MaxAttempts = 1
    MaxFaults <- MCCrashOnly
    NoRunner = NoRunner
    NoJob = NoJob
    NoClip = NoClip
PROPERTIES
    SweepsRecur
