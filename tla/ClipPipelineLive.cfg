SPECIFICATION LiveSpec
CONSTANTS
    Runner = {r1, r2}
    JobId = {j1, j2}
    Clip = {c1}
    MediaKind <- MCNoMedia
    Configs <- MCOptimizing
    MaxGeneration = 0
    MaxAttempts = 2
    MaxFaults <- MCCrashAndDb
    NoRunner = NoRunner
    NoJob = NoJob
    NoClip = NoClip
    NoObject = NoObject
PROPERTIES
    UploadedClipsSettle
    OptimizationFollows
    EveryJobSettles
CHECK_DEADLOCK FALSE
