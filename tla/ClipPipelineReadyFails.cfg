SPECIFICATION Spec
CONSTANTS
    Runner = {r1}
    JobId = {j1, j2}
    Clip = {c1}
    MediaKind <- MCNoMedia
    Configs <- MCOptimizing
    MaxGeneration = 1
    MaxAttempts = 2
    MaxFaults <- MCCrashOnly
    NoRunner = NoRunner
    NoJob = NoJob
    NoClip = NoClip
    NoObject = NoObject
PROPERTIES
    ReadyStaysReady
CHECK_DEADLOCK FALSE
