\* A request is deleted while a frame of it waits for replay.
SPECIFICATION RetentionSpec
CONSTANTS
    r1 = r1  r2 = r2  a1 = a1  a2 = a2  s1 = s1
    None = None
    Requests = {r1}
    Openers = {r1}
    Accounts = {a1}
    Sessions = {}
    Outcomes = {"succeeded"}
    MetadataTTL = 2
    PayloadTTL = 1
    BatchSize = 2
    MaxFrames = 1
    MaxBinds = 1
    Inputs = FALSE
    Answers = FALSE
    Usages = FALSE
    MaxTime = 0
    MaxStops = 1
    Faults = FALSE
    DeleteBatch = 1
    Sweeps = {"conversations", "payloads", "affinities"}
    Administrator = TRUE
    SweepFails = FALSE
INVARIANTS StartupReplays
CHECK_DEADLOCK FALSE
