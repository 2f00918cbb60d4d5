\* Any transaction or client write of one request may fail, it is deleted, and its payloads expire.
SPECIFICATION RetentionSpec
CONSTANTS
    r1 = r1  r2 = r2  a1 = a1  a2 = a2  s1 = s1
    None = None
    Requests = {r1}
    Openers = {r1}
    Accounts = {a1}
    Sessions = {}
    Outcomes = {"succeeded"}
    MetadataTTL = 1
    PayloadTTL = 1
    BatchSize = 2
    MaxFrames = 1
    MaxBinds = 1
    Inputs = FALSE
    Answers = TRUE
    Usages = FALSE
    MaxTime = 1
    MaxStops = 1
    Faults = TRUE
    DeleteBatch = 1
    Sweeps = {"conversations", "payloads", "affinities"}
    Administrator = TRUE
    SweepFails = FALSE
INVARIANTS DeletionIsClean RecordsAgree
PROPERTIES RunningKeepRecords
CHECK_DEADLOCK FALSE
