\* Only the process itself may die, once.
SPECIFICATION RetentionFairSpec
CONSTANTS
    r1 = r1  r2 = r2  a1 = a1  a2 = a2  s1 = s1
    None = None
    Requests = {r1}
    Openers = {r1}
    Accounts = {a1}
    Sessions = {s1}
    Outcomes = {"succeeded"}
    MetadataTTL = 1
    PayloadTTL = 1
    BatchSize = 2
    MaxFrames = 0
    MaxBinds = 1
    Inputs = FALSE
    Answers = FALSE
    Usages = TRUE
    MaxTime = 1
    MaxStops = 1
    Faults = FALSE
    DeleteBatch = 1
    Sweeps = {"conversations", "payloads", "affinities"}
    Administrator = TRUE
    SweepFails = FALSE
PROPERTIES DeletionsFinish EverythingMaterializes RequestsEnd
CHECK_DEADLOCK FALSE
