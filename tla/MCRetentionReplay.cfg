\* A request, its continuation and the deletion of both, which may stop anywhere, with a crash or a shutdown.
SPECIFICATION RetentionSpec
CONSTANTS
    r1 = r1  r2 = r2  a1 = a1  a2 = a2  s1 = s1
    None = None
    Requests = {r1, r2}
    Openers = {r1}
    Accounts = {a1, a2}
    Sessions = {}
    Outcomes = {"succeeded"}
    MetadataTTL = 2
    PayloadTTL = 1
    BatchSize = 2
    MaxFrames = 0
    MaxBinds = 1
    Inputs = TRUE
    Answers = TRUE
    Usages = FALSE
    MaxTime = 0
    MaxStops = 1
    Faults = FALSE
    DeleteBatch = 1
    Sweeps = {"conversations", "payloads", "affinities"}
    Administrator = TRUE
    SweepFails = TRUE
INVARIANTS ConversationsAgree ReplayIsSafe
SYMMETRY SameAccounts
CHECK_DEADLOCK FALSE
