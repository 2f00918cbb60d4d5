\* Two requests of one session, whose affinity expires.
SPECIFICATION RetentionSpec
CONSTANTS
    r1 = r1  r2 = r2  a1 = a1  a2 = a2  s1 = s1
    None = None
    Requests = {r1, r2}
    Openers = {r1, r2}
    Accounts = {a1, a2}
    Sessions = {s1}
    Outcomes = {"succeeded"}
    MetadataTTL = 1
    PayloadTTL = 1
    BatchSize = 2
    MaxFrames = 0
    MaxBinds = 1
    Inputs = FALSE
    Answers = FALSE
    Usages = FALSE
    MaxTime = 1
    MaxStops = 0
    Faults = FALSE
    DeleteBatch = 1
    Sweeps = {"affinities"}
    Administrator = FALSE
    SweepFails = FALSE
PROPERTIES SessionsAreSticky
SYMMETRY Alike
CHECK_DEADLOCK FALSE
