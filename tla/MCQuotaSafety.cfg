\* One key with three requests, two policies, failures and a crash.
SPECIFICATION Spec
CONSTANTS
    k1 = k1  r1 = r1  r2 = r2  r3 = r3
    Keys = {k1}
    Requests = {r1, r2, r3}
    KeyOf <- OneKey
    Policies <- Edited
    ClientAmounts = {}
    UsageAmounts = {2}
    BatchSize = 1
    MaxTime = 1
    MaxBoots = 2
    Faults = TRUE
INVARIANTS Accounting Books ConcurrencyCap RateCaps NothingIsForgotten
PROPERTIES SettlingIsFinal
SYMMETRY Alike
CHECK_DEADLOCK FALSE
