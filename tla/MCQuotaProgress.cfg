\* One key with one slot or no limit, three requests, two crashes and no outside fault.
SPECIFICATION FairSpec
CONSTANTS
    k1 = k1  r1 = r1  r2 = r2  r3 = r3
    Keys = {k1}
    Requests = {r1, r2, r3}
    KeyOf <- OneKey
    Policies <- OneSlotOrOpen
    ClientAmounts = {}
    UsageAmounts = {2}
    BatchSize = 1
    MaxTime = 0
    MaxBoots = 3
    Faults = FALSE
PROPERTIES SlotsAreFreed ServiceComesBack RefinesLedger
CHECK_DEADLOCK FALSE
