\* Two calls; reads, saves and answers fail, a credential expires, an access token or a refresh
\* token is refused, a login replaces the credential at any moment.
SPECIFICATION Spec
CONSTANTS
    c1 = c1  c2 = c2
    Callers = {c1, c2}
    Probes = {}
    MaxCalls = 4
    MaxIssued = 5
    MaxExpired = 1
    MaxRejected = 1
    MaxLogins = 1
    Denials = TRUE
    Faults = TRUE
INVARIANTS RefresherInv RefreshPromises SentWasStored UsedTokensStayUsed
CHECK_DEADLOCK FALSE
