\* One request of every kind, two accounts, one failure of storage or of the client.
SPECIFICATION FairSpec
CONSTANTS
    a1 = a1  a2 = a2  None = None
    Accounts = {a1, a2}
    Order <- InOrder
    Default = a1
    Owners = {a1}
    Selector = "rotating"
    Kinds = {"responses", "responses_stream", "compact", "chat", "chat_stream", "images"}
    Policy = "websocket"
    Profiles <- Conditions  Start <- Healthy
    MaxChanges = 1
    MaxEvents = 1
    Faults = TRUE
INVARIANTS OneSource RetriesStay RecordIsHonest
PROPERTIES RefinesExchange RequestsEnd
CHECK_DEADLOCK FALSE
