CONSTANTS
    Clients = {c1, c2}
    KeyOf <- MCKeyOf
    Payloads = {p1, p2}
    Senders = {c2}
    QueueLen = 1
    InboxLen = 1
    MaxFaults = 1
    Stalls = TRUE
    Closes = {c1}
SPECIFICATION Spec
INVARIANTS RegistryExact 
PROPERTIES ReconnectsForGood CloseIsFinal
CHECK_DEADLOCK FALSE
