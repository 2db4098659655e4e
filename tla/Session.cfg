SPECIFICATION Spec
CONSTANTS
    Requests = {r1}
    URLs = {u1, u2}
    NoURL = none
    MaxSessions = 3
    MaxKeys = 3
    MaxClients = 3
    RelayRaces = FALSE
    MaxFaults = 2
    Faults = {"reject", "reply", "save", "downsave", "engine", "netmap", "dns", "drop", "crash"}
INVARIANTS   KeysAgree UpSurvives 
PROPERTY DownReturns
