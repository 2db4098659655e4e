SPECIFICATION Spec
CONSTANTS
    p1 = p1
    p2 = p2
    away = away
    Peers <- MCPeers
    Views <- MCViews
    Absent = away
    None = none
    Ghost = ghost
    Endpoints = {e1}
    MaxCalls = 2
    Failures = {"engine", "exit"}
INVARIANTS EngineCurrent ExitCurrent ExitPeerOffered StatusCurrent
VIEW Distinct
