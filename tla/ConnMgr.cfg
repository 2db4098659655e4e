CONSTANTS
  MaxSession = 3
  MaxFaults = 1
  Faults = {"loss", "error", "late", "ice", "bind", "netmap", "restart", "close", "crash"}
SPECIFICATION Spec
INVARIANTS AgentsOwned CandidatesMeetTheirAgent
PROPERTIES ProbingSucceeds CloseEndsAll
CHECK_DEADLOCK FALSE
