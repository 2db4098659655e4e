SPECIFICATION Spec
CONSTANTS
    Prefixes = {n1, n2}
    MaxFaults = 2
    Faults = {"command", "crash"}
INVARIANTS BeliefsTrue HostRestored
