CONSTANTS
    Ids = {1, 2}
    Ports = {0, 22, 80}
    Specs <- MCSpecs
    MaxRules = 2
SPECIFICATION ACLSpec
INVARIANT FilterMeansRules DryRunAgrees
PROPERTY DeletionIsLocal
CHECK_DEADLOCK FALSE
