CONSTANT LastAddr = 7
SPECIFICATION FairScan
PROPERTY ImplementsPool
PROPERTY AllocateReturns
