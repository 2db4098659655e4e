CONSTANTS
    A = fA
    B = fB
    A2 = fA2
    ALong = fALong
    NoFile = none
    Files = {fA, fB}
    NameOf <- MCNameOf
    SizeOf <- MCSizeOf
    Transfers = {t1, t2, t3}
SPECIFICATION Spec
 
 
PROPERTY LockReleased
 
CHECK_DEADLOCK FALSE
