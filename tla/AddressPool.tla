---------------------------- MODULE AddressPool ----------------------------
(***************************************************************************)
(* What the coordinator relies on when it calls ipam.Allocator: a pool of  *)
(* host addresses handed out in one step, round robin from a cursor.  A    *)
(* call that finds no free address changes nothing.                        *)
(***************************************************************************)
EXTENDS IpamOps

VARIABLES used, next

Init == used = {} /\ next = 1

MarkUsed(a) == used' = used \cup {a} /\ UNCHANGED next

Release(a) == used' = used \ {a} /\ UNCHANGED next

Allocate ==
    \E a \in FirstFree(used, next) :
        used' = used \cup {a} /\ next' = advance(a)

Next == Allocate \/ \E a \in Addrs : MarkUsed(a) \/ Release(a)

Spec == Init /\ [][Next]_<<used, next>>
=============================================================================
