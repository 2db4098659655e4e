-------------------------------- MODULE Ipam --------------------------------
(***************************************************************************)
(* ipam.Allocator: the used set, the roving cursor and the scan loop of    *)
(* AllocateV4, one step per loop iteration.  The allocator's mutex makes a *)
(* whole scan atomic to its callers, so MarkUsed and Release wait for it.  *)
(***************************************************************************)
EXTENDS IpamOps

VARIABLES
    used,     \* Allocator.used, as the set of addresses mapped to true
    next,     \* Allocator.next
    start,    \* AllocateV4's local start
    c,        \* AllocateV4's local c: the candidate, and the result on success
    pc        \* where AllocateV4 is, or how its last call returned

scanVars == <<used, next, start, c, pc>>

(* Every variable keeps its type: the cursor and the candidate stay inside *)
(* the prefix, and the cursor never points at its first address.           *)
ScanTypes ==
    /\ used \subseteq Addrs
    /\ next \in Addrs \ {0}
    /\ start \in Addrs \ {0}
    /\ c \in Addrs
    /\ pc \in {"idle", "loop", "ok", "exhausted"}

ScanInit ==
    /\ used = {}
    /\ next = 1
    /\ start = 1
    /\ c = 0
    /\ pc = "idle"

MarkUsed(a) ==
    /\ pc # "loop"
    /\ used' = used \cup {a}
    /\ pc' = "idle"
    /\ UNCHANGED <<next, start, c>>

Release(a) ==
    /\ pc # "loop"
    /\ used' = used \ {a}
    /\ pc' = "idle"
    /\ UNCHANGED <<next, start, c>>

AllocateV4 ==
    /\ pc # "loop"
    /\ start' = next
    /\ pc' = "loop"
    /\ UNCHANGED <<used, next, c>>

\* A slip: the wrap test is missing.
ScanStep_NoWrapTest ==
    /\ pc = "loop"
    /\ c' = next
    /\ next' = advance(next)
    /\ IF c' \notin used /\ ~ isReservedV4(c')
       THEN pc' = "ok" /\ used' = used \cup {c'}
       ELSE UNCHANGED <<pc, used>>
    /\ UNCHANGED start

\* One iteration of AllocateV4's for loop.
ScanStep ==
    /\ pc = "loop"
    /\ c' = next
    /\ next' = advance(next)
    /\ \/ /\ c' \notin used /\ ~ isReservedV4(c')
          /\ used' = used \cup {c'}
          /\ pc' = "ok"
       \/ /\ c' \in used \/ isReservedV4(c')
          /\ pc' = IF next' = start THEN "exhausted" ELSE "loop"
          /\ UNCHANGED used
    /\ UNCHANGED start

ScanNext ==
    \/ \E a \in Addrs : MarkUsed(a) \/ Release(a)
    \/ AllocateV4
    \/ ScanStep

ScanSpec == ScanInit /\ [][ScanNext]_scanVars

FairScan == ScanSpec /\ WF_scanVars(ScanStep)

-----------------------------------------------------------------------------
(* AllocateV4 reports "prefix exhausted" only when every host address of   *)
(* the prefix is in use: the `a.next == start' test ends the scan after a  *)
(* full cycle, neither one candidate early nor never.                      *)
ExhaustedMeansFull == pc = "exhausted" => HostAddrs \subseteq used

\* The pool as a caller sees it: the cursor moves when a call returns.
Pool == INSTANCE AddressPool WITH next <- IF pc = "loop" THEN start ELSE next

(* The scan loop implements the one-step pool the coordinator relies on:   *)
(* a successful AllocateV4 takes the first free host address at or after   *)
(* the cursor the call began with, wrapping at the end of the prefix, and  *)
(* leaves the cursor behind it; a failed one leaves both as they were.     *)
ImplementsPool == Pool!Spec

\* The addresses the running scan has left behind.
Seen(a) == IF start <= next THEN start <= a /\ a < next ELSE start <= a \/ a < next

(* The scan leaves no free host address behind: everything between the     *)
(* cursor the call began with and the present one, going round, is taken.  *)
ScanInv == pc = "loop" => \A a \in HostAddrs : Seen(a) => a \in used

(* Every call of AllocateV4 returns: the scan cannot cycle for ever.       *)
AllocateReturns == pc = "loop" ~> pc \in {"ok", "exhausted"}
=============================================================================
