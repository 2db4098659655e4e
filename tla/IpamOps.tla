------------------------------ MODULE IpamOps ------------------------------
(***************************************************************************)
(* The address arithmetic of internal/ipam.  An IPv4 prefix is the range   *)
(* of offsets 0..LastAddr from its network address: offset 0 is the        *)
(* network address and LastAddr the broadcast address.                     *)
(***************************************************************************)
EXTENDS Integers

CONSTANT LastAddr

\* ipam.New rejects prefixes longer than /30, so there are at least four
\* addresses.
ASSUME PrefixAssumption == LastAddr \in Nat /\ LastAddr >= 3

Addrs == 0 .. LastAddr

isReservedV4(c) == c = 0 \/ c = LastAddr

HostAddrs == {c \in Addrs : ~ isReservedV4(c)}

\* A slip: an address is skipped.
advance_Skip(c) == IF c + 1 \notin Addrs THEN 1 ELSE IF c + 2 \notin Addrs THEN c + 1 ELSE c + 2

advance(c) == IF c + 1 \notin Addrs THEN 1 ELSE c + 1

-----------------------------------------------------------------------------
(* The reference definition of an allocation: the free host address that   *)
(* is reached first when counting upwards from `from' and wrapping.        *)

Free(used) == HostAddrs \ used

Distance(from, a) == IF from <= a THEN a - from ELSE a - from + LastAddr

FirstFree(used, from) ==
    {a \in Free(used) : \A b \in Free(used) : Distance(from, a) <= Distance(from, b)}
=============================================================================
