------------------------- MODULE CoordinatorProofs -------------------------
(***************************************************************************)
(* The control plane is right for any number of devices, setup keys,       *)
(* hostnames, addresses and concurrent streams, with store faults and      *)
(* restarts anywhere: first the address allocator, which implements the    *)
(* pool that the coordinator draws on, then enrolment, then the netmap     *)
(* streams and the signal inboxes, whose proofs rest on the rows that      *)
(* enrolment keeps.  Only that every change is pushed needs writes that do *)
(* not fail.                                                               *)
(***************************************************************************)
EXTENDS Coordinator, Ipam, TLAPS

-----------------------------------------------------------------------------
(* The allocator: the IPAM scan is right for a prefix of any size.         *)

IInv == ScanTypes /\ ExhaustedMeansFull /\ ScanInv

(* advance() stays among the addresses of the prefix and never lands on    *)
(* the network address.                                                    *)
LEMMA AdvanceStays ==
    ASSUME NEW a \in Addrs
    PROVE  advance(a) \in Addrs \ {0}
  BY PrefixAssumption DEF advance, Addrs

(* A scan that comes back to where it started has passed every address, so *)
(* it has left no free one behind.                                         *)
LEMMA FullCycle ==
    ASSUME ScanTypes, ScanInv, pc = "loop", advance(next) = start,
           next \in used \/ isReservedV4(next)
    PROVE  HostAddrs \subseteq used
<1> SUFFICES ASSUME NEW a \in HostAddrs PROVE a \in used
  BY Zenon
<1>1. a \in Nat /\ 0 < a /\ a < LastAddr
  BY PrefixAssumption DEF HostAddrs, Addrs, isReservedV4
<1>2. a = next \/ Seen(a)
  BY <1>1, PrefixAssumption DEF ScanTypes, Addrs, advance, Seen
<1>3. a # next \/ a \in used
  BY Zenon DEF HostAddrs
<1> QED
  BY <1>2, <1>3, Zenon DEF ScanInv

(* One more candidate found taken keeps the scan's invariant.              *)
LEMMA ScanGoesOn ==
    ASSUME ScanTypes, ScanInv, pc = "loop", advance(next) # start,
           next \in used \/ isReservedV4(next), next' = advance(next),
           start' = start, used' = used
    PROVE  ScanInv'
<1> SUFFICES ASSUME NEW a \in HostAddrs, Seen(a)' PROVE a \in used
  BY Zenon DEF ScanInv
<1>1. a \in Nat /\ 0 < a /\ a < LastAddr
  BY PrefixAssumption DEF HostAddrs, Addrs, isReservedV4
<1>2. a = next \/ Seen(a)
  BY <1>1, PrefixAssumption DEF ScanTypes, Addrs, advance, Seen
<1>3. a # next \/ a \in used
  BY Zenon DEF HostAddrs
<1> QED
  BY <1>2, <1>3, Zenon DEF ScanInv

LEMMA InitIInv == ScanInit => IInv
  BY PrefixAssumption DEF ScanInit, IInv, ScanTypes, ExhaustedMeansFull, ScanInv, Addrs

LEMMA NextIInv == IInv /\ [ScanNext]_scanVars => IInv'
<1> SUFFICES ASSUME IInv, [ScanNext]_scanVars PROVE IInv'
  BY Zenon
<1> USE DEF IInv
<1>1. ASSUME NEW a \in Addrs, MarkUsed(a) PROVE IInv'
  BY <1>1, Zenon DEF MarkUsed, ScanTypes, ExhaustedMeansFull, ScanInv
<1>2. ASSUME NEW a \in Addrs, Release(a) PROVE IInv'
  BY <1>2, Zenon DEF Release, ScanTypes, ExhaustedMeansFull, ScanInv
<1>3. CASE AllocateV4
  <2>1. ScanTypes' /\ ExhaustedMeansFull'
    BY <1>3, Zenon DEF AllocateV4, ScanTypes, ExhaustedMeansFull
  <2>2. ASSUME NEW a \in HostAddrs PROVE ~ Seen(a)'
    BY <1>3, PrefixAssumption DEF AllocateV4, Seen, ScanTypes, Addrs, HostAddrs
  <2> QED
    BY <2>1, <2>2, Zenon DEF ScanInv
<1>4. CASE ScanStep
  <2>1. ScanTypes'
    BY <1>4, AdvanceStays, Zenon DEF ScanStep, ScanTypes
  <2>2. ExhaustedMeansFull'
    BY <1>4, FullCycle, Zenon DEF ScanStep, ExhaustedMeansFull
  <2>3. ScanInv'
    <3>1. CASE pc' = "loop"
      <4>1. /\ pc = "loop" /\ next' = advance(next) /\ start' = start /\ used' = used
            /\ next \in used \/ isReservedV4(next)
            /\ advance(next) # start
        BY <1>4, <3>1, Zenon DEF ScanStep
      <4> QED
        BY <4>1, ScanGoesOn, Zenon
    <3> QED
      BY <3>1, Zenon DEF ScanInv
  <2> QED
    BY <2>1, <2>2, <2>3, Zenon
<1>5. CASE UNCHANGED scanVars
  BY <1>5, Zenon DEF scanVars, ScanTypes, ExhaustedMeansFull, ScanInv, Seen
<1> QED
  BY <1>1, <1>2, <1>3, <1>4, <1>5, Zenon DEF ScanNext

(* The inductive invariant: types, exhaustion and the scan's progress.     *)
THEOREM IpamInvariant == ScanSpec => []IInv
  BY InitIInv, NextIInv, PTL DEF ScanSpec

(* The allocator's cursor, candidate and used set stay inside the prefix.  *)
THEOREM ScanTypeCorrect == ScanSpec => []ScanTypes
  BY IpamInvariant, PTL DEF IInv

(* AllocateV4 reports exhaustion only when every host address is in use,   *)
(* for a prefix of any length.                                             *)
THEOREM Exhaustion == ScanSpec => []ExhaustedMeansFull
  BY IpamInvariant, PTL DEF IInv

(* A scan that stops at a free candidate stops at the first free one.     *)
LEMMA ScanFindsFirst ==
    ASSUME IInv, pc = "loop", next \in Free(used)
    PROVE  next \in FirstFree(used, start)
<1> SUFFICES ASSUME NEW b \in Free(used)
             PROVE  Distance(start, next) <= Distance(start, b)
  BY Zenon DEF FirstFree
<1>1. ~ Seen(b)
  BY Zenon DEF IInv, ScanInv, Free
<1>2. b \in Nat /\ 0 < b /\ b < LastAddr
  BY PrefixAssumption DEF Free, HostAddrs, Addrs, isReservedV4
<1> QED
  BY <1>1, <1>2, PrefixAssumption DEF Seen, Distance, IInv, ScanTypes, Addrs

(* The pool's arithmetic is the allocator's.                               *)
LEMMA PoolOps ==
    /\ Pool!Addrs = Addrs
    /\ \A a : Pool!advance(a) = advance(a)
    /\ \A u, f : Pool!FirstFree(u, f) = FirstFree(u, f)
<1>1. Pool!Addrs = Addrs /\ \A a : Pool!isReservedV4(a) = isReservedV4(a)
  BY Zenon DEF Pool!Addrs, Addrs, Pool!isReservedV4, isReservedV4
<1>2. \A u : Pool!Free(u) = Free(u)
  BY <1>1, Zenon DEF Pool!Free, Free, Pool!HostAddrs, HostAddrs
<1>3. \A f, a : Pool!Distance(f, a) = Distance(f, a)
  BY Zenon DEF Pool!Distance, Distance
<1> QED
  BY <1>1, <1>2, <1>3, Zenon DEF Pool!FirstFree, FirstFree, Pool!advance, advance

(* Every step of the allocator is a step of the pool or leaves it alone.   *)
LEMMA StepImplements ==
    ASSUME IInv, [ScanNext]_scanVars
    PROVE  [Pool!Next]_<<used, IF pc = "loop" THEN start ELSE next>>
<1> DEFINE cursor == IF pc = "loop" THEN start ELSE next
<1>1. ASSUME NEW a \in Addrs, MarkUsed(a) PROVE Pool!MarkUsed(a)
  BY <1>1, Zenon DEF MarkUsed, Pool!MarkUsed
<1>2. ASSUME NEW a \in Addrs, Release(a) PROVE Pool!Release(a)
  BY <1>2, Zenon DEF Release, Pool!Release
<1>3. ASSUME AllocateV4 PROVE UNCHANGED <<used, cursor>>
  BY <1>3, Zenon DEF AllocateV4
<1>4. ASSUME ScanStep PROVE Pool!Allocate \/ UNCHANGED <<used, cursor>>
  <2>1. CASE pc' = "ok"
    <3>1. /\ pc = "loop" /\ next \in Free(used)
          /\ used' = used \cup {next} /\ next' = advance(next)
      BY <1>4, <2>1, Zenon DEF ScanStep, Free, HostAddrs, IInv, ScanTypes
    <3>2. next \in FirstFree(used, cursor)
      BY <3>1, ScanFindsFirst, Zenon
    <3>3. cursor' = advance(next)
      BY <2>1, <3>1, Zenon
    <3> QED
      BY <3>1, <3>2, <3>3, PoolOps, Zenon DEF Pool!Allocate
  <2>2. CASE pc' # "ok"
    BY <1>4, <2>2, Zenon DEF ScanStep
  <2> QED
    BY <2>1, <2>2, Zenon
<1>5. ASSUME UNCHANGED scanVars PROVE UNCHANGED <<used, cursor>>
  BY <1>5, Zenon DEF scanVars
<1> QED
  BY <1>1, <1>2, <1>3, <1>4, <1>5, PoolOps, Zenon DEF ScanNext, Pool!Next

(* The scan loop implements the one-step address pool, for a prefix of any *)
(* length: what the coordinator's model assumes of AllocateV4, MarkUsed    *)
(* and Release is what the loop does.                                      *)
THEOREM PoolRefinement == ScanSpec => ImplementsPool
<1>1. ScanInit => Pool!Init
  BY Zenon DEF ScanInit, Pool!Init
<1> QED
  BY <1>1, StepImplements, IpamInvariant, PTL DEF ScanSpec, ImplementsPool, Pool!Spec

-----------------------------------------------------------------------------
(* Enrolment.                                                              *)

\* What the enrolment half of the state depends on.
enrolVars == <<nodes, nextID, keys, ipam, reg, enrolled>>

\* Every row has either the address of its id or the placeholder.
IPv6Origin ==
    \A id \in DOMAIN nodes :
        nodes[id].ipv6 = V6For(id) \/ nodes[id].ipv6 = V4Placeholder(nodes[id].ipv4)

\* Register's lookup by machine key still stands when the row is inserted.
FreshMachine == reg.pc = "create" => NodeOf(reg.m) = {}

\* A single-use key that enrolled a device, or is about to, is spent; the
\* Register that is about to use it is the first.
KeySpent ==
    \A k \in SingleUse :
        /\ enrolled[k] # {} => keys[k].used
        /\ reg.pc = "create" /\ reg.k = k => keys[k].used /\ enrolled[k] = {}

EnrolInv ==
    /\ EnrolTypes
    /\ AllocatorExact
    /\ IdentitiesUnique
    /\ IPv6Origin
    /\ FreshMachine
    /\ KeySpent
    /\ SingleUseOnce

-----------------------------------------------------------------------------
(* Operators.                                                              *)

(* The two kinds of IPv6 address never coincide, and each determines what  *)
(* it was made from.                                                       *)
LEMMA V6Injective ==
    ASSUME NEW i, NEW j, NEW a, NEW b
    PROVE  /\ V6For(i) = V6For(j) => i = j
           /\ V4Placeholder(a) = V4Placeholder(b) => a = b
           /\ V6For(i) # V4Placeholder(a)
  BY Zenon DEF V6For, V4Placeholder

(* dedupeHostname returns a name no row has, made from the one asked for.  *)
LEMMA DedupeFresh ==
    ASSUME NEW h \in Names \cup {<<"node">>}, NEW name \in dedupeHostname(nodes, h)
    PROVE  name \in AllNames /\ ~ HostnameTaken(nodes, name)
<1>1. CASE ~ HostnameTaken(nodes, h)
  BY <1>1 DEF dedupeHostname, AllNames
<1>2. CASE HostnameTaken(nodes, h)
  <2>1. PICK i \in 2 .. MaxID + 1 :
          name = Append(h, i) /\ ~ HostnameTaken(nodes, Append(h, i))
    BY <1>2, Zenon DEF dedupeHostname
  <2> QED
    BY <2>1 DEF AllNames
<1> QED
  BY <1>1, <1>2, Zenon

(* Each column the handlers rewrite keeps a row a row.                     *)
LEMMA RowUpdate ==
    ASSUME NEW r \in Row
    PROVE  /\ \A nk \in NodeKeys : [r EXCEPT !.nkey = nk] \in Row
           /\ \A h \in AllNames : [r EXCEPT !.hostname = h] \in Row
           /\ \A a \in IPv6s : [r EXCEPT !.ipv6 = a] \in Row
           /\ \A ep \in Endpoints : [r EXCEPT !.endpoints = ep] \in Row
           /\ \A rts \in SUBSET Routes : [r EXCEPT !.approved = rts] \in Row
           /\ \A rts \in SUBSET Routes : [r EXCEPT !.offered = rts] \in Row
  BY Zenon DEF Row

(* The allocator a handler works with holds exactly the rows' addresses.   *)
LEMMA AllocatorSeeded ==
    ASSUME EnrolTypes, AllocatorExact
    PROVE  /\ allocatorFor(nodes) \in [loaded : BOOLEAN, used : SUBSET HostAddrs, next : Addrs \ {0}]
           /\ allocatorFor(nodes).loaded
           /\ allocatorFor(nodes).used = {nodes[id].ipv4 : id \in DOMAIN nodes}
<1>1. \A id \in DOMAIN nodes : nodes[id].ipv4 \in HostAddrs
  BY Zenon DEF EnrolTypes, Row
<1>2. 1 \in Addrs \ {0}
  BY PrefixAssumption DEF Addrs
<1> QED
  BY <1>1, <1>2, ZenonT(30) DEF allocatorFor, AllocatorExact, EnrolTypes

(* advance() stays among the addresses a cursor may have.                  *)
LEMMA AdvanceType ==
    ASSUME NEW a \in HostAddrs
    PROVE  advance(a) \in Addrs \ {0}
  BY PrefixAssumption DEF advance, Addrs, HostAddrs

(* Rows rewritten in place, keeping machine key and IPv4 address, keep     *)
(* every enrolment invariant that only reads those.                        *)
LEMMA InPlace ==
    ASSUME EnrolInv,
           DOMAIN nodes' = DOMAIN nodes,
           \A id \in DOMAIN nodes : nodes'[id].ipv4 = nodes[id].ipv4
                                 /\ nodes'[id].mkey = nodes[id].mkey,
           \A id \in DOMAIN nodes : nodes'[id].ipv6 = nodes[id].ipv6
                                 \/ nodes'[id].ipv6 = V6For(id),
           \A i, j \in DOMAIN nodes : i # j => nodes'[i].hostname # nodes'[j].hostname,
           ipam' = ipam
    PROVE  AllocatorExact' /\ IPv6Origin' /\ IdentitiesUnique'
<1>1. {nodes'[id].ipv4 : id \in DOMAIN nodes'} = {nodes[id].ipv4 : id \in DOMAIN nodes}
  BY ZenonT(30)
<1>2. AllocatorExact'
  BY <1>1, Zenon DEF EnrolInv, AllocatorExact
<1>3. IPv6Origin'
  BY Zenon DEF EnrolInv, IPv6Origin
<1>4. IdentitiesUnique'
  BY <1>3, V6Injective DEF EnrolInv, IdentitiesUnique, IPv6Origin
<1> QED
  BY <1>2, <1>3, <1>4, Zenon

-----------------------------------------------------------------------------
(* Init and the steps.                                                     *)

LEMMA InitEnrol == Init => EnrolInv
<1> SUFFICES ASSUME Init PROVE EnrolInv
  BY Zenon
<1>1. EnrolTypes
  <2>1. 1 \in Addrs \ {0}
    BY PrefixAssumption DEF Addrs
  <2> QED
    BY <2>1, CoordinatorAssumption DEF Init, EnrolTypes, NoIpam, RegState, Idle
<1>2. AllocatorExact /\ IdentitiesUnique /\ IPv6Origin
  BY DEF Init, AllocatorExact, IdentitiesUnique, IPv6Origin, NoIpam
<1>3. FreshMachine /\ KeySpent /\ SingleUseOnce
  BY CoordinatorAssumption, Zenon DEF Init, FreshMachine, KeySpent, SingleUseOnce, Idle
<1> QED
  BY <1>1, <1>2, <1>3, Zenon DEF EnrolInv

(* A step that leaves the enrolment state alone keeps its invariant.       *)
LEMMA Unenrolled ==
    ASSUME EnrolInv, UNCHANGED enrolVars
    PROVE  EnrolInv'
  BY DEF EnrolInv, enrolVars, EnrolTypes, AllocatorExact, IdentitiesUnique, IPv6Origin,
         FreshMachine, NodeOf, KeySpent, SingleUseOnce, RegState

LEMMA SetupKeySteps ==
    ASSUME EnrolInv, NEW k \in SetupKeys,
           NewSetupKey(k) \/ RevokeSetupKey(k) \/ ExpireSetupKey(k)
    PROVE  EnrolInv'
<1>1. /\ \A x \in SetupKeys : keys'[x].used = keys[x].used
      /\ keys' \in [SetupKeys -> [status : {"absent", "valid", "revoked", "expired"}, used : BOOLEAN]]
  BY DEF NewSetupKey, RevokeSetupKey, ExpireSetupKey, EnrolInv, EnrolTypes
<1>2. UNCHANGED <<nodes, nextID, ipam, reg, enrolled>>
  BY Zenon DEF NewSetupKey, RevokeSetupKey, ExpireSetupKey
<1>3. EnrolTypes'
  BY <1>1, <1>2, Zenon DEF EnrolInv, EnrolTypes, RegState
<1>4. KeySpent'
  BY <1>1, <1>2, CoordinatorAssumption, Zenon DEF EnrolInv, KeySpent
<1> QED
  BY <1>2, <1>3, <1>4 DEF EnrolInv, AllocatorExact, IdentitiesUnique, IPv6Origin,
     FreshMachine, NodeOf, SingleUseOnce

LEMMA RegisterKnownStep ==
    ASSUME EnrolInv, NEW m \in Machines, NEW nk \in NodeKeys, NEW h \in Names \cup {NoName},
           NEW rts \in SUBSET Routes, RegisterKnown(m, nk, h, rts)
    PROVE  EnrolInv'
<1>1. PICK id \in NodeOf(m) :
        /\ nodes' = [nodes EXCEPT
                ![id].nkey = nk,
                ![id].hostname = IF h # NoName /\ ~ HostnameTaken(nodes, h) THEN h ELSE @]
        /\ reg' = [pc |-> "routes", id |-> id, new |-> FALSE, rts |-> rts]
  BY Zenon DEF RegisterKnown
<1>2. UNCHANGED <<nextID, keys, ipam, enrolled>>
  BY Zenon DEF RegisterKnown
<1>3. id \in DOMAIN nodes /\ nodes[id] \in Row
  BY Zenon DEF NodeOf, EnrolInv, EnrolTypes
<1> DEFINE hn == IF h # NoName /\ ~ HostnameTaken(nodes, h) THEN h ELSE nodes[id].hostname
           row == [nodes[id] EXCEPT !.nkey = nk, !.hostname = hn]
<1>4. nodes' = [nodes EXCEPT ![id] = row]
  BY <1>1, <1>3, Zenon DEF EnrolInv, EnrolTypes, Row
<1>5. row \in Row
  <2>1. hn \in AllNames
    BY <1>3 DEF Row, AllNames
  <2> QED
    BY <2>1, <1>3, RowUpdate, Zenon
<1>6. DOMAIN nodes' = DOMAIN nodes /\ nodes' \in [DOMAIN nodes -> Row]
  BY <1>4, <1>5, Zenon DEF EnrolInv, EnrolTypes
<1>7. EnrolTypes'
  BY <1>1, <1>2, <1>3, <1>6, Zenon DEF EnrolInv, EnrolTypes, RegState
<1>8. \A i \in DOMAIN nodes : /\ nodes'[i].ipv4 = nodes[i].ipv4
                              /\ nodes'[i].mkey = nodes[i].mkey
                              /\ nodes'[i].ipv6 = nodes[i].ipv6
                              /\ nodes'[i].hostname = IF i = id THEN hn ELSE nodes[i].hostname
  BY <1>3, <1>4, Zenon DEF EnrolInv, EnrolTypes, Row
<1>9. \A i, j \in DOMAIN nodes : i # j => nodes'[i].hostname # nodes'[j].hostname
  BY <1>3, <1>8 DEF EnrolInv, IdentitiesUnique, HostnameTaken
<1>10. AllocatorExact' /\ IPv6Origin' /\ IdentitiesUnique'
  BY <1>2, <1>6, <1>8, <1>9, InPlace, Zenon
<1>11. FreshMachine' /\ KeySpent' /\ SingleUseOnce'
  BY <1>1, <1>2, Zenon DEF EnrolInv, FreshMachine, KeySpent, SingleUseOnce
<1> QED
  BY <1>7, <1>10, <1>11, Zenon DEF EnrolInv

LEMMA RegisterNewStep ==
    ASSUME EnrolInv, NEW m \in Machines, NEW k \in SetupKeys, NEW nk \in NodeKeys,
           NEW h \in Names \cup {NoName}, NEW rts \in SUBSET Routes,
           RegisterNew(m, k, nk, h, rts)
    PROVE  EnrolInv'
<1>1. /\ keys' = [keys EXCEPT ![k].used = TRUE]
      /\ reg' = [pc |-> "create", m |-> m, k |-> k, nk |-> nk, h |-> h, rts |-> rts]
      /\ UNCHANGED <<nodes, nextID, ipam, enrolled>>
      /\ nextID \in Ids /\ NodeOf(m) = {} /\ usable(k)
  BY Zenon DEF RegisterNew
<1>2. /\ keys' \in [SetupKeys -> [status : {"absent", "valid", "revoked", "expired"}, used : BOOLEAN]]
      /\ \A x \in SetupKeys : keys'[x].used = (x = k \/ keys[x].used)
  BY <1>1, ZenonT(60) DEF EnrolInv, EnrolTypes
<1>3. reg' \in RegState'
  BY <1>1, Zenon DEF RegState
<1>4. EnrolTypes'
  BY <1>1, <1>2, <1>3, Zenon DEF EnrolInv, EnrolTypes
<1>5. KeySpent'
  BY <1>1, <1>2, CoordinatorAssumption, ZenonT(30) DEF EnrolInv, KeySpent, usable
<1>6. FreshMachine'
  BY <1>1, Zenon DEF FreshMachine, NodeOf
<1> QED
  BY <1>1, <1>4, <1>5, <1>6 DEF EnrolInv, AllocatorExact, IdentitiesUnique, IPv6Origin, SingleUseOnce

LEMMA CreateNodeStep ==
    ASSUME EnrolInv, CreateNode
    PROVE  EnrolInv'
<1> DEFINE a == allocatorFor(nodes)
           base == IF reg.h = NoName THEN <<"node">> ELSE reg.h
<1>1. PICK v4 \in FirstFree(a.used, a.next), name \in dedupeHostname(nodes, base) :
        /\ ipam' = [a EXCEPT !.used = @ \cup {v4}, !.next = advance(v4)]
        /\ nodes' = With(nodes, nextID,
               [mkey |-> reg.m, nkey |-> reg.nk, hostname |-> name, ipv4 |-> v4,
                ipv6 |-> V4Placeholder(v4), endpoints |-> NoEndpoints,
                offered |-> {}, approved |-> {}])
  BY Zenon DEF CreateNode
<1>2. /\ reg.pc = "create"
      /\ nextID' = nextID + 1
      /\ enrolled' = [enrolled EXCEPT ![reg.k] = @ \cup {nextID}]
      /\ reg' = [pc |-> "ipv6", id |-> nextID, new |-> TRUE, rts |-> reg.rts]
      /\ keys' = keys
  BY Zenon DEF CreateNode
<1>3. reg \in [pc : {"create"}, m : Machines, k : SetupKeys, nk : NodeKeys,
               h : Names \cup {NoName}, rts : SUBSET Routes]
  BY <1>2 DEF EnrolInv, EnrolTypes, RegState, Idle
<1>4. nextID \in Ids /\ nextID \notin DOMAIN nodes /\ nextID \in Nat
  BY <1>2, CoordinatorAssumption DEF EnrolInv, EnrolTypes, Ids
<1>5. v4 \in HostAddrs /\ v4 \notin {nodes[id].ipv4 : id \in DOMAIN nodes}
  BY AllocatorSeeded, Zenon DEF FirstFree, Free, EnrolInv
<1>6. name \in AllNames /\ ~ HostnameTaken(nodes, name)
  BY <1>3, DedupeFresh, Zenon
<1>7. /\ DOMAIN nodes' = DOMAIN nodes \cup {nextID}
      /\ \A id \in DOMAIN nodes : nodes'[id] = nodes[id]
      /\ nodes'[nextID] = [mkey |-> reg.m, nkey |-> reg.nk, hostname |-> name, ipv4 |-> v4,
                ipv6 |-> V4Placeholder(v4), endpoints |-> NoEndpoints,
                offered |-> {}, approved |-> {}]
  BY <1>1, <1>4, Zenon DEF With
<1>8. nodes'[nextID] \in Row
  BY <1>3, <1>5, <1>6, <1>7 DEF Row, IPv6s
<1>9. /\ ipam' \in [loaded : BOOLEAN, used : SUBSET HostAddrs, next : Addrs \ {0}]
      /\ ipam'.used = {nodes[id].ipv4 : id \in DOMAIN nodes} \cup {v4}
  BY <1>1, <1>5, AllocatorSeeded, AdvanceType, Zenon DEF EnrolInv
<1>10. EnrolTypes'
  <2>1. nextID' \in 1 .. MaxID + 1 /\ DOMAIN nodes' \subseteq 1 .. nextID' - 1
    BY <1>2, <1>4, <1>7, CoordinatorAssumption DEF EnrolInv, EnrolTypes, Ids
  <2>2. nodes' \in [DOMAIN nodes' -> Row]
    BY <1>1, <1>7, <1>8, Zenon DEF EnrolInv, EnrolTypes, With
  <2>3. reg' \in RegState' /\ reg'.pc # "create"
    BY <1>2, <1>3, <1>7, Zenon DEF RegState
  <2>4. enrolled' \in [SetupKeys -> SUBSET (1 .. nextID' - 1)]
    <3>1. 1 .. nextID' - 1 = (1 .. nextID - 1) \cup {nextID}
      <4>1. nextID \in Nat /\ nextID >= 1 /\ nextID' - 1 = nextID
        BY <1>2, <1>4, CoordinatorAssumption DEF Ids
      <4>2. 1 .. nextID = (1 .. nextID - 1) \cup {nextID}
        BY <4>1
      <4> QED
        BY <4>1, <4>2, Zenon
    <3>2. enrolled \in [SetupKeys -> SUBSET (1 .. nextID - 1)]
      BY Zenon DEF EnrolInv, EnrolTypes
    <3>3. \A k \in SetupKeys : enrolled'[k] \in SUBSET ((1 .. nextID - 1) \cup {nextID})
      BY <1>2, <3>2, Zenon
    <3> QED
      BY <1>2, <3>1, <3>2, <3>3, Zenon
  <2> QED
    BY <2>1, <2>2, <2>3, <2>4, <1>2, <1>9, Zenon DEF EnrolInv, EnrolTypes
<1>11. AllocatorExact'
  BY <1>7, <1>9 DEF AllocatorExact
<1>12. IPv6Origin'
  BY <1>7 DEF EnrolInv, IPv6Origin
<1>13. IdentitiesUnique'
  <2> SUFFICES ASSUME NEW i \in DOMAIN nodes
               PROVE  /\ nodes[i].ipv4 # v4
                      /\ nodes[i].ipv6 # V4Placeholder(v4)
                      /\ nodes[i].hostname # name
                      /\ nodes[i].mkey # reg.m
    BY <1>4, <1>7 DEF EnrolInv, IdentitiesUnique
  <2>1. nodes[i].ipv4 # v4
    BY <1>5, Zenon
  <2>2. nodes[i].ipv6 # V4Placeholder(v4)
    BY <2>1, V6Injective, ZenonT(30) DEF EnrolInv, IPv6Origin
  <2>3. nodes[i].hostname # name /\ nodes[i].mkey # reg.m
    BY <1>2, <1>6, Zenon DEF EnrolInv, FreshMachine, NodeOf, HostnameTaken
  <2> QED
    BY <2>1, <2>2, <2>3, Zenon
<1>14. FreshMachine'
  BY <1>2, Zenon DEF FreshMachine
<1>15. KeySpent' /\ SingleUseOnce'
  BY <1>2, <1>3, CoordinatorAssumption DEF EnrolInv, EnrolTypes, KeySpent, SingleUseOnce
<1> QED
  BY <1>10, <1>11, <1>12, <1>13, <1>14, <1>15, Zenon DEF EnrolInv

LEMMA EnrolFailureSteps ==
    ASSUME EnrolInv, PrefixExhausted \/ CreateNodeFails \/ RegisterFails
    PROVE  EnrolInv'
<1>1. UNCHANGED <<nodes, nextID, keys, enrolled>> /\ reg' = Idle
  BY Zenon DEF PrefixExhausted, CreateNodeFails, RegisterFails, durable
<1>2. /\ ipam' \in [loaded : BOOLEAN, used : SUBSET HostAddrs, next : Addrs \ {0}]
      /\ ipam'.loaded => ipam'.used = {nodes[id].ipv4 : id \in DOMAIN nodes}
  <2>1. CASE PrefixExhausted
    BY <2>1, AllocatorSeeded, Zenon DEF PrefixExhausted, EnrolInv
  <2>2. CASE CreateNodeFails
    BY <2>2, AllocatorSeeded, AdvanceType, Zenon DEF CreateNodeFails, EnrolInv, FirstFree, Free
  <2>3. CASE RegisterFails
    BY <2>3, Zenon DEF RegisterFails, EnrolInv, EnrolTypes, AllocatorExact
  <2> QED
    BY <2>1, <2>2, <2>3, Zenon
<1>3. EnrolTypes'
  BY <1>1, <1>2, Zenon DEF EnrolInv, EnrolTypes, RegState, Idle
<1>4. AllocatorExact' /\ IdentitiesUnique' /\ IPv6Origin'
  <2>1. AllocatorExact'
    BY <1>1, <1>2, Zenon DEF AllocatorExact
  <2>2. IdentitiesUnique' /\ IPv6Origin'
    BY <1>1 DEF EnrolInv, IdentitiesUnique, IPv6Origin
  <2> QED
    BY <2>1, <2>2, Zenon
<1>5. FreshMachine' /\ KeySpent' /\ SingleUseOnce'
  BY <1>1, Zenon DEF EnrolInv, FreshMachine, KeySpent, SingleUseOnce, Idle
<1> QED
  BY <1>3, <1>4, <1>5, Zenon DEF EnrolInv

(* Rewriting one row and nothing else of the enrolment state.              *)
LEMMA RowStep ==
    ASSUME EnrolInv, NEW id \in DOMAIN nodes, NEW row \in Row,
           nodes' = [nodes EXCEPT ![id] = row],
           row.mkey = nodes[id].mkey, row.ipv4 = nodes[id].ipv4,
           row.hostname = nodes[id].hostname,
           row.ipv6 = nodes[id].ipv6 \/ row.ipv6 = V6For(id),
           UNCHANGED <<nextID, keys, ipam, enrolled>>,
           reg' \in RegState, reg'.pc # "create"
    PROVE  EnrolInv'
<1>1. DOMAIN nodes' = DOMAIN nodes /\ nodes' \in [DOMAIN nodes -> Row]
  BY Zenon DEF EnrolInv, EnrolTypes
<1>2. EnrolTypes'
  BY <1>1, Zenon DEF EnrolInv, EnrolTypes, RegState
<1>3. \A i \in DOMAIN nodes : /\ nodes'[i].ipv4 = nodes[i].ipv4
                              /\ nodes'[i].mkey = nodes[i].mkey
                              /\ nodes'[i].ipv6 = nodes[i].ipv6 \/ nodes'[i].ipv6 = V6For(i)
                              /\ nodes'[i].hostname = nodes[i].hostname
  BY Zenon DEF EnrolInv, EnrolTypes
<1>4. \A i, j \in DOMAIN nodes : i # j => nodes'[i].hostname # nodes'[j].hostname
  BY <1>3 DEF EnrolInv, IdentitiesUnique
<1>5. AllocatorExact' /\ IPv6Origin' /\ IdentitiesUnique'
  BY <1>1, <1>3, <1>4, InPlace, Zenon
<1>6. FreshMachine' /\ KeySpent' /\ SingleUseOnce'
  BY Zenon DEF EnrolInv, FreshMachine, KeySpent, SingleUseOnce
<1> QED
  BY <1>2, <1>5, <1>6, Zenon DEF EnrolInv

(* While Register is at its later writes, the row it works on is there.    *)
LEMMA RegRow ==
    ASSUME EnrolTypes, reg.pc \in {"ipv6", "routes"}
    PROVE  reg.id \in DOMAIN nodes /\ nodes[reg.id] \in Row /\ reg.rts \in SUBSET Routes
  BY DEF EnrolTypes, RegState, Idle

LEMMA UpdateNodeIPv6Step ==
    ASSUME EnrolInv, UpdateNodeIPv6
    PROVE  EnrolInv'
<1> DEFINE row == [nodes[reg.id] EXCEPT !.ipv6 = V6For(reg.id)]
<1>1. reg.pc = "ipv6" /\ reg.id \in DOMAIN nodes /\ nodes[reg.id] \in Row /\ reg.rts \in SUBSET Routes
  BY RegRow, Zenon DEF UpdateNodeIPv6, EnrolInv
<1>2. V6For(reg.id) \in IPv6s
  BY <1>1, CoordinatorAssumption DEF IPv6s, Ids, EnrolInv, EnrolTypes
<1>3. row \in Row
  BY <1>1, <1>2, RowUpdate, Zenon
<1>4. nodes' = [nodes EXCEPT ![reg.id] = row]
  BY Zenon DEF UpdateNodeIPv6
<1>5. reg' \in RegState /\ reg'.pc # "create"
  <2>1. reg \in [pc : {"ipv6", "routes"}, id : DOMAIN nodes, new : BOOLEAN, rts : SUBSET Routes]
    BY <1>1 DEF EnrolInv, EnrolTypes, RegState, Idle
  <2>2. reg' = [reg EXCEPT !.pc = "routes"]
    BY Zenon DEF UpdateNodeIPv6
  <2> QED
    BY <2>1, <2>2, Zenon DEF RegState
<1>6. /\ row.mkey = nodes[reg.id].mkey /\ row.ipv4 = nodes[reg.id].ipv4
      /\ row.hostname = nodes[reg.id].hostname /\ row.ipv6 = V6For(reg.id)
  BY <1>1, Zenon DEF Row
<1>7. UNCHANGED <<nextID, keys, ipam, enrolled>>
  BY Zenon DEF UpdateNodeIPv6
<1> HIDE DEF row
<1> QED
  BY <1>1, <1>3, <1>4, <1>5, <1>6, <1>7, RowStep, Zenon

LEMMA FinishRegisterStep ==
    ASSUME EnrolInv, FinishRegister
    PROVE  EnrolInv'
<1> DEFINE row == SetAdvertisedRoutes(nodes[reg.id], reg.rts)
<1>1. reg.pc = "routes" /\ reg.id \in DOMAIN nodes /\ nodes[reg.id] \in Row /\ reg.rts \in SUBSET Routes
  BY RegRow, Zenon DEF FinishRegister, EnrolInv
<1>2. row \in Row
  BY <1>1, Zenon DEF SetAdvertisedRoutes, Row
<1>3. nodes' = [nodes EXCEPT ![reg.id] = row]
  BY Zenon DEF FinishRegister
<1>4. reg' \in RegState /\ reg'.pc # "create"
  BY Zenon DEF FinishRegister, RegState, Idle
<1>5. /\ row.mkey = nodes[reg.id].mkey /\ row.ipv4 = nodes[reg.id].ipv4
      /\ row.hostname = nodes[reg.id].hostname /\ row.ipv6 = nodes[reg.id].ipv6
  BY <1>1, Zenon DEF Row, SetAdvertisedRoutes
<1>6. UNCHANGED <<nextID, keys, ipam, enrolled>>
  BY Zenon DEF FinishRegister
<1> HIDE DEF row
<1> QED
  BY <1>1, <1>2, <1>3, <1>4, <1>5, <1>6, RowStep, Zenon

LEMMA UpdateEndpointsStep ==
    ASSUME EnrolInv, NEW m \in Machines, NEW ep \in Endpoints, UpdateEndpoints(m, ep)
    PROVE  EnrolInv'
<1>1. PICK id \in NodeOf(m) : nodes' = [nodes EXCEPT ![id].endpoints = ep]
  BY Zenon DEF UpdateEndpoints
<1> DEFINE row == [nodes[id] EXCEPT !.endpoints = ep]
<1>2. id \in DOMAIN nodes /\ nodes[id] \in Row
  BY Zenon DEF NodeOf, EnrolInv, EnrolTypes
<1>3. row \in Row
  BY <1>2, RowUpdate, Zenon
<1>4. nodes' = [nodes EXCEPT ![id] = row]
  BY <1>1, Zenon
<1>5. reg' \in RegState /\ reg'.pc # "create"
  BY Zenon DEF UpdateEndpoints, RegState, Idle
<1>6. /\ row.mkey = nodes[id].mkey /\ row.ipv4 = nodes[id].ipv4
      /\ row.hostname = nodes[id].hostname /\ row.ipv6 = nodes[id].ipv6
  BY <1>2, Zenon DEF Row
<1>7. UNCHANGED <<nextID, keys, ipam, enrolled>>
  BY Zenon DEF UpdateEndpoints
<1> HIDE DEF row
<1> QED
  BY <1>2, <1>3, <1>4, <1>5, <1>6, <1>7, RowStep, Zenon

LEMMA SetRouteApprovedStep ==
    ASSUME EnrolInv, NEW id \in Ids, NEW r \in Routes, NEW b \in BOOLEAN, SetRouteApproved(id, r, b)
    PROVE  EnrolInv'
<1> DEFINE rts == IF b THEN nodes[id].approved \cup {r} ELSE nodes[id].approved \ {r}
           row == [nodes[id] EXCEPT !.approved = rts]
<1>1. id \in DOMAIN nodes /\ nodes[id] \in Row
  BY Zenon DEF SetRouteApproved, EnrolInv, EnrolTypes
<1>2. rts \in SUBSET Routes
  BY <1>1, Zenon DEF Row
<1>3. nodes' = [nodes EXCEPT ![id] = row]
  BY Zenon DEF SetRouteApproved
<1> HIDE DEF rts
<1>4. row \in Row
  BY <1>1, <1>2, RowUpdate, Zenon
<1>5. reg' \in RegState /\ reg'.pc # "create"
  BY Zenon DEF SetRouteApproved, RegState, Idle
<1>6. /\ row.mkey = nodes[id].mkey /\ row.ipv4 = nodes[id].ipv4
      /\ row.hostname = nodes[id].hostname /\ row.ipv6 = nodes[id].ipv6
  BY <1>1, Zenon DEF Row
<1>7. UNCHANGED <<nextID, keys, ipam, enrolled>>
  BY Zenon DEF SetRouteApproved
<1> HIDE DEF row
<1> QED
  BY <1>1, <1>3, <1>4, <1>5, <1>6, <1>7, RowStep, Zenon

LEMMA DeleteNodeStep ==
    ASSUME EnrolInv, NEW id \in Ids, DeleteNode(id)
    PROVE  EnrolInv'
<1>1. /\ id \in DOMAIN nodes /\ nodes' = Without(nodes, id)
      /\ reg = Idle
      /\ UNCHANGED <<nextID, keys, reg, enrolled>>
      /\ ipam' = [allocatorFor(nodes') EXCEPT !.used = @ \ {nodes[id].ipv4}]
  BY Zenon DEF DeleteNode
<1>2. /\ DOMAIN nodes' = DOMAIN nodes \ {id}
      /\ \A i \in DOMAIN nodes' : nodes'[i] = nodes[i]
      /\ nodes' \in [DOMAIN nodes' -> Row]
  BY <1>1, Zenon DEF Without, EnrolInv, EnrolTypes
<1>3. {nodes'[i].ipv4 : i \in DOMAIN nodes'} = {nodes[i].ipv4 : i \in DOMAIN nodes} \ {nodes[id].ipv4}
  <2>1. \A i \in DOMAIN nodes' : nodes[i].ipv4 # nodes[id].ipv4
    BY <1>1, <1>2, Zenon DEF EnrolInv, IdentitiesUnique
  <2> QED
    BY <1>1, <1>2, <2>1
<1>4. \A i \in DOMAIN nodes' : nodes'[i].ipv4 \in HostAddrs
  BY <1>2, Zenon DEF Row
<1>5. 1 \in Addrs \ {0}
  BY PrefixAssumption DEF Addrs
<1>6. /\ ipam' \in [loaded : BOOLEAN, used : SUBSET HostAddrs, next : Addrs \ {0}]
      /\ ipam'.used = {nodes'[i].ipv4 : i \in DOMAIN nodes'}
  <2>1. CASE ipam.loaded
    BY <1>1, <1>3, <2>1, Zenon DEF allocatorFor, EnrolInv, EnrolTypes, AllocatorExact
  <2>2. CASE ~ ipam.loaded
    <3> DEFINE U == {nodes'[i].ipv4 : i \in DOMAIN nodes'}
    <3>1. U \in SUBSET HostAddrs
      BY <1>4, Zenon
    <3>2. U \ {nodes[id].ipv4} = U
      BY <1>3, Zenon
    <3>3. allocatorFor(nodes') = [loaded |-> TRUE, used |-> U, next |-> 1]
      BY <2>2, Zenon DEF allocatorFor
    <3> HIDE DEF U
    <3>4. ipam' = [loaded |-> TRUE, used |-> U, next |-> 1]
      <4> DEFINE A == allocatorFor(nodes')
      <4>1. A = [loaded |-> TRUE, used |-> U, next |-> 1] /\ A.used = U
        BY <3>3
      <4>2. ipam' = [A EXCEPT !.used = A.used \ {nodes[id].ipv4}]
        BY <1>1, Zenon
      <4>3. ipam' = [A EXCEPT !.used = U]
        BY <3>2, <4>1, <4>2, Zenon
      <4> HIDE DEF A
      <4> QED
        BY <4>1, <4>3, Zenon
    <3> QED
      BY <3>1, <3>4, <1>5, Zenon DEF U
  <2> QED
    BY <2>1, <2>2, Zenon
<1>7. EnrolTypes'
  BY <1>1, <1>2, <1>6, Zenon DEF EnrolInv, EnrolTypes, RegState, Idle
<1>8. AllocatorExact'
  BY <1>6, Zenon DEF AllocatorExact
<1>9. IPv6Origin' /\ IdentitiesUnique'
  BY <1>1, <1>2 DEF EnrolInv, IPv6Origin, IdentitiesUnique
<1>10. FreshMachine' /\ KeySpent' /\ SingleUseOnce'
  BY <1>1, Zenon DEF EnrolInv, FreshMachine, KeySpent, SingleUseOnce, Idle
<1> QED
  BY <1>7, <1>8, <1>9, <1>10, Zenon DEF EnrolInv

LEMMA RestartStep ==
    ASSUME EnrolInv, Restart
    PROVE  EnrolInv'
<1>1. UNCHANGED <<nodes, nextID, keys, enrolled>> /\ ipam' = NoIpam /\ reg' = Idle
  BY Zenon DEF Restart, durable
<1>2. 1 \in Addrs \ {0}
  BY PrefixAssumption DEF Addrs
<1>3. EnrolTypes'
  BY <1>1, <1>2, Zenon DEF EnrolInv, EnrolTypes, RegState, Idle, NoIpam
<1>4. AllocatorExact'
  BY <1>1, Zenon DEF AllocatorExact, NoIpam
<1>5. IdentitiesUnique' /\ IPv6Origin'
  BY <1>1 DEF EnrolInv, IdentitiesUnique, IPv6Origin
<1>6. FreshMachine' /\ KeySpent' /\ SingleUseOnce'
  BY <1>1, Zenon DEF EnrolInv, FreshMachine, KeySpent, SingleUseOnce, Idle
<1> QED
  BY <1>3, <1>4, <1>5, <1>6, Zenon DEF EnrolInv

(* The netmap, signal and rule handlers leave the enrolment state alone.   *)
LEMMA OtherSteps ==
    ASSUME \/ \E rules \in ACLs \cup {NoACL} : SetACL(rules)
           \/ ACLChanged
           \/ \E m \in Machines, s \in Streams : Subscribe(m, s)
           \/ \E s \in Streams : SendNetMap(s) \/ StreamGone(s) \/ StreamRemoved(s)
           \/ \E m \in Machines, s \in SigStreams : signalSubscribe(m, s)
           \/ \E s \in SigStreams, to \in Ids : routeSignal(s, to)
           \/ \E s \in SigStreams : SendSignal(s) \/ SignalGone(s)
           \/ UNCHANGED vars
    PROVE  UNCHANGED enrolVars
<1> USE DEF enrolVars, durable
<1>1. ASSUME NEW rules \in ACLs \cup {NoACL}, SetACL(rules) PROVE UNCHANGED enrolVars
  BY <1>1, Zenon DEF SetACL
<1>2. ASSUME ACLChanged PROVE UNCHANGED enrolVars
  BY <1>2, Zenon DEF ACLChanged
<1>3. ASSUME NEW m \in Machines, NEW s \in Streams, Subscribe(m, s) PROVE UNCHANGED enrolVars
  BY <1>3, Zenon DEF Subscribe
<1>4. ASSUME NEW s \in Streams, SendNetMap(s) PROVE UNCHANGED enrolVars
  BY <1>4, Zenon DEF SendNetMap
<1>5. ASSUME NEW s \in Streams, StreamGone(s) \/ StreamRemoved(s) PROVE UNCHANGED enrolVars
  BY <1>5, Zenon DEF StreamGone, StreamRemoved, unsub
<1>6. ASSUME NEW m \in Machines, NEW s \in SigStreams, signalSubscribe(m, s) PROVE UNCHANGED enrolVars
  BY <1>6, Zenon DEF signalSubscribe
<1>7. ASSUME NEW s \in SigStreams, NEW to \in Ids, routeSignal(s, to) PROVE UNCHANGED enrolVars
  BY <1>7, Zenon DEF routeSignal
<1>8. ASSUME NEW s \in SigStreams, SendSignal(s) \/ SignalGone(s) PROVE UNCHANGED enrolVars
  BY <1>8, Zenon DEF SendSignal, SignalGone
<1>9. ASSUME UNCHANGED vars PROVE UNCHANGED enrolVars
  BY <1>9, Zenon DEF vars
<1> QED
  BY <1>1, <1>2, <1>3, <1>4, <1>5, <1>6, <1>7, <1>8, <1>9, Zenon

LEMMA NextEnrol == EnrolInv /\ [Next]_vars => EnrolInv'
<1> SUFFICES ASSUME EnrolInv, [Next]_vars PROVE EnrolInv'
  BY Zenon
<1> QED
  BY SetupKeySteps, RegisterKnownStep, RegisterNewStep, CreateNodeStep, EnrolFailureSteps,
     UpdateNodeIPv6Step, FinishRegisterStep, UpdateEndpointsStep, SetRouteApprovedStep,
     DeleteNodeStep, RestartStep, OtherSteps, Unenrolled, Zenon DEF Next

(* The inductive invariant of enrolment.                                   *)
THEOREM EnrolInvariant == Spec => []EnrolInv
  BY InitEnrol, NextEnrol, PTL DEF Spec

(* No two devices ever share an address, a hostname or a machine key,      *)
(* through any interleaving of Register, DeleteNode, faults and restarts.  *)
THEOREM Identities == Spec => []IdentitiesUnique
  BY EnrolInvariant, PTL DEF EnrolInv

(* The allocator neither leaks an address nor frees one that is assigned.  *)
THEOREM Allocator == Spec => []AllocatorExact
  BY EnrolInvariant, PTL DEF EnrolInv

(* A single-use setup key enrols at most one device, ever.                 *)
THEOREM SingleUseKeys == Spec => []SingleUseOnce
  BY EnrolInvariant, PTL DEF EnrolInv

-----------------------------------------------------------------------------
(* Approvals.                                                              *)

\* Only what a device offers is approved.
ApprovedOffered == \A id \in DOMAIN nodes : nodes[id].approved \subseteq nodes[id].offered

\* What a step does to the routes of a device that has a row after it.
RouteStep(id) ==
    \/ /\ id \in DOMAIN nodes
       /\ nodes'[id].approved = nodes[id].approved /\ nodes'[id].offered = nodes[id].offered
    \/ id \in DOMAIN nodes /\ nodes'[id].approved = nodes[id].approved \cap nodes'[id].offered
    \/ id \notin DOMAIN nodes /\ nodes'[id].approved = {}
    \/ /\ \E r \in Routes, b \in BOOLEAN : SetRouteApproved(id, r, b)
       /\ nodes'[id].approved \subseteq nodes'[id].offered

(* A handler that writes one row.                                          *)
LEMMA OneRow ==
    ASSUME EnrolTypes, NEW i \in DOMAIN nodes, NEW row, nodes' = [nodes EXCEPT ![i] = row],
           \/ row.approved = nodes[i].approved /\ row.offered = nodes[i].offered
           \/ row.approved = nodes[i].approved \cap row.offered
    PROVE  \A id \in DOMAIN nodes' : RouteStep(id)
<1>1. DOMAIN nodes' = DOMAIN nodes
  BY Zenon
<1>2. nodes'[i] = row /\ \A j \in DOMAIN nodes : j # i => nodes'[j] = nodes[j]
  BY Zenon DEF EnrolTypes
<1> QED
  BY <1>1, <1>2, Zenon DEF RouteStep

LEMMA RouteSteps ==
    ASSUME EnrolInv, ApprovedOffered, [Next]_vars
    PROVE  \A id \in DOMAIN nodes' : RouteStep(id)
<1> DEFINE Goal == \A id \in DOMAIN nodes' : RouteStep(id)
<1>1. EnrolTypes /\ \A i \in DOMAIN nodes : nodes[i] \in Row
  BY Zenon DEF EnrolInv, EnrolTypes
<1>2. ASSUME UNCHANGED nodes PROVE Goal
  BY <1>2, Zenon DEF RouteStep
<1>3. ASSUME NEW m \in Machines, NEW nk \in NodeKeys, NEW h \in Names \cup {NoName},
             NEW rts \in SUBSET Routes, RegisterKnown(m, nk, h, rts)
      PROVE  Goal
  <2>1. PICK id \in NodeOf(m) :
          nodes' = [nodes EXCEPT ![id].nkey = nk,
              ![id].hostname = IF h # NoName /\ ~ HostnameTaken(nodes, h) THEN h ELSE @]
    BY <1>3, Zenon DEF RegisterKnown
  <2>2. id \in DOMAIN nodes /\ nodes[id] \in Row
    BY <1>1, Zenon DEF NodeOf
  <2> DEFINE hn == IF h # NoName /\ ~ HostnameTaken(nodes, h) THEN h ELSE nodes[id].hostname
             row == [nodes[id] EXCEPT !.nkey = nk, !.hostname = hn]
  <2>3. nodes' = [nodes EXCEPT ![id] = row]
    BY <2>1, <2>2, <1>1, Zenon DEF EnrolTypes, Row
  <2>4. row.approved = nodes[id].approved /\ row.offered = nodes[id].offered
    BY <2>2, Zenon DEF Row
  <2> HIDE DEF row
  <2> QED
    BY <1>1, <2>2, <2>3, <2>4, OneRow, Zenon
<1>4. CASE CreateNode
  <2>1. PICK v4, name :
          nodes' = With(nodes, nextID,
                [mkey |-> reg.m, nkey |-> reg.nk, hostname |-> name, ipv4 |-> v4,
                 ipv6 |-> V4Placeholder(v4), endpoints |-> NoEndpoints,
                 offered |-> {}, approved |-> {}])
    BY <1>4, Zenon DEF CreateNode
  <2>2. nextID \notin DOMAIN nodes
    BY <1>1, CoordinatorAssumption DEF EnrolTypes
  <2>3. /\ DOMAIN nodes' = DOMAIN nodes \cup {nextID} /\ nodes'[nextID].approved = {}
        /\ \A i \in DOMAIN nodes : nodes'[i] = nodes[i]
    BY <2>1, <2>2, Zenon DEF With
  <2> QED
    BY <2>2, <2>3, Zenon DEF RouteStep
<1>5. CASE UpdateNodeIPv6
  <2> DEFINE row == [nodes[reg.id] EXCEPT !.ipv6 = V6For(reg.id)]
  <2>1. reg.id \in DOMAIN nodes /\ nodes[reg.id] \in Row
    BY <1>1, <1>5, RegRow, Zenon DEF UpdateNodeIPv6
  <2>2. nodes' = [nodes EXCEPT ![reg.id] = row]
    BY <1>5, Zenon DEF UpdateNodeIPv6
  <2>3. row.approved = nodes[reg.id].approved /\ row.offered = nodes[reg.id].offered
    BY <2>1, Zenon DEF Row
  <2> HIDE DEF row
  <2> QED
    BY <1>1, <2>1, <2>2, <2>3, OneRow, Zenon
<1>6. CASE FinishRegister
  <2> DEFINE row == SetAdvertisedRoutes(nodes[reg.id], reg.rts)
  <2>1. reg.id \in DOMAIN nodes /\ nodes[reg.id] \in Row
    BY <1>1, <1>6, RegRow, Zenon DEF FinishRegister
  <2>2. nodes' = [nodes EXCEPT ![reg.id] = row]
    BY <1>6, Zenon DEF FinishRegister
  <2>3. row.approved = nodes[reg.id].approved \cap row.offered
    BY <2>1, Zenon DEF Row, SetAdvertisedRoutes
  <2> HIDE DEF row
  <2> QED
    BY <1>1, <2>1, <2>2, <2>3, OneRow, Zenon
<1>7. ASSUME NEW m \in Machines, NEW ep \in Endpoints, UpdateEndpoints(m, ep) PROVE Goal
  <2>1. PICK id \in NodeOf(m) : nodes' = [nodes EXCEPT ![id].endpoints = ep]
    BY <1>7, Zenon DEF UpdateEndpoints
  <2> DEFINE row == [nodes[id] EXCEPT !.endpoints = ep]
  <2>2. id \in DOMAIN nodes /\ nodes[id] \in Row
    BY <1>1, Zenon DEF NodeOf
  <2>3. nodes' = [nodes EXCEPT ![id] = row]
    BY <2>1, Zenon
  <2>4. row.approved = nodes[id].approved /\ row.offered = nodes[id].offered
    BY <2>2, Zenon DEF Row
  <2> HIDE DEF row
  <2> QED
    BY <1>1, <2>2, <2>3, <2>4, OneRow, Zenon
<1>8. ASSUME NEW i \in Ids, NEW r \in Routes, NEW b \in BOOLEAN, SetRouteApproved(i, r, b) PROVE Goal
  <2> DEFINE rts == IF b THEN nodes[i].approved \cup {r} ELSE nodes[i].approved \ {r}
             row == [nodes[i] EXCEPT !.approved = rts]
  <2>1. i \in DOMAIN nodes /\ nodes[i] \in Row /\ r \in nodes[i].offered
    BY <1>1, <1>8, Zenon DEF SetRouteApproved
  <2>2. nodes' = [nodes EXCEPT ![i] = row]
    BY <1>8, Zenon DEF SetRouteApproved
  <2>3. rts \subseteq nodes[i].offered
    BY <2>1, Zenon DEF ApprovedOffered
  <2> HIDE DEF rts
  <2>4. row.approved = rts /\ row.offered = nodes[i].offered
    BY <2>1, Zenon DEF Row
  <2> HIDE DEF row
  <2>5. DOMAIN nodes' = DOMAIN nodes
    BY <2>2, Zenon
  <2>6. nodes'[i] = row /\ \A j \in DOMAIN nodes : j # i => nodes'[j] = nodes[j]
    BY <1>1, <2>1, <2>2, Zenon DEF EnrolTypes
  <2>7. RouteStep(i)
    BY <1>8, <2>3, <2>4, <2>6, Zenon DEF RouteStep
  <2> QED
    BY <2>5, <2>6, <2>7, Zenon DEF RouteStep
<1>9. ASSUME NEW i \in Ids, DeleteNode(i) PROVE Goal
  <2>1. nodes' = Without(nodes, i)
    BY <1>9, Zenon DEF DeleteNode
  <2>2. DOMAIN nodes' \subseteq DOMAIN nodes /\ \A j \in DOMAIN nodes' : nodes'[j] = nodes[j]
    BY <2>1, Zenon DEF Without
  <2> QED
    BY <2>2, Zenon DEF RouteStep
<1>10. \/ UNCHANGED nodes
       \/ \E m \in Machines, nk \in NodeKeys, h \in Names \cup {NoName}, rts \in SUBSET Routes :
             RegisterKnown(m, nk, h, rts)
       \/ CreateNode \/ UpdateNodeIPv6 \/ FinishRegister
       \/ \E m \in Machines, ep \in Endpoints : UpdateEndpoints(m, ep)
       \/ \E id \in Ids, r \in Routes, b \in BOOLEAN : SetRouteApproved(id, r, b)
       \/ \E id \in Ids : DeleteNode(id)
  BY Zenon DEF Next, vars, durable, NewSetupKey, RevokeSetupKey, ExpireSetupKey, RegisterNew,
         PrefixExhausted, CreateNodeFails, RegisterFails, SetACL, ACLChanged, Subscribe, SendNetMap,
         StreamGone, StreamRemoved, unsub, signalSubscribe, routeSignal, SendSignal, SignalGone, Restart
<1> HIDE DEF Goal
<1> QED
  BY <1>2, <1>3, <1>4, <1>5, <1>6, <1>7, <1>8, <1>9, <1>10, Zenon DEF Goal

LEMMA NextApproved == EnrolInv /\ ApprovedOffered /\ [Next]_vars => ApprovedOffered'
  BY RouteSteps, Zenon DEF ApprovedOffered, RouteStep

(* An approval stays with its device and route until an admin changes it   *)
(* or the device stops offering the route, and a deleted device's          *)
(* approvals are gone, with store faults and restarts anywhere.            *)
THEOREM ApprovalsStay == Spec => ApprovalRemembered
<1> DEFINE A(id) ==
      LET before == IF id \in DOMAIN nodes THEN nodes[id].approved ELSE {} IN
      \/ nodes'[id].approved = before \cap nodes'[id].offered
      \/ \E r \in Routes, b \in BOOLEAN : SetRouteApproved(id, r, b)
<1>1. Init => EnrolInv /\ ApprovedOffered
  BY InitEnrol DEF Init, ApprovedOffered
<1>2. EnrolInv /\ ApprovedOffered /\ [Next]_vars => EnrolInv' /\ ApprovedOffered'
  BY NextEnrol, NextApproved, Zenon
<1>3. EnrolInv /\ ApprovedOffered /\ [Next]_vars => [\A id \in DOMAIN nodes' : A(id)]_vars
  <2> SUFFICES ASSUME EnrolInv, ApprovedOffered, [Next]_vars, NEW id \in DOMAIN nodes' PROVE A(id)
    BY Zenon
  <2>1. RouteStep(id)
    BY RouteSteps, Zenon
  <2> QED
    BY <2>1, Zenon DEF RouteStep, ApprovedOffered
<1> QED
  BY <1>1, <1>2, <1>3, PTL DEF Spec, ApprovalRemembered

-----------------------------------------------------------------------------
(* Netmaps and pushes.                                                     *)

(* A netmap built from well-formed tables is well formed.                  *)
LEMMA NetMapType ==
    ASSUME NEW nds, DOMAIN nds \subseteq Ids, nds \in [DOMAIN nds -> Row],
           NEW onl, NEW rules \in ACLs \cup {NoACL}, NEW id \in DOMAIN nds
    PROVE  buildNetMap(nds, onl, rules, id) \in NetMap
<1>1. ASSUME NEW p \in DOMAIN nds PROVE peerEntry(nds, onl, p) \in PeerEntry
  BY <1>1 DEF peerEntry, PeerEntry, Row, overlayCIDRs, Overlay
<1>2. {peerEntry(nds, onl, p) : p \in DOMAIN nds \ {id}} \in SUBSET PeerEntry
  BY <1>1, Zenon
<1>3. nds[id] \in Row /\ id \in Ids
  BY Zenon
<1>4. overlayCIDRs(nds[id]) \in Overlay
  BY <1>3, Zenon DEF overlayCIDRs, Overlay, Row
<1> QED
  BY <1>2, <1>3, <1>4, Zenon DEF buildNetMap, NetMap, Row

(* A push keeps a channel within its capacity and touches nothing but its  *)
(* contents.                                                               *)
LEMMA PushType ==
    ASSUME NEW st \in Stream, Len(st.buf) <= ChanCap, NEW nm \in NetMap
    PROVE  /\ push(st, nm) \in Stream
           /\ Len(push(st, nm).buf) <= ChanCap
           /\ push(st, nm).live = st.live
           /\ push(st, nm).node = st.node
           /\ push(st, nm).open = st.open
<1>1. st.buf \in Seq(NetMap) /\ Len(st.buf) \in Nat
  BY DEF Stream
<1>2. Append(st.buf, nm) \in Seq(NetMap) /\ Len(Append(st.buf, nm)) = Len(st.buf) + 1
  BY <1>1
<1>3. CASE Len(st.buf) < ChanCap
  <2>1. push(st, nm) = [st EXCEPT !.buf = Append(st.buf, nm), !.missed = FALSE]
    BY <1>3, Zenon DEF push
  <2> DEFINE b == Append(st.buf, nm)
  <2>2. b \in Seq(NetMap) /\ Len(b) <= ChanCap
    BY <1>1, <1>2, <1>3, CoordinatorAssumption
  <2>3. push(st, nm) = [st EXCEPT !.buf = b, !.missed = FALSE]
    BY <2>1, Zenon
  <2> HIDE DEF b
  <2>4. /\ push(st, nm).buf = b
        /\ push(st, nm).live = st.live
        /\ push(st, nm).node = st.node
        /\ push(st, nm).open = st.open
    BY <2>3, Zenon DEF Stream
  <2>5. push(st, nm) \in Stream
    BY <2>2, <2>3, Zenon DEF Stream
  <2> QED
    BY <2>2, <2>4, <2>5, Zenon
<1>4. CASE ~ (Len(st.buf) < ChanCap)
  <2>1. push(st, nm) = [st EXCEPT !.missed = TRUE]
    BY <1>4, Zenon DEF push
  <2> QED
    BY <2>1, Zenon DEF Stream
<1> QED
  BY <1>3, <1>4, Zenon

\* StreamsAgree and the stream types, of a state of the maps that a handler
\* passes through.
Agree(nds, onl, sb, sts) ==
    /\ DOMAIN sb = onl /\ DOMAIN sb \subseteq DOMAIN nds
    /\ sb \in [DOMAIN sb -> Streams]
    /\ sts \in [Streams -> Stream]
    /\ \A s \in Streams : Len(sts[s].buf) <= ChanCap
    /\ \A id \in DOMAIN sb : sts[sb[id]].live /\ sts[sb[id]].open /\ sts[sb[id]].node = id
    /\ \A s \in Streams : sts[s].open => sts[s].node \in DOMAIN sb /\ sb[sts[s].node] = s

Tables(nds, rules) ==
    /\ DOMAIN nds \subseteq Ids
    /\ nds \in [DOMAIN nds -> Row]
    /\ rules \in ACLs \cup {NoACL}

StreamInv == StreamTypes /\ StreamsAgree

(* notifyNetworkLocked changes only what is queued.                        *)
LEMMA NotifyType ==
    ASSUME NEW nds, NEW onl, NEW rules, NEW sb, NEW sts, Tables(nds, rules),
           Agree(nds, onl, sb, sts)
    PROVE  LET new == notifyNetwork(nds, onl, rules, sb, sts) IN
           /\ new \in [Streams -> Stream]
           /\ \A s \in Streams : /\ Len(new[s].buf) <= ChanCap
                                 /\ new[s].live = sts[s].live
                                 /\ new[s].node = sts[s].node
                                 /\ new[s].open = sts[s].open
<1> DEFINE new == notifyNetwork(nds, onl, rules, sb, sts)
<1>1. ASSUME NEW s \in Streams
      PROVE  /\ new[s] \in Stream
             /\ Len(new[s].buf) <= ChanCap
             /\ new[s].live = sts[s].live
             /\ new[s].node = sts[s].node
             /\ new[s].open = sts[s].open
  <2>1. CASE \E id \in DOMAIN sb : id \in DOMAIN nds /\ sb[id] = s
    <3>1. sts[s].node \in DOMAIN nds
      BY <2>1, Zenon DEF Agree
    <3>2. buildNetMap(nds, onl, rules, sts[s].node) \in NetMap
      BY <3>1, NetMapType, Zenon DEF Tables
    <3>3. new[s] = push(sts[s], buildNetMap(nds, onl, rules, sts[s].node))
      BY <2>1, Zenon DEF notifyNetwork
    <3>4. sts[s] \in Stream /\ Len(sts[s].buf) <= ChanCap
      BY Zenon DEF Agree
    <3> HIDE DEF new
    <3> QED
      BY <3>2, <3>3, <3>4, PushType
  <2>2. CASE ~ \E id \in DOMAIN sb : id \in DOMAIN nds /\ sb[id] = s
    <3>1. new[s] = sts[s]
      BY <2>2, Zenon DEF notifyNetwork
    <3> QED
      BY <3>1, Zenon DEF Agree
  <2> QED
    BY <2>1, <2>2, Zenon
<1>2. new = [s \in Streams |-> new[s]]
  BY Zenon DEF notifyNetwork
<1> HIDE DEF new
<1>3. new \in [Streams -> Stream]
  BY <1>1, <1>2, Zenon
<1> QED
  BY <1>1, <1>3, Zenon DEF new

(* A fan-out from maps that agree ends in maps that agree.                 *)
LEMMA NotifyAgree ==
    ASSUME NEW nds, NEW onl, NEW rules, NEW sb, NEW sts, Tables(nds, rules),
           Agree(nds, onl, sb, sts)
    PROVE  Agree(nds, onl, sb, notifyNetwork(nds, onl, rules, sb, sts))
<1> DEFINE new == notifyNetwork(nds, onl, rules, sb, sts)
<1>1. /\ new \in [Streams -> Stream]
      /\ \A s \in Streams : /\ Len(new[s].buf) <= ChanCap
                            /\ new[s].live = sts[s].live
                            /\ new[s].node = sts[s].node
                            /\ new[s].open = sts[s].open
  BY NotifyType
<1> HIDE DEF new
<1>2. \A id \in DOMAIN sb : sb[id] \in Streams
  BY Zenon DEF Agree
<1> QED
  BY <1>1, <1>2, Zenon DEF Agree, new

LEMMA StreamInvAgree ==
    ASSUME EnrolTypes
    PROVE  StreamInv <=> /\ Agree(nodes, online, subs, streams)
                         /\ acl \in ACLs \cup {NoACL}
                         /\ aclPending \in 0 .. ACLWriters
<1>1. DOMAIN nodes \subseteq Ids
  BY CoordinatorAssumption DEF EnrolTypes, Ids
<1>2. ASSUME StreamInv PROVE Agree(nodes, online, subs, streams)
  BY <1>2, Zenon DEF StreamInv, StreamTypes, StreamsAgree, Agree
<1>3. ASSUME Agree(nodes, online, subs, streams), acl \in ACLs \cup {NoACL},
             aclPending \in 0 .. ACLWriters
      PROVE  StreamInv
  BY <1>1, <1>3, Zenon DEF StreamInv, StreamTypes, StreamsAgree, Agree
<1> QED
  BY <1>2, <1>3, Zenon DEF StreamInv, StreamTypes

(* How a handler step is checked: its maps agree, its tables are sound.    *)
LEMMA StreamStep ==
    ASSUME EnrolTypes', Agree(nodes', online', subs', streams'),
           acl' \in ACLs \cup {NoACL}, aclPending' \in 0 .. ACLWriters
    PROVE  StreamInv'
<1>1. (DOMAIN nodes \subseteq Ids)'
  BY CoordinatorAssumption DEF EnrolTypes, Ids
<1> QED
  BY <1>1, Zenon DEF StreamInv, StreamTypes, StreamsAgree, Agree

\* The step ends with a fan-out from maps that agree.
FansOut ==
    \E sts : /\ Agree(nodes', online', subs', sts)
             /\ streams' = notifyNetwork(nodes', online', acl', subs', sts)

LEMMA TablesOK ==
    ASSUME EnrolTypes, acl \in ACLs \cup {NoACL}
    PROVE  Tables(nodes, acl)
  BY CoordinatorAssumption DEF EnrolTypes, Tables, Ids

LEMMA TablesOKNext ==
    ASSUME EnrolTypes', acl' \in ACLs \cup {NoACL}
    PROVE  Tables(nodes', acl')
  BY CoordinatorAssumption DEF EnrolTypes, Tables, Ids

LEMMA InitStreams == Init => StreamInv
<1> SUFFICES ASSUME Init PROVE StreamInv
  BY Zenon
<1>1. FreeStream \in Stream /\ Len(FreeStream.buf) <= ChanCap /\ ~ FreeStream.open
  BY CoordinatorAssumption DEF FreeStream, Stream
<1>2. \A s \in Streams : streams[s] = FreeStream
  BY Zenon DEF Init
<1>3. streams \in [Streams -> Stream]
  BY <1>1, Zenon DEF Init
<1> QED
  BY <1>1, <1>2, <1>3, CoordinatorAssumption DEF Init, StreamInv, StreamTypes, StreamsAgree

(* A step that keeps the maps and loses no row keeps the invariant.        *)
LEMMA StreamsQuiet ==
    ASSUME EnrolTypes, StreamInv, UNCHANGED <<online, subs, streams, acl, aclPending>>,
           DOMAIN nodes \subseteq DOMAIN nodes'
    PROVE  StreamInv'
  BY Zenon DEF StreamInv, StreamTypes, StreamsAgree

(* A step that changes rows in place and fans out keeps the invariant.     *)
LEMMA StreamsNotified ==
    ASSUME EnrolTypes, EnrolTypes', StreamInv, UNCHANGED <<online, subs, acl>>,
           aclPending' \in 0 .. ACLWriters, DOMAIN nodes' = DOMAIN nodes,
           streams' = notifyNetwork(nodes', online, acl, subs, streams)
    PROVE  StreamInv' /\ FansOut
<1>1. Agree(nodes', online, subs, streams) /\ acl \in ACLs \cup {NoACL}
  BY StreamInvAgree, Zenon DEF Agree
<1>2. Tables(nodes', acl)
  BY <1>1, TablesOKNext, Zenon
<1>3. Agree(nodes', online, subs, streams')
  BY <1>1, <1>2, NotifyAgree, Zenon
<1>4. FansOut
  BY <1>1, Zenon DEF FansOut
<1> QED
  BY <1>1, <1>3, <1>4, StreamStep, Zenon

-----------------------------------------------------------------------------
(* The steps on netmap streams.                                            *)

(* Closing a channel changes nothing else.                                 *)
LEMMA CloseType ==
    ASSUME NEW sts \in [Streams -> Stream], NEW x \in Streams
    PROVE  LET new == closeStream(sts, x) IN
           /\ new \in [Streams -> Stream]
           /\ \A s \in Streams : /\ new[s].buf = sts[s].buf
                                 /\ new[s].live = sts[s].live
                                 /\ new[s].node = sts[s].node
                                 /\ new[s].open = (sts[s].open /\ s # x)
<1> DEFINE st == [sts[x] EXCEPT !.open = FALSE]
<1>1. closeStream(sts, x) = [sts EXCEPT ![x] = st]
  BY Zenon DEF closeStream
<1>2. sts[x] \in Stream
  BY Zenon
<1>3. st \in Stream
  BY <1>2, Zenon DEF Stream
<1>4. st.buf = sts[x].buf /\ st.live = sts[x].live /\ st.node = sts[x].node /\ st.open = FALSE
  BY <1>2, Zenon DEF Stream
<1> HIDE DEF st
<1>5. \A s \in Streams : sts[s].open \in BOOLEAN
  BY Zenon DEF Stream
<1> QED
  BY <1>1, <1>3, <1>4, <1>5, Zenon

(* Closing the stream of a node whose entry goes away.                     *)
LEMMA CloseAgree ==
    ASSUME NEW nds, NEW onl, NEW sb, NEW sts, Agree(nds, onl, sb, sts), NEW id
    PROVE  Agree(nds, onl \ {id}, Without(sb, id),
                 IF id \in DOMAIN sb THEN closeStream(sts, sb[id]) ELSE sts)
<1> DEFINE new == IF id \in DOMAIN sb THEN closeStream(sts, sb[id]) ELSE sts
<1>1. /\ new \in [Streams -> Stream]
      /\ \A s \in Streams : /\ new[s].buf = sts[s].buf
                            /\ new[s].live = sts[s].live
                            /\ new[s].node = sts[s].node
                            /\ new[s].open = (sts[s].open /\ ~ (id \in DOMAIN sb /\ sb[id] = s))
  <2>1. sts \in [Streams -> Stream] /\ \A s \in Streams : sts[s].open \in BOOLEAN
    BY Zenon DEF Agree, Stream
  <2>2. CASE id \in DOMAIN sb
    <3>1. sb[id] \in Streams
      BY <2>2, Zenon DEF Agree
    <3>2. new = closeStream(sts, sb[id])
      BY <2>2, Zenon
    <3> HIDE DEF new
    <3> QED
      BY <2>1, <2>2, <3>1, <3>2, CloseType
  <2>3. CASE id \notin DOMAIN sb
    BY <2>1, <2>3, Zenon
  <2> QED
    BY <2>2, <2>3, Zenon
<1>2. /\ DOMAIN Without(sb, id) = DOMAIN sb \ {id}
      /\ \A x \in DOMAIN sb \ {id} : Without(sb, id)[x] = sb[x]
      /\ Without(sb, id) \in [DOMAIN sb \ {id} -> Streams]
  BY Zenon DEF Without, Agree
<1> HIDE DEF new
<1>3. DOMAIN Without(sb, id) = onl \ {id} /\ DOMAIN Without(sb, id) \subseteq DOMAIN nds
  BY <1>2, Zenon DEF Agree
<1>4. ASSUME NEW x \in DOMAIN sb \ {id}
      PROVE  new[sb[x]].live /\ new[sb[x]].open /\ new[sb[x]].node = x
  <2>1. sb[x] \in Streams /\ sts[sb[x]].live /\ sts[sb[x]].open /\ sts[sb[x]].node = x
    BY Zenon DEF Agree
  <2>2. id \in DOMAIN sb => sts[sb[id]].node = id
    BY Zenon DEF Agree
  <2> QED
    BY <1>1, <2>1, <2>2, Zenon
<1>5. ASSUME NEW s \in Streams, new[s].open
      PROVE  new[s].node \in DOMAIN sb \ {id} /\ sb[new[s].node] = s
  <2>1. sts[s].open /\ ~ (id \in DOMAIN sb /\ sb[id] = s) /\ new[s].node = sts[s].node
    BY <1>1, <1>5, Zenon
  <2> QED
    BY <2>1, ZenonT(30) DEF Agree
<1>6. \A s \in Streams : Len(new[s].buf) <= ChanCap
  BY <1>1, Zenon DEF Agree
<1>7. Agree(nds, onl \ {id}, Without(sb, id), new)
  BY <1>1, <1>2, <1>3, <1>4, <1>5, <1>6 DEF Agree
<1> QED
  BY <1>7, Zenon DEF new

LEMMA DeleteNodeStreams ==
    ASSUME EnrolTypes, EnrolTypes', StreamInv, NEW id \in Ids, DeleteNode(id)
    PROVE  StreamInv' /\ FansOut
<1> DEFINE kicked == IF id \in DOMAIN subs THEN closeStream(streams, subs[id]) ELSE streams
<1>1. /\ nodes' = Without(nodes, id) /\ subs' = Without(subs, id) /\ online' = online \ {id}
      /\ UNCHANGED <<acl, aclPending>>
      /\ streams' = notifyNetwork(nodes', online', acl, subs', kicked)
  BY Zenon DEF DeleteNode
<1>2. Agree(nodes, online', subs', kicked)
  BY <1>1, StreamInvAgree, CloseAgree, Zenon
<1> HIDE DEF kicked
<1>3. DOMAIN nodes' = DOMAIN nodes \ {id} /\ DOMAIN subs' = DOMAIN subs \ {id}
  BY <1>1, Zenon DEF Without
<1>4. Agree(nodes', online', subs', kicked)
  BY <1>2, <1>3, Zenon DEF Agree
<1>5. acl \in ACLs \cup {NoACL} /\ aclPending \in 0 .. ACLWriters
  BY Zenon DEF StreamInv, StreamTypes
<1>6. Agree(nodes', online', subs', streams')
  BY <1>1, <1>4, <1>5, TablesOKNext, NotifyAgree, Zenon
<1>7. FansOut
  BY <1>1, <1>4, Zenon DEF FansOut
<1> QED
  BY <1>1, <1>5, <1>6, <1>7, StreamStep, Zenon

LEMMA SubscribeStreams ==
    ASSUME EnrolTypes, EnrolTypes', StreamInv, NEW m \in Machines, NEW s \in Streams,
           Subscribe(m, s)
    PROVE  StreamInv' /\ FansOut
<1>1. PICK id \in NodeOf(m) :
        LET closed == IF id \in DOMAIN subs THEN closeStream(streams, subs[id]) ELSE streams
            primed == [closed EXCEPT ![s] =
                NewStream(id, buildNetMap(nodes, online \cup {id}, acl, id))]
        IN /\ subs' = With(subs, id, s)
           /\ online' = online \cup {id}
           /\ streams' = notifyNetwork(nodes, online', acl, subs', primed)
  BY Zenon DEF Subscribe
<1> DEFINE closed == IF id \in DOMAIN subs THEN closeStream(streams, subs[id]) ELSE streams
           nm == buildNetMap(nodes, online \cup {id}, acl, id)
           fresh == NewStream(id, nm)
           primed == [closed EXCEPT ![s] = fresh]
<1>2. /\ subs' = With(subs, id, s) /\ online' = online \cup {id}
      /\ streams' = notifyNetwork(nodes, online', acl, subs', primed)
      /\ UNCHANGED <<nodes, acl, aclPending>>
      /\ ~ streams[s].live
  BY <1>1, Zenon DEF Subscribe, durable
<1>3. id \in DOMAIN nodes /\ id \in Ids
  BY CoordinatorAssumption DEF NodeOf, EnrolTypes, Ids
<1>4. acl \in ACLs \cup {NoACL} /\ aclPending \in 0 .. ACLWriters /\ Tables(nodes, acl)
  BY TablesOK, Zenon DEF StreamInv, StreamTypes
<1>5. nm \in NetMap
  BY <1>3, <1>4, NetMapType, Zenon DEF Tables
<1> HIDE DEF nm
<1>6. /\ fresh \in Stream /\ Len(fresh.buf) <= ChanCap
      /\ fresh.live /\ fresh.open /\ fresh.node = id
  <2>1. <<nm>> \in Seq(NetMap) /\ Len(<<nm>>) = 1
    BY <1>5
  <2>2. fresh \in Stream
    BY <2>1, <1>3 DEF NewStream, Stream
  <2>3. fresh.buf = <<nm>> /\ fresh.live /\ fresh.open /\ fresh.node = id
    BY Zenon DEF NewStream
  <2> QED
    BY <2>1, <2>2, <2>3, CoordinatorAssumption
<1>7. Agree(nodes, online \ {id}, Without(subs, id), closed)
  BY StreamInvAgree, CloseAgree, Zenon
<1>8. \A t \in DOMAIN subs : subs[t] # s
  BY <1>2, StreamInvAgree, Zenon DEF Agree
<1> HIDE DEF fresh, closed
<1>9. /\ DOMAIN subs' = DOMAIN subs \cup {id}
      /\ subs'[id] = s
      /\ \A x \in DOMAIN subs \ {id} : subs'[x] = subs[x] /\ Without(subs, id)[x] = subs[x]
      /\ DOMAIN Without(subs, id) = DOMAIN subs \ {id}
      /\ subs' \in [DOMAIN subs \cup {id} -> Streams]
  BY <1>2, StreamInvAgree, Zenon DEF With, Without, Agree
<1>10. /\ primed \in [Streams -> Stream]
       /\ primed[s] = fresh
       /\ \A t \in Streams \ {s} : primed[t] = closed[t]
  BY <1>6, <1>7, Zenon DEF Agree
<1> HIDE DEF primed
<1>11. Agree(nodes, online', subs', primed)
  <2>1. DOMAIN subs' = online' /\ DOMAIN subs' \subseteq DOMAIN nodes
    BY <1>2, <1>3, <1>9, StreamInvAgree, Zenon DEF Agree
  <2>2. ASSUME NEW x \in DOMAIN subs'
        PROVE  primed[subs'[x]].live /\ primed[subs'[x]].open /\ primed[subs'[x]].node = x
    <3>1. CASE x = id
      BY <3>1, <1>6, <1>9, <1>10, Zenon
    <3>2. CASE x # id
      <4>1. x \in DOMAIN subs \ {id} /\ subs'[x] = subs[x] /\ subs[x] # s /\ subs[x] \in Streams
        BY <3>2, <1>8, <1>9, StreamInvAgree, Zenon DEF Agree
      <4>2. primed[subs[x]] = closed[subs[x]]
        BY <4>1, <1>10, Zenon
      <4>3. closed[subs[x]].live /\ closed[subs[x]].open /\ closed[subs[x]].node = x
        BY <4>1, <1>7, <1>9, Zenon DEF Agree
      <4> QED
        BY <4>1, <4>2, <4>3, Zenon
    <3> QED
      BY <3>1, <3>2, Zenon
  <2>3. ASSUME NEW t \in Streams, primed[t].open
        PROVE  primed[t].node \in DOMAIN subs' /\ subs'[primed[t].node] = t
    <3>1. CASE t = s
      BY <3>1, <1>6, <1>9, <1>10, Zenon
    <3>2. CASE t # s
      <4>1. primed[t] = closed[t] /\ closed[t].open
        BY <3>2, <2>3, <1>10, Zenon
      <4>2. closed[t].node \in DOMAIN subs \ {id} /\ Without(subs, id)[closed[t].node] = t
        BY <4>1, <1>7, <1>9, Zenon DEF Agree
      <4> QED
        BY <4>1, <4>2, <1>9, Zenon
    <3> QED
      BY <3>1, <3>2, Zenon
  <2>4. \A t \in Streams : Len(primed[t].buf) <= ChanCap
    BY <1>6, <1>7, <1>10, ZenonT(30) DEF Agree
  <2> QED
    BY <2>1, <2>2, <2>3, <2>4, <1>9, <1>10, Zenon DEF Agree
<1>12. Agree(nodes', online', subs', streams')
  BY <1>2, <1>4, <1>11, NotifyAgree, Zenon
<1>13. FansOut
  BY <1>2, <1>11, Zenon DEF FansOut
<1> QED
  BY <1>2, <1>4, <1>12, <1>13, StreamStep, Zenon

(* The newest map of a queue is the last to leave it.                      *)
LEMMA LastLeft ==
    ASSUME NEW S, NEW q \in Seq(S), q # <<>>
    PROVE  /\ Tail(q) = <<>> => Head(q) = q[Len(q)]
           /\ Tail(q) # <<>> => Tail(q)[Len(Tail(q))] = q[Len(q)]
<1>1. Len(q) \in Nat /\ Len(q) >= 1 /\ Head(q) = q[1]
  OBVIOUS
<1>2. /\ Tail(q) \in Seq(S) /\ Len(Tail(q)) = Len(q) - 1
      /\ \A i \in 1 .. Len(q) - 1 : Tail(q)[i] = q[i + 1]
  BY <1>1
<1>3. Tail(q) = <<>> => Len(q) = 1
  <2>1. Len(<<>>) = 0
    BY Zenon
  <2>2. Tail(q) = <<>> => Len(Tail(q)) = 0
    BY <2>1, Zenon
  <2> QED
    BY <1>1, <1>2, <2>2
<1>4. ASSUME Tail(q) # <<>> PROVE Len(q) - 1 \in 1 .. Len(q) - 1 /\ (Len(q) - 1) + 1 = Len(q)
  BY <1>1, <1>2, <1>4
<1> QED
  BY <1>1, <1>2, <1>3, <1>4, Zenon

LEMMA SendNetMapStreams ==
    ASSUME EnrolTypes, EnrolTypes', StreamInv, NEW s \in Streams, SendNetMap(s)
    PROVE  /\ StreamInv' /\ UNCHANGED <<nodes, online, subs, acl, aclPending, reg>>
           /\ \A t \in Streams : /\ newest(streams'[t]) = newest(streams[t])
                                 /\ streams'[t].missed = streams[t].missed
<1> DEFINE b == Tail(streams[s].buf)
           g == <<Head(streams[s].buf)>>
           st == [streams[s] EXCEPT !.buf = b, !.got = g]
<1>1. /\ streams[s].buf # <<>>
      /\ UNCHANGED <<nodes, online, subs, acl, aclPending, reg>>
  BY Zenon DEF SendNetMap, durable
<1>2. streams \in [Streams -> Stream] /\ streams[s] \in Stream /\ Len(streams[s].buf) <= ChanCap
  BY Zenon DEF StreamInv, StreamTypes
<1>3. streams[s].buf \in Seq(NetMap)
  BY <1>2, Zenon DEF Stream
<1>4. b \in Seq(NetMap) /\ g \in Seq(NetMap) /\ Len(b) <= ChanCap
  BY <1>1, <1>2, <1>3, CoordinatorAssumption
<1>5. streams' = [streams EXCEPT ![s] = st]
  BY <1>2, Zenon DEF SendNetMap
<1>12. /\ b = <<>> => g = <<streams[s].buf[Len(streams[s].buf)]>>
       /\ b # <<>> => b[Len(b)] = streams[s].buf[Len(streams[s].buf)]
  BY <1>1, <1>3, LastLeft, Zenon
<1> HIDE DEF b, g
<1>6. st \in Stream
  BY <1>2, <1>4, Zenon DEF Stream
<1>7. st.buf = b /\ st.live = streams[s].live /\ st.open = streams[s].open
      /\ st.node = streams[s].node /\ st.got = g /\ st.missed = streams[s].missed
  BY <1>2, Zenon DEF Stream
<1> HIDE DEF st
<1>13. newest(st) = newest(streams[s])
  BY <1>1, <1>7, <1>12, Zenon DEF newest
<1>14. \A t \in Streams : streams'[t] = IF t = s THEN st ELSE streams[t]
  BY <1>2, <1>5, Zenon
<1>8. Agree(nodes, online, subs, streams)
  BY StreamInvAgree, Zenon
<1>9. /\ streams' \in [Streams -> Stream]
      /\ \A t \in Streams : /\ Len(streams'[t].buf) <= ChanCap
                            /\ streams'[t].live = streams[t].live
                            /\ streams'[t].node = streams[t].node
                            /\ streams'[t].open = streams[t].open
  BY <1>2, <1>4, <1>5, <1>6, <1>7, Zenon DEF StreamInv, StreamTypes
<1>10. Agree(nodes, online, subs, streams')
  BY <1>8, <1>9, Zenon DEF Agree
<1>11. acl \in ACLs \cup {NoACL} /\ aclPending \in 0 .. ACLWriters
  BY Zenon DEF StreamInv, StreamTypes
<1>15. StreamInv'
  BY <1>1, <1>10, <1>11, StreamStep, Zenon
<1> QED
  BY <1>1, <1>7, <1>13, <1>14, <1>15, Zenon

LEMMA UnsubStreams ==
    ASSUME EnrolTypes, EnrolTypes', StreamInv, NEW s \in Streams, unsub(s)
    PROVE  /\ StreamInv'
           /\ \/ FansOut
              \/ /\ UNCHANGED <<nodes, online, subs, acl, aclPending, reg>>
                 /\ \A x \in DOMAIN subs : streams'[subs[x]] = streams[subs[x]]
<1> DEFINE id == streams[s].node
           ended == [streams EXCEPT ![s] = FreeStream]
<1>1. FreeStream \in Stream /\ Len(FreeStream.buf) <= ChanCap /\ ~ FreeStream.open
  BY CoordinatorAssumption DEF FreeStream, Stream
<1>2. Agree(nodes, online, subs, streams) /\ acl \in ACLs \cup {NoACL}
      /\ aclPending \in 0 .. ACLWriters
  BY StreamInvAgree, Zenon
<1>3. UNCHANGED <<nodes, acl, aclPending, reg>>
  BY Zenon DEF unsub, durable
<1>4. /\ ended \in [Streams -> Stream] /\ ended[s] = FreeStream
      /\ \A t \in Streams \ {s} : ended[t] = streams[t]
  BY <1>1, <1>2, Zenon DEF Agree
<1>5. CASE id \in DOMAIN subs /\ subs[id] = s
  <2>1. /\ subs' = Without(subs, id) /\ online' = online \ {id}
        /\ streams' = notifyNetwork(nodes, online', acl, subs', ended)
    BY <1>5, Zenon DEF unsub
  <2>2. Agree(nodes, online', subs', ended)
    <3> HIDE DEF ended
    <3>1. /\ DOMAIN subs' = DOMAIN subs \ {id}
          /\ \A x \in DOMAIN subs \ {id} : subs'[x] = subs[x]
          /\ subs' \in [DOMAIN subs \ {id} -> Streams]
      BY <1>2, <2>1, Zenon DEF Without, Agree
    <3>2. DOMAIN subs' = online' /\ DOMAIN subs' \subseteq DOMAIN nodes
      BY <1>2, <2>1, <3>1, Zenon DEF Agree
    <3>3. ASSUME NEW x \in DOMAIN subs'
          PROVE  ended[subs'[x]].live /\ ended[subs'[x]].open /\ ended[subs'[x]].node = x
      <4>1. /\ subs'[x] = subs[x] /\ subs[x] \in Streams
            /\ streams[subs[x]].live /\ streams[subs[x]].open /\ streams[subs[x]].node = x
        BY <1>2, <3>1, Zenon DEF Agree
      <4>2. subs[x] # s
        BY <3>1, <4>1, Zenon
      <4> QED
        BY <1>4, <4>1, <4>2, Zenon
    <3>4. ASSUME NEW t \in Streams, ended[t].open
          PROVE  ended[t].node \in DOMAIN subs' /\ subs'[ended[t].node] = t
      <4>1. t # s /\ ended[t] = streams[t]
        BY <1>1, <1>4, <3>4, Zenon
      <4>2. streams[t].node \in DOMAIN subs /\ subs[streams[t].node] = t
        BY <1>2, <3>4, <4>1, Zenon DEF Agree
      <4> QED
        BY <1>5, <3>1, <4>1, <4>2, Zenon
    <3>5. \A t \in Streams : Len(ended[t].buf) <= ChanCap
      BY <1>1, <1>2, <1>4, Zenon DEF Agree
    <3> QED
      BY <1>4, <3>1, <3>2, <3>3, <3>4, <3>5, Zenon DEF Agree
  <2> HIDE DEF ended, id
  <2>3. Agree(nodes', online', subs', streams')
    BY <1>2, <1>3, <2>1, <2>2, TablesOK, NotifyAgree, Zenon
  <2>4. FansOut
    BY <1>3, <2>1, <2>2, Zenon DEF FansOut
  <2> QED
    BY <1>2, <1>3, <2>3, <2>4, StreamStep, Zenon
<1>6. CASE ~ (id \in DOMAIN subs /\ subs[id] = s)
  <2>1. streams' = ended /\ UNCHANGED <<subs, online>>
    BY <1>6, Zenon DEF unsub
  <2>2. \A x \in DOMAIN subs : subs[x] # s /\ subs[x] \in Streams
    BY <1>2, <1>6, Zenon DEF Agree
  <2> HIDE DEF ended, id
  <2>3. ASSUME NEW x \in DOMAIN subs
        PROVE  ended[subs[x]].live /\ ended[subs[x]].open /\ ended[subs[x]].node = x
    <3>1. ended[subs[x]] = streams[subs[x]]
      BY <1>4, <2>2, Zenon
    <3> QED
      BY <1>2, <3>1, Zenon DEF Agree
  <2>4. ASSUME NEW t \in Streams, ended[t].open
        PROVE  ended[t].node \in DOMAIN subs /\ subs[ended[t].node] = t
    <3>1. ended[t] = streams[t]
      BY <1>1, <1>4, <2>4, Zenon
    <3> QED
      BY <1>2, <2>4, <3>1, Zenon DEF Agree
  <2>5. \A t \in Streams : Len(ended[t].buf) <= ChanCap
    BY <1>1, <1>2, <1>4, Zenon DEF Agree
  <2>6. Agree(nodes, online, subs, ended)
    BY <1>2, <1>4, <2>3, <2>4, <2>5, Zenon DEF Agree
  <2>7. \A x \in DOMAIN subs : streams'[subs[x]] = streams[subs[x]]
    BY <1>4, <2>1, <2>2, Zenon
  <2> QED
    BY <1>2, <1>3, <2>1, <2>6, <2>7, StreamStep, Zenon
<1> QED
  BY <1>5, <1>6, Zenon

LEMMA RestartStreams ==
    ASSUME EnrolTypes, StreamInv, Restart
    PROVE  StreamInv'
<1>1. FreeStream \in Stream /\ Len(FreeStream.buf) <= ChanCap /\ ~ FreeStream.open
  BY CoordinatorAssumption DEF FreeStream, Stream
<1>2. /\ streams' = [s \in Streams |-> FreeStream] /\ online' = {} /\ subs' = <<>>
      /\ aclPending' = 0 /\ UNCHANGED <<nodes, acl>>
  BY Zenon DEF Restart, durable
<1>3. streams' \in [Streams -> Stream] /\ \A s \in Streams : streams'[s] = FreeStream
  BY <1>1, <1>2, Zenon
<1> QED
  BY <1>1, <1>2, <1>3, CoordinatorAssumption DEF StreamInv, StreamTypes, StreamsAgree

(* The steps that leave the netmap streams alone and remove no row.        *)
QuietStep ==
    \/ \E k \in SetupKeys : NewSetupKey(k) \/ RevokeSetupKey(k) \/ ExpireSetupKey(k)
    \/ \E m \in Machines, nk \in NodeKeys, h \in Names \cup {NoName}, rts \in SUBSET Routes :
          \/ RegisterKnown(m, nk, h, rts)
          \/ \E k \in SetupKeys : RegisterNew(m, k, nk, h, rts)
    \/ CreateNode \/ PrefixExhausted \/ CreateNodeFails \/ UpdateNodeIPv6 \/ RegisterFails
    \/ \E m \in Machines, s \in SigStreams : signalSubscribe(m, s)
    \/ \E s \in SigStreams, to \in Ids : routeSignal(s, to)
    \/ \E s \in SigStreams : SendSignal(s) \/ SignalGone(s)
    \/ UNCHANGED vars

LEMMA QuietSteps ==
    ASSUME EnrolTypes, QuietStep
    PROVE  /\ UNCHANGED <<online, subs, streams, acl, aclPending>>
           /\ DOMAIN nodes \subseteq DOMAIN nodes'
<1> DEFINE Goal == /\ UNCHANGED <<online, subs, streams, acl, aclPending>>
                   /\ DOMAIN nodes \subseteq DOMAIN nodes'
<1> USE DEF netmapVars, durable
<1>1. ASSUME NEW k \in SetupKeys, NewSetupKey(k) \/ RevokeSetupKey(k) \/ ExpireSetupKey(k) PROVE Goal
  BY <1>1, Zenon DEF NewSetupKey, RevokeSetupKey, ExpireSetupKey
<1>2. ASSUME NEW m \in Machines, NEW nk \in NodeKeys, NEW h \in Names \cup {NoName},
             NEW rts \in SUBSET Routes, RegisterKnown(m, nk, h, rts)
      PROVE  Goal
  BY <1>2, Zenon DEF RegisterKnown
<1>3. ASSUME NEW m \in Machines, NEW nk \in NodeKeys, NEW h \in Names \cup {NoName},
             NEW rts \in SUBSET Routes, NEW k \in SetupKeys, RegisterNew(m, k, nk, h, rts)
      PROVE  Goal
  BY <1>3, Zenon DEF RegisterNew
<1>4. ASSUME CreateNode PROVE Goal
  BY <1>4, Zenon DEF CreateNode, With
<1>5. ASSUME PrefixExhausted \/ CreateNodeFails \/ RegisterFails PROVE Goal
  BY <1>5, Zenon DEF PrefixExhausted, CreateNodeFails, RegisterFails
<1>6. ASSUME UpdateNodeIPv6 PROVE Goal
  BY <1>6, Zenon DEF UpdateNodeIPv6
<1>7. ASSUME NEW m \in Machines, NEW s \in SigStreams, signalSubscribe(m, s) PROVE Goal
  BY <1>7, Zenon DEF signalSubscribe
<1>8. ASSUME NEW s \in SigStreams, NEW to \in Ids, routeSignal(s, to) PROVE Goal
  BY <1>8, Zenon DEF routeSignal
<1>9. ASSUME NEW s \in SigStreams, SendSignal(s) \/ SignalGone(s) PROVE Goal
  BY <1>9, Zenon DEF SendSignal, SignalGone
<1>10. ASSUME UNCHANGED vars PROVE Goal
  BY <1>10, Zenon DEF vars
<1> HIDE DEF Goal
<1> QED
  BY <1>1, <1>2, <1>3, <1>4, <1>5, <1>6, <1>7, <1>8, <1>9, <1>10, Zenon DEF QuietStep, Goal

(* The steps that change rows or rules in place and fan out.               *)
LEMMA NotifyingSteps ==
    ASSUME EnrolTypes, EnrolTypes', StreamInv,
           \/ FinishRegister \/ ACLChanged
           \/ \E m \in Machines, ep \in Endpoints : UpdateEndpoints(m, ep)
           \/ \E id \in Ids, r \in Routes, b \in BOOLEAN : SetRouteApproved(id, r, b)
    PROVE  StreamInv' /\ FansOut
<1> DEFINE Goal == /\ UNCHANGED <<online, subs, acl>>
                   /\ aclPending' \in 0 .. ACLWriters
                   /\ DOMAIN nodes' = DOMAIN nodes
                   /\ streams' = notifyNetwork(nodes', online, acl, subs, streams)
<1>1. aclPending \in 0 .. ACLWriters
  BY Zenon DEF StreamInv, StreamTypes
<1>2. CASE FinishRegister
  <2>1. Goal
    BY <1>1, <1>2, Zenon DEF FinishRegister
  <2> QED
    BY <2>1, StreamsNotified, Zenon
<1>3. CASE ACLChanged
  <2>1. aclPending' \in 0 .. ACLWriters
    BY <1>1, <1>3, CoordinatorAssumption DEF ACLChanged
  <2>2. /\ UNCHANGED <<nodes, online, subs, acl>>
        /\ streams' = notifyNetwork(nodes, online, acl, subs, streams)
    BY <1>3, Zenon DEF ACLChanged, durable
  <2> QED
    BY <2>1, <2>2, StreamsNotified, Zenon
<1>4. ASSUME NEW m \in Machines, NEW ep \in Endpoints, UpdateEndpoints(m, ep) PROVE StreamInv' /\ FansOut
  <2>1. Goal
    BY <1>1, <1>4, Zenon DEF UpdateEndpoints
  <2> QED
    BY <2>1, StreamsNotified, Zenon
<1>5. ASSUME NEW id \in Ids, NEW r \in Routes, NEW b \in BOOLEAN, SetRouteApproved(id, r, b)
      PROVE  StreamInv' /\ FansOut
  <2>1. Goal
    BY <1>1, <1>5, Zenon DEF SetRouteApproved
  <2> QED
    BY <2>1, StreamsNotified, Zenon
<1> QED
  BY <1>2, <1>3, <1>4, <1>5, Zenon

LEMMA SetACLStreams ==
    ASSUME StreamInv, NEW rules \in ACLs \cup {NoACL}, SetACL(rules)
    PROVE  StreamInv'
<1>1. /\ UNCHANGED <<nodes, online, subs, streams>> /\ acl' = rules
      /\ aclPending < ACLWriters /\ aclPending' = aclPending + 1
  BY Zenon DEF SetACL, netmapVars
<1>2. aclPending' \in 0 .. ACLWriters
  BY <1>1, CoordinatorAssumption DEF StreamInv, StreamTypes
<1> QED
  BY <1>1, <1>2, Zenon DEF StreamInv, StreamTypes, StreamsAgree

LEMMA NextStreams == EnrolInv /\ StreamInv /\ [Next]_vars => StreamInv'
<1> SUFFICES ASSUME EnrolInv, StreamInv, [Next]_vars PROVE StreamInv'
  BY Zenon
<1>1. EnrolTypes /\ EnrolTypes'
  BY NextEnrol, Zenon DEF EnrolInv
<1>2. CASE QuietStep
  BY <1>1, <1>2, QuietSteps, StreamsQuiet, Zenon
<1>3. CASE Restart
  BY <1>1, <1>3, RestartStreams, Zenon
<1>4. ASSUME NEW rules \in ACLs \cup {NoACL}, SetACL(rules) PROVE StreamInv'
  BY <1>4, SetACLStreams, Zenon
<1>5. CASE \/ FinishRegister \/ ACLChanged
           \/ \E m \in Machines, ep \in Endpoints : UpdateEndpoints(m, ep)
           \/ \E id \in Ids, r \in Routes, b \in BOOLEAN : SetRouteApproved(id, r, b)
  BY <1>1, <1>5, NotifyingSteps, Zenon
<1>6. ASSUME NEW id \in Ids, DeleteNode(id) PROVE StreamInv'
  BY <1>1, <1>6, DeleteNodeStreams, Zenon
<1>7. ASSUME NEW m \in Machines, NEW s \in Streams, Subscribe(m, s) PROVE StreamInv'
  BY <1>1, <1>7, SubscribeStreams, Zenon
<1>8. ASSUME NEW s \in Streams, SendNetMap(s) \/ StreamGone(s) \/ StreamRemoved(s) PROVE StreamInv'
  BY <1>1, <1>8, SendNetMapStreams, UnsubStreams, Zenon DEF StreamGone, StreamRemoved
<1> QED
  BY <1>2, <1>3, <1>4, <1>5, <1>6, <1>7, <1>8, Zenon DEF Next, QuietStep

(* The netmap streams keep their types, and online, subs and the channels  *)
(* agree, for any number of devices and streams.                           *)
THEOREM StreamInvariant == Spec => []StreamInv
<1>1. Init => EnrolInv /\ StreamInv
  BY InitEnrol, InitStreams, Zenon
<1>2. EnrolInv /\ StreamInv /\ [Next]_vars => EnrolInv' /\ StreamInv'
  BY NextEnrol, NextStreams, Zenon
<1> QED
  BY <1>1, <1>2, PTL DEF Spec

(* A device is online iff it has a current stream, whose channel is open   *)
(* and its own, and no other channel is open.                              *)
THEOREM StreamAgreement == Spec => []StreamsAgree
  BY StreamInvariant, PTL DEF StreamInv

-----------------------------------------------------------------------------
(* Every change is pushed, as long as no database write fails: a Register  *)
(* that fails half way keeps what it has written and pushes nothing.       *)

\* The newest map on every current stream describes these tables.
Pushed(nds, onl, rules, sb, sts) ==
    \A id \in DOMAIN sb :
        sts[sb[id]].missed \/ newest(sts[sb[id]]) = <<buildNetMap(nds, onl, rules, id)>>

\* Register has not touched the rows yet, or has pushed them.
Settled == reg.pc \in {"idle", "create"}

PushInv == Settled /\ aclPending = 0 => Pushed(nodes, online, acl, subs, streams)

(* What push leaves on a channel.                                          *)
LEMMA PushNewest ==
    ASSUME NEW st \in Stream, NEW nm \in NetMap
    PROVE  push(st, nm).missed \/ newest(push(st, nm)) = <<nm>>
<1>1. st.buf \in Seq(NetMap) /\ Len(st.buf) \in Nat
  BY DEF Stream
<1> DEFINE b == Append(st.buf, nm)
<1>2. b # <<>> /\ b[Len(b)] = nm
  BY <1>1
<1> HIDE DEF b
<1>3. CASE Len(st.buf) < ChanCap
  <2>1. push(st, nm) = [st EXCEPT !.buf = b, !.missed = FALSE]
    BY <1>3, Zenon DEF push, b
  <2>2. push(st, nm).buf = b
    BY <2>1, Zenon DEF Stream
  <2> QED
    BY <1>2, <2>2, Zenon DEF newest
<1>4. CASE ~ (Len(st.buf) < ChanCap)
  <2>1. push(st, nm) = [st EXCEPT !.missed = TRUE]
    BY <1>4, Zenon DEF push
  <2> QED
    BY <2>1, Zenon DEF Stream
<1> QED
  BY <1>3, <1>4, Zenon

(* A fan-out pushes to every current stream.                               *)
LEMMA FannedOut ==
    ASSUME EnrolTypes', acl' \in ACLs \cup {NoACL}, FansOut
    PROVE  Pushed(nodes', online', acl', subs', streams')
<1>1. PICK sts : /\ Agree(nodes', online', subs', sts)
                 /\ streams' = notifyNetwork(nodes', online', acl', subs', sts)
  BY Zenon DEF FansOut
<1> SUFFICES ASSUME NEW id \in DOMAIN subs'
             PROVE  \/ streams'[subs'[id]].missed
                    \/ newest(streams'[subs'[id]]) = <<buildNetMap(nodes', online', acl', id)>>
  BY Zenon DEF Pushed
<1> DEFINE s == subs'[id]
           nm == buildNetMap(nodes', online', acl', id)
<1>2. s \in Streams /\ sts[s] \in Stream /\ sts[s].node = id /\ id \in DOMAIN nodes'
  BY <1>1, Zenon DEF Agree
<1>3. nm \in NetMap
  BY <1>2, TablesOKNext, NetMapType, Zenon DEF Tables
<1>4. streams'[s] = push(sts[s], nm)
  BY <1>1, <1>2, Zenon DEF notifyNetwork
<1> HIDE DEF s, nm
<1>5. streams'[s].missed \/ newest(streams'[s]) = <<nm>>
  BY <1>2, <1>3, <1>4, PushNewest, Zenon
<1> QED
  BY <1>5, Zenon DEF s, nm

LEMMA InitPushes == Init => PushInv
  BY DEF Init, PushInv, Pushed

(* Register changes rows only while it is not settled.                     *)
LEMMA QuietPushes ==
    ASSUME ~ StoreFaults, EnrolTypes, QuietStep, Settled'
    PROVE  Settled /\ UNCHANGED nodes
<1> USE DEF Settled
<1>1. ASSUME NEW k \in SetupKeys, NewSetupKey(k) \/ RevokeSetupKey(k) \/ ExpireSetupKey(k)
      PROVE  Settled /\ UNCHANGED nodes
  BY <1>1, Zenon DEF NewSetupKey, RevokeSetupKey, ExpireSetupKey
<1>2. ASSUME NEW m \in Machines, NEW nk \in NodeKeys, NEW h \in Names \cup {NoName},
             NEW rts \in SUBSET Routes, RegisterKnown(m, nk, h, rts)
      PROVE  FALSE
  <2>1. PICK id : reg' = [pc |-> "routes", id |-> id, new |-> FALSE, rts |-> rts]
    BY <1>2, Zenon DEF RegisterKnown
  <2> QED
    BY <2>1, Zenon
<1>3. ASSUME NEW m \in Machines, NEW nk \in NodeKeys, NEW h \in Names \cup {NoName},
             NEW rts \in SUBSET Routes, NEW k \in SetupKeys, RegisterNew(m, k, nk, h, rts)
      PROVE  Settled /\ UNCHANGED nodes
  BY <1>3, Zenon DEF RegisterNew, Idle
<1>4. ASSUME CreateNode PROVE FALSE
  <2>1. reg' = [pc |-> "ipv6", id |-> nextID, new |-> TRUE, rts |-> reg.rts]
    BY <1>4, Zenon DEF CreateNode
  <2> QED
    BY <2>1, Zenon
<1>5. ASSUME PrefixExhausted \/ CreateNodeFails PROVE Settled /\ UNCHANGED nodes
  BY <1>5, Zenon DEF PrefixExhausted, CreateNodeFails, durable
<1>6. ASSUME RegisterFails PROVE FALSE
  BY <1>6, Zenon DEF RegisterFails
<1>7. ASSUME UpdateNodeIPv6 PROVE FALSE
  <2>1. reg.pc = "ipv6" /\ reg' = [reg EXCEPT !.pc = "routes"]
    BY <1>7, Zenon DEF UpdateNodeIPv6
  <2>2. reg \in [pc : {"ipv6", "routes"}, id : DOMAIN nodes, new : BOOLEAN, rts : SUBSET Routes]
    BY <2>1, Zenon DEF EnrolTypes, RegState, Idle
  <2> QED
    BY <2>1, <2>2, Zenon
<1>8. ASSUME NEW m \in Machines, NEW s \in SigStreams, signalSubscribe(m, s)
      PROVE  Settled /\ UNCHANGED nodes
  BY <1>8, Zenon DEF signalSubscribe, durable
<1>9. ASSUME NEW s \in SigStreams, NEW to \in Ids, routeSignal(s, to) PROVE Settled /\ UNCHANGED nodes
  BY <1>9, Zenon DEF routeSignal, durable
<1>10. ASSUME NEW s \in SigStreams, SendSignal(s) \/ SignalGone(s) PROVE Settled /\ UNCHANGED nodes
  BY <1>10, Zenon DEF SendSignal, SignalGone, durable
<1>11. ASSUME UNCHANGED vars PROVE Settled /\ UNCHANGED nodes
  BY <1>11, Zenon DEF vars
<1> HIDE DEF Settled
<1> QED
  BY <1>1, <1>2, <1>3, <1>4, <1>5, <1>6, <1>7, <1>8, <1>9, <1>10, <1>11, Zenon DEF QuietStep

LEMMA NextPushes ==
    ~ StoreFaults /\ EnrolInv /\ StreamInv /\ PushInv /\ [Next]_vars => PushInv'
<1> SUFFICES ASSUME ~ StoreFaults, EnrolInv, StreamInv, PushInv, [Next]_vars PROVE PushInv'
  BY Zenon
<1>1. EnrolTypes /\ EnrolTypes' /\ StreamInv' /\ acl' \in ACLs \cup {NoACL} /\ aclPending \in 0 .. ACLWriters
  BY NextEnrol, NextStreams, Zenon DEF EnrolInv, StreamInv, StreamTypes
<1>2. ASSUME FansOut PROVE PushInv'
  BY <1>1, <1>2, FannedOut, Zenon DEF PushInv
<1>3. CASE QuietStep
  <2>1. UNCHANGED <<online, subs, streams, acl, aclPending>>
    BY <1>1, <1>3, QuietSteps, Zenon
  <2>2. Settled' => Settled /\ UNCHANGED nodes
    BY <1>1, <1>3, QuietPushes, Zenon
  <2> QED
    BY <2>1, <2>2, Zenon DEF PushInv
<1>4. CASE Restart
  BY <1>4 DEF Restart, PushInv, Pushed
<1>5. ASSUME NEW rules \in ACLs \cup {NoACL}, SetACL(rules) PROVE PushInv'
  <2>1. aclPending' # 0
    BY <1>1, <1>5, CoordinatorAssumption DEF SetACL
  <2> QED
    BY <2>1, Zenon DEF PushInv
<1>6. CASE \/ FinishRegister \/ ACLChanged
           \/ \E m \in Machines, ep \in Endpoints : UpdateEndpoints(m, ep)
           \/ \E id \in Ids, r \in Routes, b \in BOOLEAN : SetRouteApproved(id, r, b)
  BY <1>1, <1>2, <1>6, NotifyingSteps, Zenon
<1>7. ASSUME NEW id \in Ids, DeleteNode(id) PROVE PushInv'
  BY <1>1, <1>2, <1>7, DeleteNodeStreams, Zenon
<1>8. ASSUME NEW m \in Machines, NEW s \in Streams, Subscribe(m, s) PROVE PushInv'
  BY <1>1, <1>2, <1>8, SubscribeStreams, Zenon
<1>9. \A id \in DOMAIN subs : subs[id] \in Streams
  BY Zenon DEF StreamInv, StreamTypes
<1>10. ASSUME NEW s \in Streams, SendNetMap(s) PROVE PushInv'
  <2>1. /\ UNCHANGED <<nodes, online, subs, acl, aclPending, reg>>
        /\ \A t \in Streams : /\ newest(streams'[t]) = newest(streams[t])
                              /\ streams'[t].missed = streams[t].missed
    BY <1>1, <1>10, SendNetMapStreams, Zenon
  <2> QED
    BY <1>9, <2>1, Zenon DEF PushInv, Pushed, Settled
<1>11. ASSUME NEW s \in Streams, unsub(s) PROVE PushInv'
  <2>1. \/ FansOut
        \/ /\ UNCHANGED <<nodes, online, subs, acl, aclPending, reg>>
           /\ \A x \in DOMAIN subs : streams'[subs[x]] = streams[subs[x]]
    BY <1>1, <1>11, UnsubStreams, Zenon
  <2> QED
    BY <1>2, <2>1, Zenon DEF PushInv, Pushed, Settled
<1> QED
  BY <1>3, <1>4, <1>5, <1>6, <1>7, <1>8, <1>10, <1>11, Zenon
     DEF Next, QuietStep, StreamGone, StreamRemoved

(* Every handler that changes what a netmap says pushes it, for any number *)
(* of devices, streams and concurrent rule changes, with restarts          *)
(* anywhere, as long as no database write fails.                           *)
THEOREM ChangesArePushed == ~ StoreFaults /\ Spec => []EveryChangePushed
<1>1. SUFFICES ASSUME ~ StoreFaults PROVE Spec => []EveryChangePushed
  BY Zenon
<1>2. Init => EnrolInv /\ StreamInv /\ PushInv
  BY InitEnrol, InitStreams, InitPushes, Zenon
<1>3. EnrolInv /\ StreamInv /\ PushInv /\ [Next]_vars => EnrolInv' /\ StreamInv' /\ PushInv'
  BY <1>1, NextEnrol, NextStreams, NextPushes, Zenon
<1>4. PushInv => EveryChangePushed
  BY DEF PushInv, Pushed, EveryChangePushed, Settled, Idle
<1> QED
  BY <1>2, <1>3, <1>4, PTL DEF Spec

-----------------------------------------------------------------------------
(* The signal inboxes.                                                     *)

\* A handler that runs serves a node that existed when it started.
SignalInv ==
    /\ SignalTypes
    /\ SignalsAgree
    /\ \A s \in SigStreams : inboxes[s].live => inboxes[s].node \in Ids

LEMMA InitSignals == Init => SignalInv
<1> SUFFICES ASSUME Init PROVE SignalInv
  BY Zenon
<1>1. FreeInbox \in Inbox /\ Len(FreeInbox.buf) = 0 /\ ~ FreeInbox.open /\ ~ FreeInbox.live
  BY DEF FreeInbox, Inbox
<1>2. inboxes \in [SigStreams -> Inbox] /\ \A s \in SigStreams : inboxes[s] = FreeInbox
  BY <1>1, Zenon DEF Init
<1> QED
  BY <1>1, <1>2, CoordinatorAssumption DEF Init, SignalInv, SignalTypes, SignalsAgree

(* A step that keeps the inboxes and loses no row keeps the invariant.     *)
LEMMA SignalsQuiet ==
    ASSUME SignalInv, UNCHANGED signalVars, DOMAIN nodes \subseteq DOMAIN nodes'
    PROVE  SignalInv'
  BY Zenon DEF SignalInv, SignalTypes, SignalsAgree, signalVars

(* Closing an inbox changes nothing else.                                  *)
LEMMA CloseInbox ==
    ASSUME NEW ibs \in [SigStreams -> Inbox], NEW x \in SigStreams
    PROVE  LET new == closeStream(ibs, x) IN
           /\ new \in [SigStreams -> Inbox]
           /\ \A s \in SigStreams : /\ new[s].buf = ibs[s].buf
                                    /\ new[s].live = ibs[s].live
                                    /\ new[s].node = ibs[s].node
                                    /\ new[s].open = (ibs[s].open /\ s # x)
<1> DEFINE ib == [ibs[x] EXCEPT !.open = FALSE]
<1>1. closeStream(ibs, x) = [ibs EXCEPT ![x] = ib]
  BY Zenon DEF closeStream
<1>2. ibs[x] \in Inbox
  BY Zenon
<1>3. ib \in Inbox
  BY <1>2, Zenon DEF Inbox
<1>4. ib.buf = ibs[x].buf /\ ib.live = ibs[x].live /\ ib.node = ibs[x].node /\ ib.open = FALSE
  BY <1>2, Zenon DEF Inbox
<1> HIDE DEF ib
<1>5. \A s \in SigStreams : ibs[s].open \in BOOLEAN
  BY Zenon DEF Inbox
<1> QED
  BY <1>1, <1>3, <1>4, <1>5, Zenon

\* The inboxes after the current one of node id, if any, is closed.
closedFor(id) == IF id \in DOMAIN sigSubs THEN closeStream(inboxes, sigSubs[id]) ELSE inboxes

LEMMA ClosedFor ==
    ASSUME SignalInv, NEW id
    PROVE  /\ closedFor(id) \in [SigStreams -> Inbox]
           /\ \A s \in SigStreams :
                /\ closedFor(id)[s].buf = inboxes[s].buf
                /\ closedFor(id)[s].live = inboxes[s].live
                /\ closedFor(id)[s].node = inboxes[s].node
                /\ closedFor(id)[s].open =
                      (inboxes[s].open /\ ~ (id \in DOMAIN sigSubs /\ sigSubs[id] = s))
<1>1. inboxes \in [SigStreams -> Inbox] /\ \A s \in SigStreams : inboxes[s].open \in BOOLEAN
  BY Zenon DEF SignalInv, SignalTypes, Inbox
<1>2. CASE id \in DOMAIN sigSubs
  <2>1. sigSubs[id] \in SigStreams
    BY <1>2, Zenon DEF SignalInv, SignalTypes
  <2>2. closedFor(id) = closeStream(inboxes, sigSubs[id])
    BY <1>2, Zenon DEF closedFor
  <2> QED
    BY <1>1, <1>2, <2>1, <2>2, CloseInbox
<1>3. CASE id \notin DOMAIN sigSubs
  BY <1>1, <1>3, Zenon DEF closedFor
<1> QED
  BY <1>2, <1>3, Zenon

LEMMA DeleteNodeSignals ==
    ASSUME SignalInv, NEW id \in Ids, DeleteNode(id)
    PROVE  SignalInv'
<1>1. nodes' = Without(nodes, id) /\ sigSubs' = Without(sigSubs, id) /\ inboxes' = closedFor(id)
  BY Zenon DEF DeleteNode, closedFor
<1>2. /\ DOMAIN nodes' = DOMAIN nodes \ {id}
      /\ DOMAIN sigSubs' = DOMAIN sigSubs \ {id}
      /\ \A x \in DOMAIN sigSubs \ {id} : sigSubs'[x] = sigSubs[x]
      /\ sigSubs' \in [DOMAIN sigSubs \ {id} -> SigStreams]
  BY <1>1, Zenon DEF Without, SignalInv, SignalTypes
<1>3. /\ inboxes' \in [SigStreams -> Inbox]
      /\ \A s \in SigStreams :
            /\ inboxes'[s].buf = inboxes[s].buf
            /\ inboxes'[s].live = inboxes[s].live
            /\ inboxes'[s].node = inboxes[s].node
            /\ inboxes'[s].open = (inboxes[s].open /\ ~ (id \in DOMAIN sigSubs /\ sigSubs[id] = s))
  BY <1>1, ClosedFor
<1>4. SignalTypes'
  BY <1>2, <1>3, Zenon DEF SignalInv, SignalTypes
<1>5. ASSUME NEW x \in DOMAIN sigSubs'
      PROVE  inboxes'[sigSubs'[x]].live /\ inboxes'[sigSubs'[x]].open /\ inboxes'[sigSubs'[x]].node = x
  <2>1. /\ sigSubs'[x] = sigSubs[x] /\ sigSubs[x] \in SigStreams /\ x # id
        /\ inboxes[sigSubs[x]].live /\ inboxes[sigSubs[x]].open /\ inboxes[sigSubs[x]].node = x
    <3>1. x \in DOMAIN sigSubs /\ sigSubs'[x] = sigSubs[x] /\ x # id
      BY <1>2, Zenon
    <3>2. sigSubs[x] \in SigStreams
      BY <3>1, Zenon DEF SignalInv, SignalTypes
    <3> QED
      BY <3>1, <3>2, Zenon DEF SignalInv, SignalsAgree
  <2>2. id \in DOMAIN sigSubs => sigSubs[id] # sigSubs[x]
    BY <2>1 DEF SignalInv, SignalsAgree
  <2> QED
    BY <1>3, <2>1, <2>2, ZenonT(30)
<1>6. ASSUME NEW s \in SigStreams, inboxes'[s].open
      PROVE  inboxes'[s].node \in DOMAIN sigSubs' /\ sigSubs'[inboxes'[s].node] = s
  <2>1. inboxes[s].open /\ ~ (id \in DOMAIN sigSubs /\ sigSubs[id] = s) /\ inboxes'[s].node = inboxes[s].node
    BY <1>3, <1>6, Zenon
  <2>2. inboxes[s].node \in DOMAIN sigSubs /\ sigSubs[inboxes[s].node] = s
    BY <2>1, Zenon DEF SignalInv, SignalsAgree
  <2> QED
    BY <1>2, <2>1, <2>2, Zenon
<1>7. SignalsAgree'
  <2>1. DOMAIN sigSubs' \subseteq DOMAIN nodes'
    BY <1>2, Zenon DEF SignalInv, SignalsAgree
  <2>2. \A s \in SigStreams : \A i \in 1 .. Len(inboxes'[s].buf) :
          inboxes'[s].buf[i].to = inboxes'[s].node
    BY <1>3 DEF SignalInv, SignalsAgree
  <2> QED
    BY <2>1, <2>2, <1>5, <1>6, Zenon DEF SignalsAgree
<1> QED
  BY <1>3, <1>4, <1>7, Zenon DEF SignalInv

LEMMA SignalSubscribeStep ==
    ASSUME EnrolTypes, SignalInv, NEW m \in Machines, NEW s \in SigStreams, signalSubscribe(m, s)
    PROVE  SignalInv'
<1>1. PICK id \in NodeOf(m) :
        /\ sigSubs' = With(sigSubs, id, s)
        /\ inboxes' = [closedFor(id) EXCEPT ![s] = NewInbox(id)]
  BY Zenon DEF signalSubscribe, closedFor
<1>2. ~ inboxes[s].live /\ nodes' = nodes
  BY Zenon DEF signalSubscribe, durable
<1>3. id \in DOMAIN nodes /\ id \in Ids
  BY CoordinatorAssumption DEF NodeOf, EnrolTypes, Ids
<1>4. /\ NewInbox(id) \in Inbox /\ Len(NewInbox(id).buf) = 0
      /\ NewInbox(id).live /\ NewInbox(id).open /\ NewInbox(id).node = id
  BY <1>3 DEF NewInbox, Inbox
<1>5. \A x \in DOMAIN sigSubs : sigSubs[x] # s /\ sigSubs[x] \in SigStreams
  BY <1>2, Zenon DEF SignalInv, SignalTypes, SignalsAgree
<1>6. /\ DOMAIN sigSubs' = DOMAIN sigSubs \cup {id}
      /\ sigSubs'[id] = s
      /\ \A x \in DOMAIN sigSubs \ {id} : sigSubs'[x] = sigSubs[x]
      /\ sigSubs' \in [DOMAIN sigSubs \cup {id} -> SigStreams]
  BY <1>1, Zenon DEF With, SignalInv, SignalTypes
<1>7. closedFor(id) \in [SigStreams -> Inbox]
  BY ClosedFor, Zenon
<1>8. /\ inboxes' \in [SigStreams -> Inbox]
      /\ inboxes'[s] = NewInbox(id)
      /\ \A t \in SigStreams \ {s} : inboxes'[t] = closedFor(id)[t]
  BY <1>1, <1>4, <1>7, Zenon
<1>9. \A t \in SigStreams \ {s} :
        /\ inboxes'[t].buf = inboxes[t].buf
        /\ inboxes'[t].live = inboxes[t].live
        /\ inboxes'[t].node = inboxes[t].node
        /\ inboxes'[t].open = (inboxes[t].open /\ ~ (id \in DOMAIN sigSubs /\ sigSubs[id] = t))
  BY <1>8, ClosedFor
<1>10. SignalTypes'
  BY <1>3, <1>4, <1>6, <1>8, <1>9, CoordinatorAssumption DEF SignalInv, SignalTypes
<1>11. ASSUME NEW x \in DOMAIN sigSubs'
       PROVE  inboxes'[sigSubs'[x]].live /\ inboxes'[sigSubs'[x]].open /\ inboxes'[sigSubs'[x]].node = x
  <2>1. CASE x = id
    BY <2>1, <1>4, <1>6, <1>8, Zenon
  <2>2. CASE x # id
    <3>1. /\ sigSubs'[x] = sigSubs[x] /\ sigSubs[x] \in SigStreams \ {s} /\ x \in DOMAIN sigSubs
          /\ inboxes[sigSubs[x]].live /\ inboxes[sigSubs[x]].open /\ inboxes[sigSubs[x]].node = x
      BY <2>2, <1>5, <1>6, Zenon DEF SignalInv, SignalsAgree
    <3>2. id \in DOMAIN sigSubs => sigSubs[id] # sigSubs[x]
      BY <2>2, <3>1, Zenon DEF SignalInv, SignalsAgree
    <3> QED
      BY <1>9, <3>1, <3>2, ZenonT(30)
  <2> QED
    BY <2>1, <2>2, Zenon
<1>12. ASSUME NEW t \in SigStreams, inboxes'[t].open
       PROVE  inboxes'[t].node \in DOMAIN sigSubs' /\ sigSubs'[inboxes'[t].node] = t
  <2>1. CASE t = s
    BY <2>1, <1>4, <1>6, <1>8, Zenon
  <2>2. CASE t # s
    <3>1. /\ inboxes[t].open /\ ~ (id \in DOMAIN sigSubs /\ sigSubs[id] = t)
          /\ inboxes'[t].node = inboxes[t].node
      BY <2>2, <1>9, <1>12, Zenon
    <3>2. inboxes[t].node \in DOMAIN sigSubs /\ sigSubs[inboxes[t].node] = t
      BY <3>1, Zenon DEF SignalInv, SignalsAgree
    <3> QED
      BY <1>6, <3>1, <3>2, Zenon
  <2> QED
    BY <2>1, <2>2, Zenon
<1>13. ASSUME NEW t \in SigStreams, NEW i \in 1 .. Len(inboxes'[t].buf)
       PROVE  inboxes'[t].buf[i].to = inboxes'[t].node
  <2>1. CASE t = s
    BY <2>1, <1>4, <1>8
  <2>2. CASE t # s
    BY <2>2, <1>9 DEF SignalInv, SignalsAgree
  <2> QED
    BY <2>1, <2>2, Zenon
<1>14. SignalsAgree'
  <2>1. DOMAIN sigSubs' \subseteq DOMAIN nodes'
    BY <1>2, <1>3, <1>6, Zenon DEF SignalInv, SignalsAgree
  <2> QED
    BY <2>1, <1>11, <1>12, <1>13, Zenon DEF SignalsAgree
<1>15. \A t \in SigStreams : inboxes'[t].live => inboxes'[t].node \in Ids
  BY <1>3, <1>4, <1>8, <1>9 DEF SignalInv
<1> QED
  BY <1>10, <1>14, <1>15, Zenon DEF SignalInv

(* Replacing the contents of one inbox by envelopes for its own node.      *)
LEMMA RefillInbox ==
    ASSUME SignalInv, nodes' = nodes, sigSubs' = sigSubs, NEW s \in SigStreams,
           NEW b \in Seq([from : Ids, to : Ids]), Len(b) <= SigCap,
           \A i \in 1 .. Len(b) : b[i].to = inboxes[s].node,
           inboxes' = [inboxes EXCEPT ![s].buf = b]
    PROVE  SignalInv'
<1> DEFINE ib == [inboxes[s] EXCEPT !.buf = b]
<1>1. inboxes \in [SigStreams -> Inbox] /\ inboxes[s] \in Inbox
  BY Zenon DEF SignalInv, SignalTypes
<1>2. ib \in Inbox
  BY <1>1, Zenon DEF Inbox
<1>3. ib.buf = b /\ ib.live = inboxes[s].live /\ ib.open = inboxes[s].open /\ ib.node = inboxes[s].node
  BY <1>1, Zenon DEF Inbox
<1>4. inboxes' = [inboxes EXCEPT ![s] = ib]
  BY Zenon
<1> HIDE DEF ib
<1>5. /\ inboxes' \in [SigStreams -> Inbox]
      /\ inboxes'[s].buf = b
      /\ \A t \in SigStreams \ {s} : inboxes'[t].buf = inboxes[t].buf
      /\ \A t \in SigStreams : /\ inboxes'[t].live = inboxes[t].live
                               /\ inboxes'[t].open = inboxes[t].open
                               /\ inboxes'[t].node = inboxes[t].node
  BY <1>1, <1>2, <1>3, <1>4, Zenon
<1>6. SignalTypes'
  BY <1>5, Zenon DEF SignalInv, SignalTypes
<1>7. \A t \in SigStreams : \A i \in 1 .. Len(inboxes'[t].buf) :
        inboxes'[t].buf[i].to = inboxes'[t].node
  <2> SUFFICES ASSUME NEW t \in SigStreams, NEW i \in 1 .. Len(inboxes'[t].buf)
               PROVE  inboxes'[t].buf[i].to = inboxes'[t].node
    BY Zenon
  <2>1. CASE t = s
    BY <2>1, <1>5, ZenonT(30)
  <2>2. CASE t # s
    BY <2>2, <1>5, ZenonT(30) DEF SignalInv, SignalsAgree
  <2> QED
    BY <2>1, <2>2, Zenon
<1>8. \A x \in DOMAIN sigSubs : sigSubs[x] \in SigStreams
  BY Zenon DEF SignalInv, SignalTypes
<1>9. SignalsAgree'
  BY <1>5, <1>7, <1>8 DEF SignalInv, SignalsAgree
<1> QED
  BY <1>5, <1>6, <1>9, Zenon DEF SignalInv

LEMMA RouteSignalStep ==
    ASSUME SignalInv, NEW s \in SigStreams, NEW to \in Ids, routeSignal(s, to)
    PROVE  SignalInv'
<1> DEFINE d == sigSubs[to]
           e == [from |-> inboxes[s].node, to |-> to]
           b == Append(inboxes[d].buf, e)
<1>1. /\ to \in DOMAIN sigSubs /\ inboxes[s].live /\ Len(inboxes[d].buf) < SigCap
      /\ nodes' = nodes /\ sigSubs' = sigSubs
      /\ inboxes' = [inboxes EXCEPT ![d].buf = b]
  BY Zenon DEF routeSignal, durable
<1>2. d \in SigStreams /\ inboxes[d].node = to
  BY <1>1, Zenon DEF SignalInv, SignalTypes, SignalsAgree
<1>3. e \in [from : Ids, to : Ids] /\ e.to = to
  BY <1>1, Zenon DEF SignalInv
<1>4. inboxes[d].buf \in Seq([from : Ids, to : Ids])
  BY <1>2, Zenon DEF SignalInv, SignalTypes, Inbox
<1>5. \A i \in 1 .. Len(inboxes[d].buf) : inboxes[d].buf[i].to = to
  BY <1>2, Zenon DEF SignalInv, SignalsAgree
<1> HIDE DEF e, d
<1>6. b \in Seq([from : Ids, to : Ids]) /\ Len(b) = Len(inboxes[d].buf) + 1
  BY <1>3, <1>4
<1>7. \A i \in 1 .. Len(b) : b[i].to = to
  BY <1>3, <1>4, <1>5, <1>6
<1>8. Len(b) <= SigCap
  BY <1>1, <1>4, <1>6, CoordinatorAssumption
<1> HIDE DEF b
<1> QED
  BY <1>1, <1>2, <1>6, <1>7, <1>8, RefillInbox, Zenon

LEMMA SendSignalStep ==
    ASSUME SignalInv, NEW s \in SigStreams, SendSignal(s)
    PROVE  SignalInv'
<1> DEFINE q == inboxes[s].buf
           b == Tail(q)
<1>1. /\ q # <<>> /\ nodes' = nodes /\ sigSubs' = sigSubs
      /\ inboxes' = [inboxes EXCEPT ![s].buf = b]
  BY Zenon DEF SendSignal, durable
<1>2. q \in Seq([from : Ids, to : Ids]) /\ Len(q) <= SigCap
  BY Zenon DEF SignalInv, SignalTypes, Inbox
<1>3. \A i \in 1 .. Len(q) : q[i].to = inboxes[s].node
  BY Zenon DEF SignalInv, SignalsAgree
<1> HIDE DEF q
<1>4. b \in Seq([from : Ids, to : Ids]) /\ Len(b) = Len(q) - 1 /\ Len(q) \in Nat
  BY <1>1, <1>2
<1>5. \A i \in 1 .. Len(b) : b[i] = q[i + 1] /\ i + 1 \in 1 .. Len(q)
  BY <1>1, <1>2, <1>4
<1>6. \A i \in 1 .. Len(b) : b[i].to = inboxes[s].node
  BY <1>3, <1>5
<1>7. Len(b) <= SigCap
  BY <1>2, <1>4, CoordinatorAssumption
<1> HIDE DEF b
<1> QED
  BY <1>1, <1>4, <1>6, <1>7, RefillInbox, Zenon

LEMMA SignalGoneStep ==
    ASSUME SignalInv, NEW s \in SigStreams, SignalGone(s)
    PROVE  SignalInv'
<1> DEFINE id == inboxes[s].node
           cur == id \in DOMAIN sigSubs /\ sigSubs[id] = s
<1>1. /\ sigSubs' = IF cur THEN Without(sigSubs, id) ELSE sigSubs
      /\ inboxes' = [inboxes EXCEPT ![s] = FreeInbox]
      /\ nodes' = nodes
  BY Zenon DEF SignalGone, durable
<1>2. FreeInbox \in Inbox /\ Len(FreeInbox.buf) = 0 /\ ~ FreeInbox.open /\ ~ FreeInbox.live
  BY DEF FreeInbox, Inbox
<1>3. /\ inboxes' \in [SigStreams -> Inbox] /\ inboxes'[s] = FreeInbox
      /\ \A t \in SigStreams \ {s} : inboxes'[t] = inboxes[t]
  BY <1>1, <1>2, Zenon DEF SignalInv, SignalTypes
<1>4. ASSUME NEW x \in DOMAIN sigSubs, sigSubs[x] = s PROVE cur /\ x = id
  BY <1>4, Zenon DEF SignalInv, SignalsAgree
<1>5. /\ DOMAIN sigSubs' = {x \in DOMAIN sigSubs : sigSubs[x] # s}
      /\ \A x \in DOMAIN sigSubs' : sigSubs'[x] = sigSubs[x]
      /\ sigSubs' \in [DOMAIN sigSubs' -> SigStreams]
  <2>1. CASE cur
    <3>1. DOMAIN sigSubs \ {id} = {x \in DOMAIN sigSubs : sigSubs[x] # s}
      BY <2>1, <1>4, Zenon
    <3> QED
      BY <1>1, <2>1, <3>1, Zenon DEF Without, SignalInv, SignalTypes
  <2>2. CASE ~ cur
    BY <1>1, <1>4, <2>2, Zenon DEF SignalInv, SignalTypes
  <2> QED
    BY <2>1, <2>2, Zenon
<1> HIDE DEF cur, id
<1>6. SignalTypes'
  BY <1>2, <1>3, <1>5, CoordinatorAssumption DEF SignalInv, SignalTypes
<1>7. ASSUME NEW x \in DOMAIN sigSubs'
      PROVE  inboxes'[sigSubs'[x]].live /\ inboxes'[sigSubs'[x]].open /\ inboxes'[sigSubs'[x]].node = x
  <2>1. x \in DOMAIN sigSubs /\ sigSubs'[x] = sigSubs[x] /\ sigSubs[x] \in SigStreams \ {s}
    BY <1>5, Zenon DEF SignalInv, SignalTypes
  <2>2. inboxes'[sigSubs'[x]] = inboxes[sigSubs[x]]
    BY <1>3, <2>1, Zenon
  <2> QED
    BY <2>1, <2>2, Zenon DEF SignalInv, SignalsAgree
<1>8. ASSUME NEW t \in SigStreams, inboxes'[t].open
      PROVE  inboxes'[t].node \in DOMAIN sigSubs' /\ sigSubs'[inboxes'[t].node] = t
  <2>1. t # s /\ inboxes'[t] = inboxes[t]
    BY <1>2, <1>3, <1>8, Zenon
  <2>2. inboxes[t].node \in DOMAIN sigSubs /\ sigSubs[inboxes[t].node] = t
    BY <1>8, <2>1, Zenon DEF SignalInv, SignalsAgree
  <2> QED
    BY <1>5, <2>1, <2>2, Zenon
<1>9. ASSUME NEW t \in SigStreams, NEW i \in 1 .. Len(inboxes'[t].buf)
      PROVE  inboxes'[t].buf[i].to = inboxes'[t].node
  <2>1. CASE t = s
    BY <2>1, <1>2, <1>3
  <2>2. CASE t # s
    BY <2>2, <1>3, ZenonT(30) DEF SignalInv, SignalsAgree
  <2> QED
    BY <2>1, <2>2, Zenon
<1>10. SignalsAgree'
  <2>1. DOMAIN sigSubs' \subseteq DOMAIN nodes'
    BY <1>1, <1>5, Zenon DEF SignalInv, SignalsAgree
  <2> QED
    BY <2>1, <1>7, <1>8, <1>9, Zenon DEF SignalsAgree
<1>11. \A t \in SigStreams : inboxes'[t].live => inboxes'[t].node \in Ids
  BY <1>2, <1>3, Zenon DEF SignalInv
<1> QED
  BY <1>6, <1>10, <1>11, Zenon DEF SignalInv

LEMMA RestartSignals ==
    ASSUME SignalInv, Restart
    PROVE  SignalInv'
<1>1. FreeInbox \in Inbox /\ Len(FreeInbox.buf) = 0 /\ ~ FreeInbox.open /\ ~ FreeInbox.live
  BY DEF FreeInbox, Inbox
<1>2. inboxes' = [s \in SigStreams |-> FreeInbox] /\ sigSubs' = <<>> /\ nodes' = nodes
  BY Zenon DEF Restart, durable
<1>3. inboxes' \in [SigStreams -> Inbox] /\ \A s \in SigStreams : inboxes'[s] = FreeInbox
  BY <1>1, <1>2, Zenon
<1> QED
  BY <1>1, <1>2, <1>3, CoordinatorAssumption DEF SignalInv, SignalTypes, SignalsAgree

(* The steps that leave the inboxes alone and remove no row.               *)
LEMMA OtherSignalSteps ==
    ASSUME EnrolTypes, [Next]_vars,
           \A id \in Ids : ~ DeleteNode(id), ~ Restart,
           \A m \in Machines, s \in SigStreams : ~ signalSubscribe(m, s),
           \A s \in SigStreams, to \in Ids : ~ routeSignal(s, to),
           \A s \in SigStreams : ~ SendSignal(s) /\ ~ SignalGone(s)
    PROVE  UNCHANGED signalVars /\ DOMAIN nodes \subseteq DOMAIN nodes'
<1> DEFINE Goal == UNCHANGED signalVars /\ DOMAIN nodes \subseteq DOMAIN nodes'
<1> USE DEF signalVars, durable
<1>1. ASSUME NEW k \in SetupKeys, NewSetupKey(k) \/ RevokeSetupKey(k) \/ ExpireSetupKey(k) PROVE Goal
  BY <1>1, Zenon DEF NewSetupKey, RevokeSetupKey, ExpireSetupKey
<1>2. ASSUME NEW m \in Machines, NEW nk \in NodeKeys, NEW h \in Names \cup {NoName},
             NEW rts \in SUBSET Routes, RegisterKnown(m, nk, h, rts)
      PROVE  Goal
  BY <1>2, Zenon DEF RegisterKnown
<1>3. ASSUME NEW m \in Machines, NEW nk \in NodeKeys, NEW h \in Names \cup {NoName},
             NEW rts \in SUBSET Routes, NEW k \in SetupKeys, RegisterNew(m, k, nk, h, rts)
      PROVE  Goal
  BY <1>3, Zenon DEF RegisterNew
<1>4. ASSUME CreateNode PROVE Goal
  BY <1>4, Zenon DEF CreateNode, With
<1>5. ASSUME PrefixExhausted \/ CreateNodeFails \/ RegisterFails PROVE Goal
  BY <1>5, Zenon DEF PrefixExhausted, CreateNodeFails, RegisterFails
<1>6. ASSUME UpdateNodeIPv6 \/ FinishRegister PROVE Goal
  BY <1>6, Zenon DEF UpdateNodeIPv6, FinishRegister
<1>7. ASSUME NEW m \in Machines, NEW ep \in Endpoints, UpdateEndpoints(m, ep) PROVE Goal
  BY <1>7, Zenon DEF UpdateEndpoints
<1>8. ASSUME NEW id \in Ids, NEW r \in Routes, NEW b \in BOOLEAN, SetRouteApproved(id, r, b) PROVE Goal
  BY <1>8, Zenon DEF SetRouteApproved
<1>9. ASSUME NEW rules \in ACLs \cup {NoACL}, SetACL(rules) PROVE Goal
  BY <1>9, Zenon DEF SetACL
<1>10. ASSUME ACLChanged PROVE Goal
  BY <1>10, Zenon DEF ACLChanged
<1>11. ASSUME NEW m \in Machines, NEW s \in Streams, Subscribe(m, s) PROVE Goal
  BY <1>11, Zenon DEF Subscribe
<1>12. ASSUME NEW s \in Streams, SendNetMap(s) PROVE Goal
  BY <1>12, Zenon DEF SendNetMap
<1>13. ASSUME NEW s \in Streams, StreamGone(s) \/ StreamRemoved(s) PROVE Goal
  BY <1>13, Zenon DEF StreamGone, StreamRemoved, unsub
<1>14. ASSUME UNCHANGED vars PROVE Goal
  BY <1>14, Zenon DEF vars
<1> HIDE DEF Goal
<1> QED
  BY <1>1, <1>2, <1>3, <1>4, <1>5, <1>6, <1>7, <1>8, <1>9, <1>10, <1>11, <1>12, <1>13, <1>14,
     Zenon DEF Next, Goal

LEMMA NextSignals == EnrolInv /\ SignalInv /\ [Next]_vars => SignalInv'
<1> SUFFICES ASSUME EnrolInv, SignalInv, [Next]_vars PROVE SignalInv'
  BY Zenon
<1>1. EnrolTypes
  BY Zenon DEF EnrolInv
<1>2. ASSUME NEW id \in Ids, DeleteNode(id) PROVE SignalInv'
  BY <1>2, DeleteNodeSignals, Zenon
<1>3. CASE Restart
  BY <1>3, RestartSignals, Zenon
<1>4. ASSUME NEW m \in Machines, NEW s \in SigStreams, signalSubscribe(m, s) PROVE SignalInv'
  BY <1>1, <1>4, SignalSubscribeStep, Zenon
<1>5. ASSUME NEW s \in SigStreams, NEW to \in Ids, routeSignal(s, to) PROVE SignalInv'
  BY <1>5, RouteSignalStep, Zenon
<1>6. ASSUME NEW s \in SigStreams, SendSignal(s) \/ SignalGone(s) PROVE SignalInv'
  BY <1>6, SendSignalStep, SignalGoneStep, Zenon
<1> QED
  BY <1>1, <1>2, <1>3, <1>4, <1>5, <1>6, OtherSignalSteps, SignalsQuiet, Zenon

(* Inboxes and sigSubs agree, and an envelope only ever waits in the inbox *)
(* of the node it is addressed to, for any number of devices and streams.  *)
THEOREM SignalInvariant == Spec => []SignalInv
<1>1. Init => EnrolInv /\ SignalInv
  BY InitEnrol, InitSignals, Zenon
<1>2. EnrolInv /\ SignalInv /\ [Next]_vars => EnrolInv' /\ SignalInv'
  BY NextEnrol, NextSignals, Zenon
<1> QED
  BY <1>1, <1>2, PTL DEF Spec

(* The signal inboxes are consistent with sigSubs in every reachable state. *)
THEOREM SignalAgreement == Spec => []SignalsAgree
  BY SignalInvariant, PTL DEF SignalInv

(* Every variable of the control plane keeps its type.                     *)
THEOREM TypeCorrect == Spec => []TypeOK
<1>1. EnrolInv /\ StreamInv /\ SignalInv => TypeOK
  BY Zenon DEF EnrolInv, StreamInv, SignalInv, TypeOK
<1> QED
  BY <1>1, EnrolInvariant, StreamInvariant, SignalInvariant, PTL
=============================================================================
