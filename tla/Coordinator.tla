---------------------------- MODULE Coordinator ----------------------------
(***************************************************************************)
(* The control plane of one mesh network: coord.Coordinator over the       *)
(* SQLite store, its IPAM allocator, the netmap streams and the signal     *)
(* streams.                                                                *)
(*                                                                         *)
(* nodes, nextID, keys and acl are database tables and survive a restart;  *)
(* ipam, subs, sigSubs, online and every stream live in the server process *)
(* and do not.  Coordinator.mu serialises the handlers.  Register is the   *)
(* one handler with several database writes, so it is split at each write  *)
(* (reg is its program counter) and holds the lock in between: every       *)
(* handler that takes the lock waits for Idle.  Writes that go straight to *)
(* the store (setup keys, ACL) do not.                                     *)
(***************************************************************************)
EXTENDS IpamOps, Sequences, FiniteSets

CONSTANTS
    Machines,      \* machine keys: one per device
    NodeKeys,      \* WireGuard public keys a device may register
    SetupKeys,     \* setup keys an admin may create
    SingleUse,     \* those created with reusable = false
    Names,         \* hostnames a device may ask for; sequences <<label, suffix...>>
    NoName,        \* the empty hostname
    Routes,        \* CIDRs a device may offer to route
    Endpoints,     \* endpoint lists a device may report
    NoEndpoints,   \* the "[]" a row is created with
    ACLs,          \* rule lists an admin may save
    NoACL,         \* the empty rule list
    Streams,       \* StreamNetMap calls in progress at any one time
    SigStreams,    \* SignalStream calls in progress at any one time
    ChanCap,       \* capacity of a netmap push channel (8 in the code)
    SigCap,        \* capacity of a signal inbox (32 in the code)
    MaxID,         \* bound on the node ids AUTOINCREMENT hands out
    ACLWriters,    \* bound on handleSetACL calls in progress at one time
    StoreFaults    \* whether a database write may fail (reads do not)

ASSUME CoordinatorAssumption ==
    /\ SingleUse \subseteq SetupKeys
    /\ NoName \notin Names
    /\ NoEndpoints \notin Endpoints
    /\ NoACL \notin ACLs
    /\ ChanCap \in Nat /\ ChanCap >= 2
    /\ SigCap \in Nat /\ SigCap >= 1
    /\ MaxID \in Nat
    /\ ACLWriters \in Nat
    /\ StoreFaults \in BOOLEAN

VARIABLES
    nodes,       \* nodes + node_routes tables: id -> row
    nextID,      \* the nodes table's AUTOINCREMENT counter
    keys,        \* setup_keys table
    acl,         \* acl_rules table
    aclPending,  \* handleSetACL calls between SetACL and ACLChanged
    ipam,        \* ipams[network]: absent until allocatorFor builds it
    online,      \* the ids that Coordinator.online maps to true
    subs,        \* id -> its current netmap stream
    streams,     \* netmap push channels and the handlers that drain them
    sigSubs,     \* id -> its current signal stream
    inboxes,     \* signal inboxes and their handlers
    reg,         \* the Register call that holds the lock between two writes
    enrolled     \* history: the ids each setup key has enrolled

durable == <<nodes, nextID, keys, acl>>
netmapVars == <<online, subs, streams>>
signalVars == <<sigSubs, inboxes>>
vars == <<nodes, nextID, keys, acl, aclPending, ipam, online, subs, streams,
          sigSubs, inboxes, reg, enrolled>>

Ids == 1 .. MaxID

Idle == [pc |-> "idle"]

-----------------------------------------------------------------------------
(* Rows and netmaps.                                                       *)

\* AllocateV6For: the address is a function of the row id alone.
V6For(id) == <<"v6", id>>
\* The IPv4 address CreateNode stores in the ipv6 column.
V4Placeholder(a) == <<"v4", a>>

HostnameTaken(nds, h) == \E id \in DOMAIN nds : nds[id].hostname = h

\* dedupeHostname: h itself, else h with the first free suffix -2, -3, ...
dedupeHostname(nds, h) ==
    IF ~ HostnameTaken(nds, h) THEN {h}
    ELSE {Append(h, i) : i \in {j \in 2 .. MaxID + 1 :
            /\ ~ HostnameTaken(nds, Append(h, j))
            /\ \A k \in 2 .. j - 1 : HostnameTaken(nds, Append(h, k))}}

\* A slip: rewriting the offers forgets the approvals.
SetAdvertisedRoutes_Forgets(row, rts) == [row EXCEPT !.offered = rts, !.approved = {}]

SetAdvertisedRoutes(row, rts) ==
    [row EXCEPT !.offered = rts, !.approved = @ \cap rts]

overlayCIDRs(row) == <<row.ipv4, row.ipv6>>

peerEntry(nds, onl, p) ==
    [id |-> p, hostname |-> nds[p].hostname, nkey |-> nds[p].nkey,
     ips |-> overlayCIDRs(nds[p]), endpoints |-> nds[p].endpoints,
     online |-> p \in onl, routes |-> nds[p].approved]

\* buildNetMapLocked; the filter is a function of the saved rules, the
\* receiving node and the existing rows, all of which the map determines.
buildNetMap(nds, onl, rules, id) ==
    [self |-> id, hostname |-> nds[id].hostname, ips |-> overlayCIDRs(nds[id]),
     routes |-> nds[id].approved, filter |-> rules,
     peers |-> {peerEntry(nds, onl, p) : p \in DOMAIN nds \ {id}}]

-----------------------------------------------------------------------------
(* Push channels.  buf and open are the channel, live says the handler     *)
(* that drains it is running, got is the last map it sent to the device.   *)
(* missed is history: the newest map did not fit into the channel.         *)

FreeStream == [live |-> FALSE, node |-> 0, open |-> FALSE, buf |-> <<>>,
               got |-> <<>>, missed |-> FALSE]
NewStream(id, nm) == [live |-> TRUE, node |-> id, open |-> TRUE, buf |-> <<nm>>,
                      got |-> <<>>, missed |-> FALSE]

push(st, nm) ==
    IF Len(st.buf) < ChanCap
    THEN [st EXCEPT !.buf = Append(@, nm), !.missed = FALSE]
    ELSE [st EXCEPT !.missed = TRUE]

\* notifyNetworkLocked: a fresh map for every row that has a stream.
notifyNetwork(nds, onl, rules, sb, sts) ==
    [s \in Streams |->
        IF \E id \in DOMAIN sb : id \in DOMAIN nds /\ sb[id] = s
        THEN push(sts[s], buildNetMap(nds, onl, rules, sts[s].node))
        ELSE sts[s]]

closeStream(sts, s) == [sts EXCEPT ![s].open = FALSE]

Without(f, x) == [y \in DOMAIN f \ {x} |-> f[y]]
With(f, x, v) == [y \in DOMAIN f \cup {x} |-> IF y = x THEN v ELSE f[y]]

NoIpam == [loaded |-> FALSE, used |-> {}, next |-> 1]

FreeInbox == [live |-> FALSE, node |-> 0, open |-> FALSE, buf |-> <<>>]
NewInbox(id) == [live |-> TRUE, node |-> id, open |-> TRUE, buf |-> <<>>]

-----------------------------------------------------------------------------
Init ==
    /\ nodes = <<>>
    /\ nextID = 1
    /\ keys = [k \in SetupKeys |-> [status |-> "absent", used |-> FALSE]]
    /\ acl = NoACL
    /\ aclPending = 0
    /\ ipam = NoIpam
    /\ online = {}
    /\ subs = <<>>
    /\ streams = [s \in Streams |-> FreeStream]
    /\ sigSubs = <<>>
    /\ inboxes = [s \in SigStreams |-> FreeInbox]
    /\ reg = Idle
    /\ enrolled = [k \in SetupKeys |-> {}]

-----------------------------------------------------------------------------
(* Setup keys: store calls made without Coordinator.mu.                    *)

NewSetupKey(k) ==
    /\ keys[k].status = "absent"
    /\ keys' = [keys EXCEPT ![k].status = "valid"]
    /\ UNCHANGED <<nodes, nextID, acl, aclPending, ipam, netmapVars, signalVars, reg, enrolled>>

RevokeSetupKey(k) ==
    /\ keys[k].status # "absent"
    /\ keys' = [keys EXCEPT ![k].status = "revoked"]
    /\ UNCHANGED <<nodes, nextID, acl, aclPending, ipam, netmapVars, signalVars, reg, enrolled>>

\* The clock passes the key's expires_at.
ExpireSetupKey(k) ==
    /\ keys[k].status = "valid"
    /\ keys' = [keys EXCEPT ![k].status = "expired"]
    /\ UNCHANGED <<nodes, nextID, acl, aclPending, ipam, netmapVars, signalVars, reg, enrolled>>

-----------------------------------------------------------------------------
(* Register.                                                               *)

NodeOf(m) == {id \in DOMAIN nodes : nodes[id].mkey = m}

\* Re-registration, first write: UpdateNodeOnRegister.
RegisterKnown(m, nk, h, rts) ==
    /\ reg = Idle
    /\ \E id \in NodeOf(m) :
         /\ nodes' = [nodes EXCEPT
                ![id].nkey = nk,
                ![id].hostname = IF h # NoName /\ ~ HostnameTaken(nodes, h) THEN h ELSE @]
         /\ reg' = [pc |-> "routes", id |-> id, new |-> FALSE, rts |-> rts]
    /\ UNCHANGED <<nextID, keys, acl, aclPending, ipam, netmapVars, signalVars, enrolled>>

\* A slip: the spent check is missing.
usable_Spent(k) == keys[k].status = "valid"

\* UseSetupKey's checks: known, not revoked, not expired, not spent.
usable(k) == keys[k].status = "valid" /\ ~ (k \in SingleUse /\ keys[k].used)

\* New device, first write: UseSetupKey counts the use.
RegisterNew(m, k, nk, h, rts) ==
    /\ reg = Idle
    /\ NodeOf(m) = {}
    /\ usable(k)
    /\ nextID \in Ids
    /\ keys' = [keys EXCEPT ![k].used = TRUE]
    /\ reg' = [pc |-> "create", m |-> m, k |-> k, nk |-> nk, h |-> h, rts |-> rts]
    /\ UNCHANGED <<nodes, nextID, acl, aclPending, ipam, netmapVars, signalVars, enrolled>>

\* A slip: the allocator is not seeded with the stored addresses.
allocatorFor_Unseeded(nds) == [NoIpam EXCEPT !.loaded = TRUE]

\* allocatorFor: the allocator in memory, or one seeded from the rows.
allocatorFor(nds) ==
    IF ipam.loaded THEN ipam
    ELSE [loaded |-> TRUE, used |-> {nds[id].ipv4 : id \in DOMAIN nds}, next |-> 1]

\* New device, second write: AllocateV4, dedupeHostname, CreateNode.
CreateNode ==
    /\ reg.pc = "create"
    /\ LET a == allocatorFor(nodes)
           base == IF reg.h = NoName THEN <<"node">> ELSE reg.h IN
       \E v4 \in FirstFree(a.used, a.next), name \in dedupeHostname(nodes, base) :
         /\ ipam' = [a EXCEPT !.used = @ \cup {v4}, !.next = advance(v4)]
         /\ nodes' = With(nodes, nextID,
                [mkey |-> reg.m, nkey |-> reg.nk, hostname |-> name, ipv4 |-> v4,
                 ipv6 |-> V4Placeholder(v4), endpoints |-> NoEndpoints,
                 offered |-> {}, approved |-> {}])
    /\ nextID' = nextID + 1
    /\ enrolled' = [enrolled EXCEPT ![reg.k] = @ \cup {nextID}]
    /\ reg' = [pc |-> "ipv6", id |-> nextID, new |-> TRUE, rts |-> reg.rts]
    /\ UNCHANGED <<keys, acl, aclPending, netmapVars, signalVars>>

\* AllocateV4 finds the prefix exhausted: the scan leaves the cursor where
\* it was, and the use of the setup key stays counted.
PrefixExhausted ==
    /\ reg.pc = "create"
    /\ Free(allocatorFor(nodes).used) = {}
    /\ ipam' = allocatorFor(nodes)
    /\ reg' = Idle
    /\ UNCHANGED <<durable, aclPending, netmapVars, signalVars, enrolled>>

\* A slip: the address is not released when CreateNode fails.
CreateNodeFails_Leaks ==
    /\ StoreFaults
    /\ reg.pc = "create"
    /\ LET a == allocatorFor(nodes) IN
       \E v4 \in FirstFree(a.used, a.next) :
         ipam' = [a EXCEPT !.used = @ \cup {v4}, !.next = advance(v4)]
    /\ reg' = Idle
    /\ UNCHANGED <<durable, aclPending, netmapVars, signalVars, enrolled>>

\* CreateNode fails: the address goes back, the cursor has moved on.
CreateNodeFails ==
    /\ StoreFaults
    /\ reg.pc = "create"
    /\ LET a == allocatorFor(nodes) IN
       \E v4 \in FirstFree(a.used, a.next) :
         ipam' = [a EXCEPT !.next = advance(v4)]
    /\ reg' = Idle
    /\ UNCHANGED <<durable, aclPending, netmapVars, signalVars, enrolled>>

\* New device, third write: AllocateV6For, UpdateNodeIPv6.
UpdateNodeIPv6 ==
    /\ reg.pc = "ipv6"
    /\ nodes' = [nodes EXCEPT ![reg.id].ipv6 = V6For(reg.id)]
    /\ reg' = [reg EXCEPT !.pc = "routes"]
    /\ UNCHANGED <<nextID, keys, acl, aclPending, ipam, netmapVars, signalVars, enrolled>>

\* Last write of both paths: SetAdvertisedRoutes, then notifyNetworkLocked.
FinishRegister ==
    /\ reg.pc = "routes"
    /\ nodes' = [nodes EXCEPT ![reg.id] = SetAdvertisedRoutes(@, reg.rts)]
    /\ streams' = notifyNetwork(nodes', online, acl, subs, streams)
    /\ reg' = Idle
    /\ UNCHANGED <<nextID, keys, acl, aclPending, ipam, online, subs, signalVars, enrolled>>

\* UpdateNodeIPv6 or SetAdvertisedRoutes fails: Register returns the error,
\* keeps what it has written and pushes nothing.  A new device without
\* routes skips SetAdvertisedRoutes.
RegisterFails ==
    /\ StoreFaults
    /\ reg.pc = "ipv6" \/ (reg.pc = "routes" /\ (reg.new => reg.rts # {}))
    /\ reg' = Idle
    /\ UNCHANGED <<durable, aclPending, ipam, netmapVars, signalVars, enrolled>>

-----------------------------------------------------------------------------
(* The other handlers that take the lock.                                  *)

UpdateEndpoints(m, ep) ==
    /\ reg = Idle
    /\ \E id \in NodeOf(m) : nodes' = [nodes EXCEPT ![id].endpoints = ep]
    /\ streams' = notifyNetwork(nodes', online, acl, subs, streams)
    /\ UNCHANGED <<nextID, keys, acl, aclPending, ipam, online, subs, signalVars, reg, enrolled>>

\* A slip: the approval is stored but not pushed.
SetRouteApproved_Silent(id, r, approved) ==
    /\ reg = Idle
    /\ id \in DOMAIN nodes
    /\ r \in nodes[id].offered
    /\ nodes' = [nodes EXCEPT ![id].approved = IF approved THEN @ \cup {r} ELSE @ \ {r}]
    /\ UNCHANGED <<nextID, keys, acl, aclPending, ipam, netmapVars, signalVars, reg, enrolled>>

SetRouteApproved(id, r, approved) ==
    /\ reg = Idle
    /\ id \in DOMAIN nodes
    /\ r \in nodes[id].offered
    /\ nodes' = [nodes EXCEPT ![id].approved = IF approved THEN @ \cup {r} ELSE @ \ {r}]
    /\ streams' = notifyNetwork(nodes', online, acl, subs, streams)
    /\ UNCHANGED <<nextID, keys, acl, aclPending, ipam, online, subs, signalVars, reg, enrolled>>

\* handleSetACL: the store write, then ACLChanged under the lock.
SetACL(rules) ==
    /\ aclPending < ACLWriters
    /\ acl' = rules
    /\ aclPending' = aclPending + 1
    /\ UNCHANGED <<nodes, nextID, keys, ipam, netmapVars, signalVars, reg, enrolled>>

ACLChanged ==
    /\ reg = Idle
    /\ aclPending > 0
    /\ aclPending' = aclPending - 1
    /\ streams' = notifyNetwork(nodes, online, acl, subs, streams)
    /\ UNCHANGED <<durable, ipam, online, subs, signalVars, reg, enrolled>>

\* Coordinator.DeleteNode; the node_routes rows go with ON DELETE CASCADE.
DeleteNode(id) ==
    /\ reg = Idle
    /\ id \in DOMAIN nodes
    /\ nodes' = Without(nodes, id)
    /\ subs' = Without(subs, id)
    /\ sigSubs' = Without(sigSubs, id)
    /\ online' = online \ {id}
    /\ LET a == allocatorFor(nodes') IN ipam' = [a EXCEPT !.used = @ \ {nodes[id].ipv4}]
    /\ LET kicked == IF id \in DOMAIN subs THEN closeStream(streams, subs[id]) ELSE streams
       IN streams' = notifyNetwork(nodes', online', acl, subs', kicked)
    /\ inboxes' = IF id \in DOMAIN sigSubs THEN closeStream(inboxes, sigSubs[id]) ELSE inboxes
    /\ UNCHANGED <<nextID, keys, acl, aclPending, reg, enrolled>>

-----------------------------------------------------------------------------
(* StreamNetMap.                                                           *)

\* Subscribe: replace (close) the old channel, prime the new one, fan out.
Subscribe(m, s) ==
    /\ reg = Idle
    /\ ~ streams[s].live
    /\ \E id \in NodeOf(m) :
         LET closed == IF id \in DOMAIN subs THEN closeStream(streams, subs[id]) ELSE streams
             primed == [closed EXCEPT ![s] =
                 NewStream(id, buildNetMap(nodes, online \cup {id}, acl, id))]
         IN /\ subs' = With(subs, id, s)
            /\ online' = online \cup {id}
            /\ streams' = notifyNetwork(nodes, online', acl, subs', primed)
    /\ UNCHANGED <<durable, aclPending, ipam, signalVars, reg, enrolled>>

\* The handler takes a map off its channel and stream.Send returns.
SendNetMap(s) ==
    /\ streams[s].live
    /\ streams[s].buf # <<>>
    /\ streams' = [streams EXCEPT ![s].buf = Tail(@), ![s].got = <<Head(streams[s].buf)>>]
    /\ UNCHANGED <<durable, aclPending, ipam, online, subs, signalVars, reg, enrolled>>

\* A slip: unsub does not ask whether its channel is still the current one.
unsub_Unchecked(s) ==
    /\ reg = Idle
    /\ subs' = Without(subs, streams[s].node)
    /\ online' = online \ {streams[s].node}
    /\ streams' = notifyNetwork(nodes, online', acl, subs', [streams EXCEPT ![s] = FreeStream])
    /\ UNCHANGED <<durable, aclPending, ipam, signalVars, reg, enrolled>>

\* A slip: going offline is not pushed to the peers.
unsub_Silent(s) ==
    /\ reg = Idle
    /\ streams' = [streams EXCEPT ![s] = FreeStream]
    /\ IF streams[s].node \in DOMAIN subs /\ subs[streams[s].node] = s
       THEN subs' = Without(subs, streams[s].node) /\ online' = online \ {streams[s].node}
       ELSE UNCHANGED <<subs, online>>
    /\ UNCHANGED <<durable, aclPending, ipam, signalVars, reg, enrolled>>

\* The handler returns and its deferred unsub runs.
unsub(s) ==
    LET id == streams[s].node
        ended == [streams EXCEPT ![s] = FreeStream] IN
    /\ reg = Idle
    /\ IF id \in DOMAIN subs /\ subs[id] = s
       THEN /\ subs' = Without(subs, id)
            /\ online' = online \ {id}
            /\ streams' = notifyNetwork(nodes, online', acl, subs', ended)
       ELSE /\ streams' = ended
            /\ UNCHANGED <<subs, online>>
    /\ UNCHANGED <<durable, aclPending, ipam, signalVars, reg, enrolled>>

\* The device goes away, or stream.Send fails.
StreamGone(s) == streams[s].live /\ unsub(s)

\* A slip: the loop ignores the receive's second result and goes on.
StreamRemoved_Ignored(s) ==
    /\ streams[s].live
    /\ ~ streams[s].open
    /\ streams[s].buf = <<>>
    /\ UNCHANGED vars

\* The channel was closed and is drained: "node removed from network".
StreamRemoved(s) ==
    /\ streams[s].live
    /\ ~ streams[s].open
    /\ streams[s].buf = <<>>
    /\ unsub(s)

-----------------------------------------------------------------------------
(* SignalStream.                                                           *)

signalSubscribe(m, s) ==
    /\ reg = Idle
    /\ ~ inboxes[s].live
    /\ \E id \in NodeOf(m) :
         LET closed == IF id \in DOMAIN sigSubs THEN closeStream(inboxes, sigSubs[id]) ELSE inboxes
         IN /\ sigSubs' = With(sigSubs, id, s)
            /\ inboxes' = [closed EXCEPT ![s] = NewInbox(id)]
    /\ UNCHANGED <<durable, aclPending, ipam, netmapVars, reg, enrolled>>

\* An envelope from the device on stream s, addressed to node id `to'.
routeSignal(s, to) ==
    /\ reg = Idle
    /\ inboxes[s].live
    /\ to \in DOMAIN nodes
    /\ to \in DOMAIN sigSubs
    /\ Len(inboxes[sigSubs[to]].buf) < SigCap
    /\ inboxes' = [inboxes EXCEPT ![sigSubs[to]].buf =
                      Append(@, [from |-> inboxes[s].node, to |-> to])]
    /\ UNCHANGED <<durable, aclPending, ipam, netmapVars, sigSubs, reg, enrolled>>

SendSignal(s) ==
    /\ inboxes[s].live
    /\ inboxes[s].buf # <<>>
    /\ inboxes' = [inboxes EXCEPT ![s].buf = Tail(@)]
    /\ UNCHANGED <<durable, aclPending, ipam, netmapVars, sigSubs, reg, enrolled>>

\* A slip: the subscription outlives its handler.
SignalGone_KeepsSub(s) ==
    /\ reg = Idle
    /\ inboxes[s].live
    /\ inboxes' = [inboxes EXCEPT ![s] = FreeInbox]
    /\ UNCHANGED <<durable, aclPending, ipam, netmapVars, sigSubs, reg, enrolled>>

\* The device goes away, or the inbox was closed and is drained; unsub.
SignalGone(s) ==
    /\ reg = Idle
    /\ inboxes[s].live
    /\ LET id == inboxes[s].node IN
       sigSubs' = IF id \in DOMAIN sigSubs /\ sigSubs[id] = s THEN Without(sigSubs, id) ELSE sigSubs
    /\ inboxes' = [inboxes EXCEPT ![s] = FreeInbox]
    /\ UNCHANGED <<durable, aclPending, ipam, netmapVars, reg, enrolled>>

-----------------------------------------------------------------------------
\* The server process dies, at any point of any handler, and comes back.
Restart ==
    /\ aclPending' = 0
    /\ ipam' = NoIpam
    /\ online' = {}
    /\ subs' = <<>>
    /\ streams' = [s \in Streams |-> FreeStream]
    /\ sigSubs' = <<>>
    /\ inboxes' = [s \in SigStreams |-> FreeInbox]
    /\ reg' = Idle
    /\ UNCHANGED <<durable, enrolled>>

Next ==
    \/ \E k \in SetupKeys : NewSetupKey(k) \/ RevokeSetupKey(k) \/ ExpireSetupKey(k)
    \/ \E m \in Machines, nk \in NodeKeys, h \in Names \cup {NoName}, rts \in SUBSET Routes :
          \/ RegisterKnown(m, nk, h, rts)
          \/ \E k \in SetupKeys : RegisterNew(m, k, nk, h, rts)
    \/ CreateNode
    \/ PrefixExhausted
    \/ CreateNodeFails
    \/ UpdateNodeIPv6
    \/ FinishRegister
    \/ RegisterFails
    \/ \E m \in Machines, ep \in Endpoints : UpdateEndpoints(m, ep)
    \/ \E id \in Ids, r \in Routes, b \in BOOLEAN : SetRouteApproved(id, r, b)
    \/ \E rules \in ACLs \cup {NoACL} : SetACL(rules)
    \/ ACLChanged
    \/ \E id \in Ids : DeleteNode(id)
    \/ \E m \in Machines, s \in Streams : Subscribe(m, s)
    \/ \E s \in Streams : SendNetMap(s) \/ StreamGone(s) \/ StreamRemoved(s)
    \/ \E m \in Machines, s \in SigStreams : signalSubscribe(m, s)
    \/ \E s \in SigStreams, to \in Ids : routeSignal(s, to)
    \/ \E s \in SigStreams : SendSignal(s) \/ SignalGone(s)
    \/ Restart

Spec == Init /\ [][Next]_vars

\* The lock is handed to every waiter in the end (sync.Mutex does not
\* starve) and a handler that runs goes on; a connected device keeps reading.
Fairness ==
    /\ WF_vars(CreateNode \/ PrefixExhausted \/ UpdateNodeIPv6 \/ FinishRegister)
    /\ SF_vars(ACLChanged)
    /\ \A s \in Streams : WF_vars(SendNetMap(s)) /\ SF_vars(StreamRemoved(s))

FairSpec == Spec /\ Fairness

-----------------------------------------------------------------------------
(* Types.                                                                  *)

AllNames ==
    LET asked == Names \cup {<<"node">>}
    IN asked \cup {Append(h, i) : h \in asked, i \in 2 .. MaxID + 1}

IPv6s == {V6For(id) : id \in Ids} \cup {V4Placeholder(a) : a \in HostAddrs}
Overlay == HostAddrs \X IPv6s

Row == [mkey : Machines, nkey : NodeKeys, hostname : AllNames, ipv4 : HostAddrs, ipv6 : IPv6s,
        endpoints : Endpoints \cup {NoEndpoints},
        offered : SUBSET Routes, approved : SUBSET Routes]

RegState ==
    {Idle}
    \cup [pc : {"create"}, m : Machines, k : SetupKeys, nk : NodeKeys,
          h : Names \cup {NoName}, rts : SUBSET Routes]
    \cup [pc : {"ipv6", "routes"}, id : DOMAIN nodes, new : BOOLEAN, rts : SUBSET Routes]

PeerEntry == [id : Ids, hostname : AllNames, nkey : NodeKeys, ips : Overlay,
              endpoints : Endpoints \cup {NoEndpoints}, online : BOOLEAN,
              routes : SUBSET Routes]

NetMap == [self : Ids, hostname : AllNames, ips : Overlay, routes : SUBSET Routes,
           filter : ACLs \cup {NoACL}, peers : SUBSET PeerEntry]

Stream == [live : BOOLEAN, node : Ids \cup {0}, open : BOOLEAN, buf : Seq(NetMap),
           got : Seq(NetMap), missed : BOOLEAN]

Inbox == [live : BOOLEAN, node : Ids \cup {0}, open : BOOLEAN, buf : Seq([from : Ids, to : Ids])]

EnrolTypes ==
    /\ nextID \in 1 .. MaxID + 1
    /\ DOMAIN nodes \subseteq 1 .. nextID - 1
    /\ nodes \in [DOMAIN nodes -> Row]
    /\ keys \in [SetupKeys -> [status : {"absent", "valid", "revoked", "expired"}, used : BOOLEAN]]
    /\ ipam \in [loaded : BOOLEAN, used : SUBSET HostAddrs, next : Addrs \ {0}]
    /\ reg \in RegState
    /\ reg.pc = "create" => nextID \in Ids
    /\ enrolled \in [SetupKeys -> SUBSET (1 .. nextID - 1)]

StreamTypes ==
    /\ acl \in ACLs \cup {NoACL}
    /\ aclPending \in 0 .. ACLWriters
    /\ online \subseteq DOMAIN nodes
    /\ DOMAIN subs \subseteq Ids /\ subs \in [DOMAIN subs -> Streams]
    /\ streams \in [Streams -> Stream]
    /\ \A s \in Streams : Len(streams[s].buf) <= ChanCap

SignalTypes ==
    /\ DOMAIN sigSubs \subseteq Ids /\ sigSubs \in [DOMAIN sigSubs -> SigStreams]
    /\ inboxes \in [SigStreams -> Inbox]
    /\ \A s \in SigStreams : Len(inboxes[s].buf) <= SigCap

(* Every variable keeps its type, and push channels and signal inboxes     *)
(* stay within their capacity whatever a slow reader does.                 *)
TypeOK == EnrolTypes /\ StreamTypes /\ SignalTypes

-----------------------------------------------------------------------------
(* Safety.                                                                 *)

(* No two registered devices share an overlay address, a hostname or a     *)
(* machine key, whatever order Register, DeleteNode and server restarts    *)
(* come in.  The schema enforces only the machine key: addresses rest on   *)
(* the in-memory allocator, hostnames on the check before the insert.      *)
IdentitiesUnique ==
    \A i, j \in DOMAIN nodes : i # j =>
        /\ nodes[i].ipv4 # nodes[j].ipv4
        /\ nodes[i].ipv6 # nodes[j].ipv6
        /\ nodes[i].hostname # nodes[j].hostname
        /\ nodes[i].mkey # nodes[j].mkey

(* Once allocatorFor has built the allocator, the addresses it holds used  *)
(* are exactly those of the rows: Register, its error paths and DeleteNode *)
(* neither leak an address nor free one that is assigned.                  *)
AllocatorExact ==
    ipam.loaded => ipam.used = {nodes[id].ipv4 : id \in DOMAIN nodes}

(* A setup key created with reusable = false never enrols two devices,     *)
(* even across device deletion, failed registrations and restarts.         *)
SingleUseOnce == \A k \in SingleUse : \A i, j \in enrolled[k] : i = j

(* Coordinator.online, Coordinator.subs and the channels agree: a device   *)
(* is online iff it has a current stream, that stream's channel is open    *)
(* and belongs to it, and every other channel is closed.  So a push or a   *)
(* close never hits a closed channel (a panic), a replaced stream's late   *)
(* unsub never takes the new stream offline, and a deleted device's stream *)
(* is always kicked.                                                       *)
StreamsAgree ==
    /\ DOMAIN subs = online
    /\ DOMAIN subs \subseteq DOMAIN nodes
    /\ \A id \in DOMAIN subs :
          LET st == streams[subs[id]] IN st.live /\ st.open /\ st.node = id
    /\ \A s \in Streams : streams[s].open =>
          streams[s].node \in DOMAIN subs /\ subs[streams[s].node] = s

(* The same agreement for the signal inboxes, and every queued envelope is *)
(* addressed to the node whose inbox it is in.                             *)
SignalsAgree ==
    /\ DOMAIN sigSubs \subseteq DOMAIN nodes
    /\ \A id \in DOMAIN sigSubs :
          LET b == inboxes[sigSubs[id]] IN b.live /\ b.open /\ b.node = id
    /\ \A s \in SigStreams : inboxes[s].open =>
          inboxes[s].node \in DOMAIN sigSubs /\ sigSubs[inboxes[s].node] = s
    /\ \A s \in SigStreams : \A i \in 1 .. Len(inboxes[s].buf) :
          inboxes[s].buf[i].to = inboxes[s].node

\* The newest map put on a stream: still queued, or the last one sent.
newest(st) == IF st.buf # <<>> THEN <<st.buf[Len(st.buf)]>> ELSE st.got

(* Every handler that changes what a netmap says pushes it: while no       *)
(* handler is half way, the newest map on a stream describes the current   *)
(* network unless it was dropped because the channel was full.             *)
EveryChangePushed ==
    reg = Idle /\ aclPending = 0 =>
        \A id \in DOMAIN subs :
            LET st == streams[subs[id]] IN
            st.missed \/ newest(st) = <<buildNetMap(nodes, online, acl, id)>>

(* An admin's approval is remembered per (node, route): while a device     *)
(* stays registered its approved routes change only through                *)
(* SetRouteApproved, or by losing the ones it no longer offers; a device   *)
(* that was deleted and enrols again starts with none.                     *)
ApprovalRemembered ==
    [][\A id \in DOMAIN nodes' :
        LET before == IF id \in DOMAIN nodes THEN nodes[id].approved ELSE {} IN
        \/ nodes'[id].approved = before \cap nodes'[id].offered
        \/ \E r \in Routes, b \in BOOLEAN : SetRouteApproved(id, r, b)]_vars

-----------------------------------------------------------------------------
(* Liveness.                                                               *)

(* A stream whose device was deleted, or that a newer stream replaced, is  *)
(* told so: its handler drains the closed channel and returns.             *)
ClosedStreamEnds ==
    \A s \in Streams : streams[s].live /\ ~ streams[s].open ~> ~ streams[s].live

-----------------------------------------------------------------------------
(* What comments promise and the code does not keep.                       *)

(* handleSetACL says it pushes recompiled filters "to every connected node *)
(* immediately": a device that has taken everything off its channel        *)
(* enforces the saved rules.                                               *)
DrainedMeansCurrent ==
    reg = Idle /\ aclPending = 0 =>
        \A id \in DOMAIN subs :
            LET st == streams[subs[id]] IN
            st.buf = <<>> => st.got = <<buildNetMap(nodes, online, acl, id)>>

(* Register: "IPv6 derives from the node ID".  Every row that is not in    *)
(* the middle of its registration has the address its id determines.       *)
IPv6FromID ==
    reg = Idle => \A id \in DOMAIN nodes : nodes[id].ipv6 = V6For(id)
=============================================================================
