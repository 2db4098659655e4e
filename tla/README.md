# OverMesh in TLA+

OverMesh is a WireGuard overlay mesh: a coordination server enrols devices,
assigns overlay addresses and pushes every device a *netmap* (its peers, routes
and packet filter); devices then build direct tunnels to each other with ICE and
fall back to a relay. This directory holds a formal model of the parts of it
that keep state, the TLC runs that check the model on small instances, and
TLAPS proofs of what holds for every instance.

Paths below are relative to `src/`.

## The system's parts

| part | source | state it keeps | who changes it |
|---|---|---|---|
| Coordinator | `internal/coord` | netmap streams, online set, signal inboxes, one IPAM allocator (memory) | gRPC handlers, one goroutine each, under `Coordinator.mu` |
| Store | `internal/store` | nodes, routes, setup keys, ACL rules, users (SQLite, one connection) | coordinator and admin handlers |
| IPAM | `internal/ipam` | used set, roving cursor | `Register`, `DeleteNode` |
| Admin API | `internal/adminapi` | login sessions (memory), users (store) | HTTP handlers, one goroutine each |
| ACL compiler and packet filter | `internal/coord/aclcompile.go`, `internal/filter` | none (pure) | netmap build, every packet |
| Daemon | `internal/daemon` | session, netmap, peer paths, relay client, exit node, keys on disk | netmap stream, ICE callbacks, relay, control socket, roaming watcher |
| Connection manager | `internal/magicsock/connmgr.go` | per-peer ICE negotiation | signalling, timers, netmaps |
| Bind | `internal/magicsock/bind.go` | UDP socket, relay queue | WireGuard device, relay |
| Relay | `internal/relay` | registry of connected keys; client connection | one goroutine per connection |
| OverDrop | `internal/overdrop` | part files, inbox, in-flight set | one HTTP handler per transfer; senders |
| Router | `internal/router` | kernel routes, sysctls, NAT rules | daemon |
| DNS | `internal/meshdns` | name table, OS resolver settings | daemon |
| WireGuard engine | `internal/wgengine` | device configuration | daemon |
| Mobile core | `mobilecore` | the daemon's state, for phones | app callbacks |
| CLI, server and relay mains, web UI, Apple clients | `cmd`, `webui`, `clients` | none that the mesh depends on | user |

How they interact: an admin makes setup keys and rules through the admin API;
a device enrols with `Register`, opens a netmap stream and a signal stream, and
applies each netmap it receives; devices exchange ICE offers through the signal
streams, packets through direct paths or the relay, and files over the tunnels
with OverDrop.

## Modules

| module | models | proofs |
|---|---|---|
| `IpamOps` | address arithmetic of `internal/ipam`, shared | |
| `Ipam` | `ipam.Allocator`, one step per iteration of `AllocateV4` | `CoordinatorProofs` |
| `AddressPool` | what the allocator promises: allocation in one step | |
| `Coordinator` | `internal/coord` over the store | `CoordinatorProofs` |
| `Accounts` | users, sessions and the last-admin guard | `AdminProofs` |
| `AclFilter` | rule validation, compilation, packet filter | `AdminProofs` |
| `OverDrop` | file transfer, sender and receiver | `OverDropProofs` |
| `Relay` | relay server and clients, up to the queue WireGuard reads | `RelayProofs` |
| `ConnMgr` | path negotiation between two devices, with the signalling around it | `ConnMgrProofs` |
| `Session` | the daemon's life: sessions, keys, relay client, state file | `SessionProofs` |
| `PeerSync` | how the daemon programs WireGuard, exit routing and status | `PeerSyncProofs` |
| `Router` | what a session changes in the Linux host | `RouterProofs` |

`CoordinatorProofs` extends `Coordinator` and `Ipam`, `AdminProofs` extends `Accounts`
and `AclFilter`; for that `Ipam` and `AclFilter` name their initial states, steps and
specification `ScanInit`, `ScanNext`, `ScanSpec` and `ACLInit`, `ACLNext`, `ACLSpec`.

`MCCoordinator`, `MCAccounts`, `MCAclFilter`, `MCOverDrop`, `MCRelay` and
`MCPeerSync` give the constants that are not plain sets their values and define symmetry.
Definitions whose names end in `_Something` are deliberate slips (a dropped
guard, a forgotten push); each property is shown to fail when one of them
replaces the definition it is a variant of.

**Coordinator.** `nodes`, `nextID`, `keys` and `acl` are database tables and
survive `Restart`; `ipam`, `online`, `subs`, `streams`, `sigSubs` and `inboxes`
are process state and do not. Every handler holds `Coordinator.mu` for its whole
body, so a handler is one action, with one exception: `Register` makes several
database writes, and a crash or a failed write between two of them leaves the
earlier ones behind. It is split at each write; `reg` is its program counter
and, being the lock, blocks the other handlers. Setup keys and ACL rules are
written by admin handlers without the lock; `aclPending` counts the
`handleSetACL` calls between `SetACL` and `ACLChanged`. Database writes may fail
where `StoreFaults` is TRUE; reads do not fail. `AllocateV4`'s scan is used
through `FirstFree`, which `Ipam` is shown to implement. A hostname is a
sequence (label, then the suffixes that dedupe appended); keys, routes, endpoint
lists and rule lists are opaque; a netmap carries the rules in place of the
filter compiled from them. Left out: the netmap sequence number (clients only
log it), timestamps, the audit log, and networks other than "default" (the only
one the server creates).

**Accounts.** User rows, sessions with their copy of the account, and the
requests that change accounts. `handleUpdateUser` and `handleDeleteUser` read
the target, count admins and write in separate statements; each is a step, and
`Handlers` says how many such requests may overlap. Server start runs
`EnsureAdminPassword` in both its forms. Passwords are left out.

**AclFilter.** The rule list is chosen once from everything `SetACL` accepts,
and devices are deleted. Compilation, first-match evaluation, the dry-run tester
and packet parsing are operators; a packet is the fields that `parse` looks at. A
compiled rule keeps the position of the rule it comes from: the code appends it to a
list, which has the same order, and order is all that first-match evaluation reads.

**OverDrop.** One sender's directory at one receiver. A transfer is one call of
`Send`; `handlePut` is split where other handlers can come between its steps,
above all between `dedupePath` and the rename. A file's bytes are tagged with the
edition they come from, so that mixtures show. Connections break, answers get
lost, the receiver restarts. A restart ends the handlers; a `Close` whose
handlers run on beside the next server's is not modelled.

**Relay.** Clients, connections with both ends' views, and the server's
registry. The two ends learn of a connection's end separately, so that the
server may be serving, or still be authenticating, an older connection of a
client that has reconnected. A frame is a header and a body, because a write
deadline can pass between them. Pings and deadlines are read errors here. The
challenge is taken as sound: a client can only prove its own key. What a client
receives goes through `Bind`'s bounded queue, which drops when WireGuard is
behind, so that the relay's reader never waits.

**ConnMgr.** Two devices, each with its `ConnMgr`, its socket's readiness and the
path its daemon recorded, and the envelopes on their way through the coordinator
(in order, but they may be lost). A session epoch names a `negotiate` call on
either side and the ICE agent it makes; `negotiate` is cut wherever another
goroutine can overtake it: before the agent exists, before it is attached,
before offer or answer is sent, while it waits, while it dials. `SetPeers`,
`Restart` (roaming), `Close`, a crash, an offer, an answer or a candidate may come
at each of these points. The ICE library is external: an agent can connect when
both sides run checks for one session and one of them knows a candidate. The
callbacks an agent owes run whatever became of it. Sessions of more than two
devices are independent of each other (`ConnMgr.peers` is a map by peer).

**Session.** The control requests `Up`, `Down` and `RotateNodeKey`, the session
goroutine from `spawned` to `ended`, `MaybeAutoUp`, `shutdown`, and the state file.
`ensureRelay` reads `relayCli`, builds a client and stores it in three steps, and
both the session and a rotation call it. Each step that can fail (registration
rejected or its reply lost, a failed save, an engine, resolver or receiver that
does not start) may fail, and the process may die between any two steps, which
loses everything but `disk` and `server`. Sessions, clients and keys come from
pools and return to them when nothing refers to them, so the run covers
histories of any length.

**PeerSync.** Within one session: the netmap loop, one callback per peer, the
relay watcher and `SetExitNode`. Each computes what to program under `Daemon.mu`,
unlocks and hands it over, and another may come in between. `act` holds what a
call computed and where it is. Two history variables keep the properties exact:
`overlap` says that something came between the calls in progress, `stale` names
what may therefore, or because a call failed, be behind the daemon's state.

**Router.** The kernel state that `Advertiser`, `ExitClient` and `RouteSync`
change, and what each of them believes. Each method holds its object's lock, so
it is one action; a fault picks the command that fails, and the rest of the
method runs or does not run as in the code. A session's end takes the interface
and its routes along; a crash leaves rules and sysctls behind.

## Runs

| run | question | instance |
|---|---|---|
| `ipam` | does the scan implement the one-step pool, report exhaustion exactly, and end? | a /29: eight addresses, every used set and cursor |
| `coord_enrol` | do identities stay unique, the allocator exact and single-use keys single-use, with faults and crashes at every write? | 3 devices, 3 ids, 2 host addresses (so the prefix runs out), names "a" and "a-2" |
| `coord_push` | do `online`, `subs`, channels and signal inboxes agree, and is every change of membership pushed? | 2 devices, 2 netmap streams (one can replace the other), channels of 2, 1 signal stream |
| `coord_live` | is every change of a route, approval, endpoint or rule pushed, are approvals remembered, does the stream of a deleted device end? | 1 device enrolled up to twice, 1 route, 1 endpoint, 1 rule list, 1 stream |
| `accounts` | is there always an admin, and do orphans stay orphans, if update and delete requests do not overlap? | 2 usernames, 3 ids, 2 sessions, 1 device, 1 setup key |
| `acl_filter` | does the compiled filter decide as the rules say? | every list of up to 2 accepted rules, 2 devices, 2 port ranges, 3 ports |
| `drop` | is what arrives what was sent, never overwritten, and is the lock released? | 3 transfers of 2 files |
| `relay` | is the registry exact, is a packet delivered once and to its addressee, do clients reconnect, is Close final? | 2 clients, 2 packets, queues of 1, 1 fault |
| `connmgr` | is an agent ever leaked, does a candidate meet its own agent, does probing succeed after any fault, does Close end everything? | 2 devices, 3 session epochs, 1 fault of any of 9 kinds |
| `session` | is there one relay client with the current key, one node key everywhere, does Up survive a crash, does Down return and leave nothing? | 1 request at a time, 2 relay URLs, pools of 3, 2 faults of any of 9 kinds |
| `peersync` | do WireGuard, exit routing and status follow the daemon's state? | 2 peers, 1 direct endpoint, 2 calls at a time, failing engine and routing |
| `router` | is what the objects believe of the host true, and is the host restored? | 2 prefixes, 2 failing commands or crashes |

Every module with more state than a rule list has a type invariant, `TypeOK`
(`ScanTypes` in `Ipam`). It holds on the instances above and is proved for all
values of the constants; the runs list what says more.

Why the bounds are enough: the channel capacities in the code are 8, 32 and 256,
and what matters is that a queue can be empty and full, and for netmaps, where
order counts, partly full (capacity 2). In `coord_enrol`, three ids
let an address or a name be freed and taken again while another row is present.
Three transfers are an interrupted one, its rerun and one that overtakes. One
network fault at the relay already gives a late registration that displaces a
newer connection, and the reconnect after it. In `connmgr` three epochs are a
negotiation, the one a fault makes necessary and one more that overtakes it. In
`session` two faults let a lost reply or a failed save be followed by a crash or by
another failure of the repair; with pools of three an old and a new
session can coexist with one still ending. In `peersync` two calls in progress are
the smallest number that can hand over in the wrong order, and the theorems cover
any number. In `router` a second fault can hit the repair of the first.

`peersync` has a VIEW: the configuration WireGuard has is read by no action and by
`EngineCurrent` only while it is not stale, so states that differ in a stale one
are merged (`Distinct` in `MCPeerSync` lists all such parts). The invariants
depend on nothing the view leaves out, except that `TypeOK` also types a stale
configuration; that is part of the invariant `PeerSyncProofs` proves.

What the instances do not combine: endpoints, routes and rules change with one
device only (`coord_live`), several devices and streams with none of them
(`coord_push`); that a stream *replaced* by a newer one ends is not in a run (for a
deleted device's stream it is). `session` has one control request at a time, and
netmaps that do not overlap the relay part of a rotation; `peersync` one callback
per peer at a time.

`acl_filter`, `drop`, `relay` and `connmgr` do not check for deadlock: they end
when every device is deleted, every transfer is over, every client is closed or
idle, both devices are connected or closed.

Fairness. `coord_live`: a handler that holds the lock goes on, a connected device
keeps reading its stream, and a goroutine that waits for `Coordinator.mu` gets
it in the end, because `sync.Mutex` hands the lock to waiters that starve; that
last one is strong fairness. `ipam`: the loop runs on. `drop`: a started `Send`
and a running handler go on; nobody has to start a transfer or break one.
`relay`: goroutines run, a read on a dead connection ends (deadlines of 15 s and
90 s), the client's loop dials again; nobody has to send, close or fail.
`connmgr`: goroutines, agents and the signal stream go on, a timer fires when
what it waits for can no longer come, and a closed socket is opened again;
netmaps, roaming and faults are not owed. `session`: goroutines that can go on do;
requests, netmaps and crashes need not come.

## Proofs

`CoordinatorProofs` first proves, for a prefix of any size, that the allocator keeps its
types, reports exhaustion only when the prefix is full, and implements
`AddressPool`. The inductive invariant adds `ScanInv`: no free address lies
between the cursor the call started from and the present one. The refinement
maps the pool's cursor to the start of the scan while the loop runs, so that
every iteration but the last is a stutter. The only assumption is that a prefix
has at least four addresses, which `ipam.New` enforces.

It then proves for any number of devices, keys, names, addresses
and ids that identities are unique, the allocator is exact, and a single-use
key enrols once, with store faults and restarts anywhere. The inductive
invariant (`EnrolInv`) adds three facts the properties need: every IPv6 address
is either that of the row's id or the placeholder made from the row's own IPv4
address (so placeholders cannot clash either); the machine key a `Register` in
progress looked up is still unknown when it inserts; a single-use key that is
about to enrol is already counted and has enrolled nobody.

Next it proves that every variable keeps its type (bounded channels included),
`StreamsAgree` and `SignalsAgree`, for any number of streams. `StreamsAgree` is
inductive together with types: what makes it so is that a stream that is not
subscribed is closed, so `notifyNetworkLocked` reaches exactly the open channels.
A panic by sending on or closing a closed channel is thereby excluded.

`EveryChangePushed` (`ChangesArePushed`) rests on both, and on `~ StoreFaults`: with
a failing write `Register` returns after changing a row and pushes nothing, so the
hypothesis is the code's. The property says nothing while a `Register` is between
its writes or a `handleSetACL` has not pushed yet; the proof shows that each handler
that ends such a time pushes to every subscriber (`FansOut`), that what `push` leaves
at the end of a channel is the new map or the channel is marked as having missed one,
and that the other steps change nothing a map is built from.

`ApprovalRemembered` (`ApprovalsStay`) is an action property and holds with store
faults and restarts anywhere. It needs one invariant, that a device's approved
routes are among those it offers (`ApprovedOffered`): without it, a handler that
leaves both alone would already appear to drop an approval. `RouteSteps` says of
every action what it does to the routes of every device.

`AdminProofs` proves that an enabled admin always exists if update and delete
requests do not overlap (`OneHandler`), for any number of accounts and sessions.
The invariant says what a request that has passed the guard may still rely on:
another enabled admin besides its target. That types are kept and
`OrphansStayOrphaned` hold with any number of overlapping requests: the invariant
says that whatever a session, key or device names as its account is an id that was
given out before (`OwnersIssued`), and ids are given out once.

Its second half proves `FilterMeansRules`, `DryRunAgrees` and `DeletionIsLocal` for any
devices, ports, port ranges and rule lists of any length. All three compare two sets of
rule positions: those whose compiled rule matches a packet (`Fires`), and those whose
rule applies to the sender (`Applies`), or `Fires` for the tester's question, or `Fires`
after the deletion. The first and second are equal because a rule that lists sources is
kept only while one of them exists, so that an empty source list always means "any", and
because `SetACL` accepts ports only with tcp or udp. For the third, a rule dropped with
its last source matched none of the addresses that are left. Equal sets have equal first
members (`AllowsIs`). Assumed: ports are numbers, port ranges pairs of numbers, and 0,
which stands for hosts behind a subnet route, is no device id.

`OverDropProofs` proves that `busy` names exactly the parts in use (`TypeOK`), and
`ReceivedIsSent`, `NeverOverwritten` and `DoneMeansReceived`, for any number of transfers
and any files, names and sizes, with connections broken and receivers restarted anywhere.
The table below shows that two of these fail for some files, and the hypotheses exclude
those: `OneEdition` (no two files of the same name and size) for
`ReceivedIsSent`, `OneSize` (no two sizes under one name) for `NeverOverwritten`, both for
`DoneMeansReceived`. The inductive invariant `DropInv` needs neither. It says that one
handler at a time has a part open (`Exclusive`), that the part is as long as what its
handler has read (`Staged`; the check of the offset under the lock establishes it, since
the offset itself was read without), that a part's bytes come from files with its name
and size (`PartBytes`), that a received file is a complete part (`Received`), and that
a transfer brings one file at most (`Brought`). From the last one follows that `dedupePath`
finds a name: there are more variants than transfers (a pigeonhole argument), and a
set of numbers has a least element. `OneSize` makes the lock cover the name, so that the
name found stays free until the rename (`Free`); `OneEdition` makes a complete part one
file (`WholeFile`). For `DoneMeansReceived` the transfers that succeeded map one to one to
paths with their file's bytes (`OneCopyEach`). Assumed: finitely many transfers.

`RelayProofs` proves `RegistryExact` and `DeliveredOnce` for any number of clients,
connections, packets and faults and queues of any length. `RegistryExact` is
inductive once it is known that a client's session is on a connection of its own
(`Owned`). Delivery needs two more facts. `Sourced` says that a packet is, wherever it
is, addressed as some client sent it, and is in the hands or the queue of a
connection of its addressee. `Once` says that a payload is in one place at most: a whole
frame on its way, the server's hand, a queue, an inbox, or delivered; the proof
follows it from place to place and shows that each step moves places without
copying one. Assumed: capacities are positive.

`ConnMgrProofs` proves `AgentsOwned` and `CandidatesMeetTheirAgent` for any number of
session epochs and faults. An epoch names one `negotiate` call and its agent. The
invariant (`NegotiationInv`) says for each point of a `negotiate` call whether its
agent exists and who holds it (`Slots`), that epochs in use were taken from the clock
(`Epochs`), that the responder never goes back to an older agent (`Responder`), and that
what it negotiates was offered by an initiator which had attached its own agent
(`Offered`, `Signals`). The last two are what candidates need: whoever can receive a
candidate of a session has had the time to attach the agent of that session.

`SessionProofs` proves, for any number of sessions, relay clients, keys and faults:
`UpSurvives` with one control request at a time (`Serial`); `KeysAgree` if in addition
no save fails inside a rotation (`NoRotateFault`); `OneRelayClient`, `RelayCurrent` and
`DownReleases` if in addition netmaps do not overlap the relay part of a rotation
(`~ RelayRaces`). The hypotheses are those of the run `session`; the table below shows
what goes wrong without the last two. The invariant has four layers. `LifeInv`: at
most one session has a goroutine, the one whose channel `Down` waits for, and the
engine and the calls in progress are that session's. `KeysInv`: which copies of the
node key agree at each point of a rotation. `RelayInv`: who holds each open relay
client, and that an `ensureRelay` call still sees the client it decided about.
`SvcInv`: resolver and receiver are the running session's, or held by the one that is
closing them.

`PeerSyncProofs` proves `EngineCurrent`, `ExitCurrent`, `ExitPeerOffered` and
`StatusCurrent` for any peers, any netmaps and any number of calls in progress.
The inductive invariant says what a call that nothing overlapped computed is still
right when it hands it over (`ComputedPeers`, `ComputedExit`), that only one call is
in progress then (`Alone`), and that WireGuard and the exit routing are current, or
recorded as stale, or about to be set by a call in progress (`EngineOrPending`,
`ExitOrPending`). `ExitPeerOffered` follows from a stronger fact: the exit peer is
always what `selectExitPeer` returns on the current state (`Selected`). Assumed: the
special names are no peers and no endpoints.

`RouterProofs` proves `BeliefsTrue` (that is `ServedMeansServed`, `ActiveMeansRouted`
and `RoutesKnown`) and `HostRestored` for any finite set of prefixes and any number of faults. The
invariant adds that the objects of an ended session hold nothing (`Ended`) and that,
as long as nothing failed, the host differs from the one first found by exactly
what the objects will take back (`Untouched`). Counting the faults of one call needs
the prefixes to be finite, which is the only assumption beside `MaxFaults` being a
number.

Model-checked only: liveness and what rests on `ENABLED` (out of the prover's
reach: `AllocateReturns`, `ClosedStreamEnds`, `LockReleased`, `ReconnectsForGood`,
`CloseIsFinal`, `ProbingSucceeds`, `CloseEndsAll`, `DownReturns`). Every other property of
the runs is a theorem.

## Where code and comments part

Each of these is stated as a property of its module, and TLC refutes it on the
instance given here (the runs above check it, if at all, on other instances).

| property | instance | what happens |
|---|---|---|
| `Accounts!AlwaysAnAdmin` | `Accounts.cfg` with `Handlers = {h1, h2}` | two overlapping requests both count two admins and take one away each; `adminapi.go:167`: "Never let the last enabled admin lock everyone out." |
| `Accounts!StartGuaranteesAdmin` | the same, no devices or keys | once no admin is left, a start with an explicit password resets the password of the demoted account "admin" and leaves it a member (`users.go:95`) |
| `Accounts!DanglingAdminOnly` | `Accounts.cfg` | the session of a deleted account still manages what the account owned, where `users.go:249` says "treated as admin-visible only" |
| `Coordinator!DrainedMeansCurrent` | `CoordLive.cfg` with `ACLWriters = 2`, no routes or endpoints | `notifyNetworkLocked` drops the newest map when a channel is full and nothing sends it again (`coord.go:361`), so a device that has read everything can enforce rules that were replaced; `adminapi.go:297` says they are pushed "to every connected node immediately" |
| `Coordinator!IPv6FromID` | `CoordLive.cfg` without streams and routes | a crash between `CreateNode` and `UpdateNodeIPv6` leaves the placeholder address for good (`coord.go:167`) |
| `AclFilter!FragmentsByProtocol` | `AclFilter.cfg` with `MaxRules = 1` | later fragments read as port 0 and match no rule that lists ports, where `filter.go:177` says they are matched "by protocol only" |
| `OverDrop!NeverOverwritten` | `OverDrop.cfg` with `Files = {fA, fALong}`, 2 transfers | the key of `busy` holds name and size, so two editions of different length pass `dedupePath` together and the second rename replaces the first file; `overdrop.go:234`: "Never overwrite an existing file" |
| `OverDrop!ReceivedIsSent` | `OverDrop.cfg` with `Files = {fA, fA2}`, 2 transfers | a file edited in place between two attempts is completed from two editions and reported as sent |
| `Relay!FramesIntact` | `Relay.cfg` | after a write timed out inside a frame, `Send` leaves the connection open and the server misreads what follows (`client.go:79`) |
| `ConnMgr!FailedIsRenegotiated` | `ConnMgr.cfg` with `MaxSession = 2`, `Faults = {"restart", "netmap"}` | `runInitiator` returns after its first success, so an initiator whose agent fails stays in that session; `connmgr.go:119`: responder-side peers re-negotiate when the initiator's "consent checks fail" |
| `Session!ResumesWhatWasUp` | `Session.cfg` | a shutdown of the process takes the session down through `Down`, which saves `DesiredUp = false`; `daemon.go:189`: "resumes the previous session if one was up when the daemon last stopped" |
| `Session!OneRelayClient` | `Session.cfg` with `RelayRaces = TRUE`, `MaxClients = 4`, no faults | a netmap's `ensureRelay` and a rotation's each build a client, and the one stored first is never closed; `daemon.go:1022`: "keeps one client connected" |
| `Session!OneRelayClient` | `Session.cfg` with `Faults = {"rotsave"}` | when the save in `RotateNodeKey` fails, the relay client it took out of the daemon is not closed (`daemon.go:845`) |
| `PeerSync!ActiveMeansInstalled` | `PeerSync.cfg` with `MaxCalls = 1` | a `SetExitNode` that is refused has already changed the status and leaves the OS routing as it was; `daemon.go:106`: "reports whether its routes are currently installed" |
| `Router!RemoveRestoresRouting` | `Router.cfg` with `Faults = {"crash"}` | a dead daemon leaves its policy rules; the next `Apply` sets the default route, fails at the rule that exists already and returns inactive, so traffic goes through the mesh and `Remove` returns at once; `router_linux.go:260`: "restores normal routing (idempotent)" |

Met while modelling, without a property: an agent that goes from disconnected
back to connected reports no path, although `connmgr.go:24` says an update comes
"whenever a peer's path changes";
an offer that arrives before the netmap that names its sender is dropped
(`daemon.go:1104`); the relay watcher ends with the first connection, so a later
reconnect is not synchronised, where `daemon.go:1063` says "and again if it later
reconnects"; an `Up` that comes while a `Down` waits for the session is undone by the
rest of that `Down`; the callbacks of a torn-down agent can overwrite the path its
successor reported (`connmgr.go:376`, which `ConnMgr!Report` models); after the
initiator's clock was set back the responder takes its offers for stale
(`connmgr.go:212`); `ExitClient.Apply` returns at once while active, so a switch
from an IPv4-only exit node to one with IPv6 leaves IPv6 outside the tunnel
(`router_linux.go:221`).

## Not modelled, and the plan

The mobile core (`mobilecore`) is a second session loop, for phones, over the
connection manager, relay client and OverDrop modelled here; its own state is the
start and stop of that loop. It would be the next module. Other parts that are
left:

- two control requests at once in `Session`, and the composition of `Session` with
  `Relay`, where two clients may share a key;
- the composition of `PeerSync` with `Coordinator` (a deleted device leaves every
  engine), whose state space is the product of two that are large already;
- a `Close` of the OverDrop server whose handlers run on beside the next server's;
- routing on other systems than Linux: the same interface with other commands.

Left out for good: `meshdns`, `stunserver`, `key`, `wgengine` and the daemon's
netcheck (pure I/O, encoding, probes or wrappers), the audit log (nothing reads
it back), generated gRPC code, the command line, the web UI and the native clients (presentation).
