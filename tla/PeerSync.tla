------------------------------ MODULE PeerSync ------------------------------
(***************************************************************************)
(* How the daemon keeps WireGuard, the OS exit-node routing and its status *)
(* report in step with what it knows of its peers (internal/daemon/        *)
(* daemon.go: applyNetMap, applyRoutes, onPathUpdate, syncPeers,           *)
(* SetExitNode and the watcher ensureRelay starts).                        *)
(*                                                                         *)
(* The netmap loop, the ConnMgr callbacks, the relay watcher and           *)
(* SetExitNode all do the same thing: compute the full peer configuration  *)
(* under Daemon.mu, unlock, and hand it to the engine.  Two of them may    *)
(* hand over in another order than they computed.  The history variable    *)
(* "stale" says which parts a step has left behind the daemon's state for  *)
(* a known reason; the invariants speak of the rest.                       *)
(***************************************************************************)
EXTENDS Naturals, FiniteSets

CONSTANTS
    Peers,      \* the peers of the network, by hostname
    Views,      \* what a netmap may say of each peer, or Absent
    Absent,
    None,       \* no exit node, no endpoint
    Ghost,      \* the name of no peer
    Endpoints,  \* direct endpoints ICE may find
    MaxCalls,   \* bound on the calls in progress at once
    Failures    \* the calls that may fail: "engine", "exit"

ASSUME PeerSyncAssumption ==
    /\ {None, Ghost, Absent} \cap Peers = {} /\ None # Ghost
    /\ \A p \in Peers : Views[p] \subseteq {Absent} \cup [online : BOOLEAN, static : BOOLEAN, exit : BOOLEAN]
    /\ {"none", "connecting", "relay", "static"} \cap Endpoints = {}
    /\ None \notin Endpoints
    /\ MaxCalls \in Nat
    /\ Failures \subseteq {"engine", "exit"}

Callback(p) == <<"path", p>>
Actors == {<<"netmap">>, <<"watch">>, <<"exit">>} \cup {Callback(p) : p \in Peers}
Paths == {"none", "connecting"} \cup Endpoints

VARIABLES
    view,      \* Daemon.peers: the netmap's part of each peerInfo
    path,      \* Daemon.peers: path and pathEP
    relay,     \* Daemon.relayCli: "nil", "down" or "up" (Connected)
    watch,     \* the goroutine ensureRelay started still waits for the link
    exitNode,  \* Daemon.exitNode
    exitPeer,  \* Daemon.exitPeerID
    engine,    \* what WireGuard was given
    exitOn,    \* ExitClient.active: the OS sends everything through the mesh
    status,    \* Status.Peers, by path, and Status.ExitNodeActive
    act,       \* the calls in progress and what they computed
    overlap,   \* history: another call, or the relay link, came between the calls in progress
    stale      \* history: what may be behind the daemon's state

vars == <<view, path, relay, watch, exitNode, exitPeer, engine, exitOn, status, act, overlap, stale>>

Off == [ep |-> None, exit |-> FALSE]
Idle == [pc |-> "idle", cfg |-> [p \in Peers |-> Off], on |-> FALSE]
Busy == {a \in Actors : act[a].pc # "idle"}

\* A daemon just brought up: a session, no netmap yet.
Init ==
    /\ view = [p \in Peers |-> Absent]
    /\ path = [p \in Peers |-> "none"]
    /\ relay = "nil" /\ watch = FALSE
    /\ exitNode \in Peers \cup {None, Ghost} /\ exitPeer = None
    /\ engine = [p \in Peers |-> Off]
    /\ exitOn = FALSE
    /\ status = [paths |-> [p \in Peers |-> None], exit |-> FALSE]
    /\ act = [a \in Actors |-> Idle]
    /\ overlap = FALSE
    /\ stale = {}

-----------------------------------------------------------------------------
(* The computations under the lock.                                        *)

\* A slip: whether the peer still offers an exit route is not asked.
selectExitPeer_Any(vw, want) == IF want \in Peers /\ vw[want] # Absent THEN want ELSE None

\* The peer to exit through, of those the netmap offers.
selectExitPeer(vw, want) ==
    IF want \in Peers /\ vw[want] # Absent /\ vw[want].exit THEN want ELSE None

\* The endpoint of a known peer: ICE direct, then relay, then the netmap's hint.
endpoint(v, pt, up) ==
    CASE pt \in Endpoints  -> pt
      [] pt \notin Endpoints /\ up /\ v.online -> "relay"
      [] pt \notin Endpoints /\ ~ (up /\ v.online) -> IF v.static THEN "static" ELSE None

\* A peer without an endpoint is left out; the exit peer gets the default route.
buildPeerConfigs(vw, pt, up, ex) ==
    [p \in Peers |->
        IF vw[p] = Absent THEN Off
        ELSE LET ep == endpoint(vw[p], pt[p], up) IN [ep |-> ep, exit |-> ep # None /\ p = ex]]

\* The path "overmesh status" shows for each peer; None for a peer not in the netmap.
refreshPeerStatus(vw, pt, up) ==
    [p \in Peers |->
        CASE vw[p] = Absent -> None
          [] vw[p] # Absent /\ ~ vw[p].online -> "none"
          [] vw[p] # Absent /\ vw[p].online ->
                IF pt[p] \in Endpoints THEN "direct"
                ELSE IF up THEN "relay" ELSE pt[p]]

Up == relay = "up"
Known(p) == view[p] # Absent

\* Call a begins, with at most MaxCalls in progress.
begins(a) ==
    /\ act[a].pc = "idle"
    /\ Cardinality(Busy) < MaxCalls
    /\ overlap' = (Busy # {})

\* a has computed, under the lock, the configuration it will hand to the engine.
computes(a, vw, pt, ex, next) ==
    /\ act' = [act EXCEPT ![a] = [pc |-> next, cfg |-> buildPeerConfigs(vw, pt, Up, ex), on |-> ex # None]]
    /\ status' = [status EXCEPT !.paths = refreshPeerStatus(vw, pt, Up)]

\* Engine.SetPeers with what was computed, and on to the next step, or its error.
SetPeers(a, next) ==
    \/ /\ engine' = act[a].cfg
       /\ act' = [act EXCEPT ![a] = IF next = "idle" THEN Idle ELSE [@ EXCEPT !.pc = next]]
       /\ stale' = IF overlap THEN stale \cup {"engine"} ELSE stale \ {"engine"}
    \/ /\ "engine" \in Failures
       /\ engine' = engine
       /\ act' = [act EXCEPT ![a] = Idle]
       /\ stale' = stale \cup {"engine"} \cup IF next = "idle" THEN {} ELSE {"exit"}

\* ExitClient.Apply or Remove; Apply does nothing when active, and may fail when not.
SetExit(a) ==
    /\ \/ /\ exitOn' = act[a].on
          /\ stale' = IF overlap THEN stale \cup {"exit"} ELSE stale \ {"exit"}
       \/ /\ "exit" \in Failures /\ act[a].on /\ ~ exitOn
          /\ exitOn' = FALSE
          /\ stale' = stale \cup {"exit"}
    /\ act' = [act EXCEPT ![a] = Idle]

-----------------------------------------------------------------------------
(* The netmap loop.                                                        *)

NM == <<"netmap">>

\* ensureRelay: a client is made, kept, replaced or closed as the netmap wants no
\* relay, the one there is or another.  Only a closed one is programmed at once.
NetMapRelay(wanted) ==
    /\ begins(NM)
    /\ relay' = CASE wanted = "no" -> "nil"
                  [] wanted = "same" -> IF relay = "nil" THEN "down" ELSE relay
                  [] wanted = "other" -> "down"
    /\ watch' = \/ wanted = "same" /\ (watch \/ relay = "nil")
                \/ wanted = "other"
    /\ act' = [act EXCEPT ![NM].pc = IF wanted = "no" /\ relay # "nil" THEN "sync" ELSE "merge"]
    /\ stale' = IF relay' # "up" /\ Up THEN stale \cup {"engine", "status"} ELSE stale
    /\ UNCHANGED <<view, path, exitNode, exitPeer, engine, exitOn, status>>

\* The peers are merged; those the netmap lacks are forgotten with their paths.
NetMapMerge ==
    /\ act[NM].pc = "merge"
    /\ view' \in {f \in [Peers -> UNION {Views[p] : p \in Peers}] : \A p \in Peers : f[p] \in Views[p]}
    /\ path' = [p \in Peers |-> IF view'[p] = Absent THEN "none" ELSE path[p]]
    /\ exitPeer' = selectExitPeer(view', exitNode)
    /\ computes(NM, view', path', exitPeer', "peers")
    /\ stale' = stale \ {"status"}
    /\ UNCHANGED <<relay, watch, exitNode, engine, exitOn, overlap>>

NetMapPeers ==
    /\ act[NM].pc = "peers"
    /\ SetPeers(NM, "routes")
    /\ UNCHANGED <<view, path, relay, watch, exitNode, exitPeer, exitOn, status, overlap>>

\* A slip: an exit node that was asked for counts as active.
NetMapRoutes_Wanted ==
    /\ act[NM].pc = "routes"
    /\ status' = [status EXCEPT !.exit = exitNode # None]
    /\ act' = [act EXCEPT ![NM].pc = "apply", ![NM].on = exitPeer # None]
    /\ UNCHANGED <<view, path, relay, watch, exitNode, exitPeer, engine, exitOn, overlap, stale>>

\* applyRoutes reads the exit peer again.
NetMapRoutes ==
    /\ act[NM].pc = "routes"
    /\ status' = [status EXCEPT !.exit = exitPeer # None]
    /\ act' = [act EXCEPT ![NM].pc = "apply", ![NM].on = exitPeer # None]
    /\ UNCHANGED <<view, path, relay, watch, exitNode, exitPeer, engine, exitOn, overlap, stale>>

NetMapExit ==
    /\ act[NM].pc = "apply"
    /\ SetExit(NM)
    /\ UNCHANGED <<view, path, relay, watch, exitNode, exitPeer, engine, status, overlap>>

-----------------------------------------------------------------------------
(* syncPeers, its callers, and the relay link.                             *)

\* A slip: the status is left for the next netmap.
syncPeers_Silent(a) ==
    /\ act[a].pc = "sync"
    /\ act' = [act EXCEPT ![a] = [pc |-> "set", cfg |-> buildPeerConfigs(view, path, Up, exitPeer), on |-> exitPeer # None]]
    /\ stale' = stale \ {"status"}
    /\ UNCHANGED <<view, path, relay, watch, exitNode, exitPeer, engine, exitOn, status, overlap>>

\* The critical section of syncPeers.
syncPeers(a) ==
    /\ act[a].pc = "sync"
    /\ computes(a, view, path, exitPeer, "set")
    /\ stale' = stale \ {"status"}
    /\ UNCHANGED <<view, path, relay, watch, exitNode, exitPeer, engine, exitOn, overlap>>

\* ... and its call of the engine; ensureRelay goes back to the netmap.
syncSet(a) ==
    /\ act[a].pc = "set" /\ a # <<"exit">>
    /\ \/ /\ engine' = act[a].cfg
          /\ stale' = IF overlap THEN stale \cup {"engine"} ELSE stale \ {"engine"}
       \/ /\ "engine" \in Failures /\ engine' = engine
          /\ stale' = stale \cup {"engine"}
    /\ act' = [act EXCEPT ![a] = IF a = NM THEN [Idle EXCEPT !.pc = "merge"] ELSE Idle]
    /\ UNCHANGED <<view, path, relay, watch, exitNode, exitPeer, exitOn, status, overlap>>

\* A slip: a lost direct path is recorded and not programmed.
onPathUpdate_Keeps(p, st) ==
    /\ Known(p) /\ path[p] # st
    /\ path' = [path EXCEPT ![p] = st]
    /\ begins(Callback(p))
    /\ act' = [act EXCEPT ![Callback(p)].pc = IF st = "none" THEN "idle" ELSE "sync"]
    /\ stale' = stale \cup {"status"}
    /\ UNCHANGED <<view, relay, watch, exitNode, exitPeer, engine, exitOn, status>>

\* The callback records the path; one for a peer that is gone, or that says what
\* is known, returns.
onPathUpdate(p, st) ==
    /\ Known(p) /\ path[p] # st
    /\ path' = [path EXCEPT ![p] = st]
    /\ begins(Callback(p))
    /\ act' = [act EXCEPT ![Callback(p)].pc = "sync"]
    /\ stale' = stale \cup {"status"}
    /\ UNCHANGED <<view, relay, watch, exitNode, exitPeer, engine, exitOn, status>>

\* The relay client's link comes up or breaks; nobody is told.
Link ==
    /\ \/ relay = "down" /\ relay' = "up"
       \/ relay = "up" /\ relay' = "down"
    /\ overlap' = (Busy # {})
    /\ stale' = stale \cup {"engine", "status"}
    /\ UNCHANGED <<view, path, watch, exitNode, exitPeer, engine, exitOn, status, act>>

\* The watcher finds the link up and syncs once, or has looked 100 times.
Watch ==
    /\ watch /\ watch' = FALSE
    /\ \/ Up /\ begins(<<"watch">>) /\ act' = [act EXCEPT ![<<"watch">>].pc = "sync"]
       \/ relay = "down" /\ UNCHANGED <<act, overlap>>
    /\ UNCHANGED <<view, path, relay, exitNode, exitPeer, engine, exitOn, status, stale>>

-----------------------------------------------------------------------------
(* SetExitNode.                                                            *)

X == <<"exit">>

\* The switch under the lock.  A name that is no exit node is refused after it:
\* neither the engine nor the routing is touched.
SetExitNode(name) ==
    LET ex == selectExitPeer(view, name)
        refused == name # None /\ ex = None
    IN  /\ exitNode' = name /\ exitPeer' = ex
        /\ begins(X)
        /\ act' = [act EXCEPT ![X] = IF refused THEN Idle
                                     ELSE [pc |-> "set", cfg |-> buildPeerConfigs(view, path, Up, ex),
                                           on |-> ex # None]]
        /\ status' = [exit |-> ex # None, paths |-> refreshPeerStatus(view, path, Up)]
        /\ stale' = (stale \ {"status"}) \cup IF refused THEN {"engine", "exit"} ELSE {}
        /\ UNCHANGED <<view, path, relay, watch, engine, exitOn>>

SetExitNodePeers ==
    /\ act[X].pc = "set"
    /\ SetPeers(X, "apply")
    /\ UNCHANGED <<view, path, relay, watch, exitNode, exitPeer, exitOn, status, overlap>>

SetExitNodeRouting ==
    /\ act[X].pc = "apply"
    /\ SetExit(X)
    /\ UNCHANGED <<view, path, relay, watch, exitNode, exitPeer, engine, status, overlap>>

-----------------------------------------------------------------------------
\* The steps of a call that has begun.
Finish ==
    \/ NetMapMerge \/ NetMapPeers \/ NetMapRoutes \/ NetMapExit
    \/ \E a \in Actors : syncPeers(a) \/ syncSet(a)
    \/ SetExitNodePeers \/ SetExitNodeRouting

Next ==
    \/ \E wanted \in {"no", "same", "other"} : NetMapRelay(wanted)
    \/ \E p \in Peers, st \in Paths : onPathUpdate(p, st)
    \/ \E name \in Peers \cup {None, Ghost} : SetExitNode(name)
    \/ Link \/ Watch
    \/ Finish

Spec == Init /\ [][Next]_vars

-----------------------------------------------------------------------------
(* Properties.                                                             *)

Configs == [Peers -> [ep : Endpoints \cup {"relay", "static", None}, exit : BOOLEAN]]

\* Every variable keeps its type: what WireGuard was given, and what a call is about
\* to give it, is a configuration of the peers with an endpoint of the path ladder.
TypeOK ==
    /\ \A p \in Peers : view[p] \in Views[p] \cup {Absent}
    /\ path \in [Peers -> Paths]
    /\ relay \in {"nil", "down", "up"} /\ watch \in BOOLEAN
    /\ exitNode \in Peers \cup {None, Ghost} /\ exitPeer \in Peers \cup {None}
    /\ engine \in Configs
    /\ exitOn \in BOOLEAN
    /\ status \in [paths : [Peers -> {"direct", "relay", "connecting", "none", None}], exit : BOOLEAN]
    /\ act \in [Actors -> [pc : {"idle", "sync", "set", "merge", "peers", "routes", "apply"},
                           cfg : Configs, on : BOOLEAN]]
    /\ overlap \in BOOLEAN
    /\ stale \subseteq {"engine", "exit", "status"}

\* Whoever was the last to program WireGuard alone left it with the path ladder of
\* what the daemon knows now: every later change of a path, of the netmap or of the
\* exit node is programmed by the call that made it.
EngineCurrent ==
    (Busy = {} /\ "engine" \notin stale) => engine = buildPeerConfigs(view, path, Up, exitPeer)

\* ... and the OS sends its traffic through the mesh, and status says so, exactly
\* when a peer is the exit.
ExitCurrent ==
    (Busy = {} /\ "exit" \notin stale) => (exitOn <=> exitPeer # None) /\ (status.exit <=> exitPeer # None)

\* The exit peer is one the netmap offers as an exit under the name asked for, and
\* is forgotten with it.
ExitPeerOffered ==
    exitPeer # None => exitPeer = exitNode /\ Known(exitPeer) /\ view[exitPeer].exit

\* Unless the relay link moved or a path update is on its way, the status shows
\* each peer's path as it is, whatever calls overlap.
StatusCurrent ==
    "status" \notin stale => status.paths = refreshPeerStatus(view, path, Up)

\* What Status.ExitNodeActive is documented to report.
ActiveMeansInstalled == Busy = {} => (status.exit <=> exitOn)
=============================================================================
