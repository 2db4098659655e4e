--------------------------- MODULE PeerSyncProofs ---------------------------
(***************************************************************************)
(* WireGuard, the OS routing and the status report follow the daemon's     *)
(* state, for any number of peers and of calls in progress.                *)
(***************************************************************************)
EXTENDS PeerSync, Sequences, TLAPS

Steps == {"idle", "sync", "set", "merge", "peers", "routes", "apply"}
Record == [pc : Steps, cfg : Configs, on : BOOLEAN]

\* What WireGuard should have, and what the status should show.
Ladder == buildPeerConfigs(view, path, Up, exitPeer)
Shown == refreshPeerStatus(view, path, Up)

\* The calls that have yet to program WireGuard, and those that have yet to set the
\* exit routing for an exit peer they, or a netmap, selected.
WillProgram == {a \in Actors : act[a].pc \in {"sync", "set", "merge", "peers"}}
WillRoute == {a \in Actors : \/ a = X /\ act[a].pc # "idle"
                             \/ a = NM /\ act[a].pc \in {"peers", "routes", "apply"}}

\* A call that nothing came between is the only one ...
Alone == ~ overlap => \A a, b \in Busy : a = b

\* ... and what it computed is still what the daemon's state says.
ComputedPeers ==
    ~ overlap => \A a \in Actors : act[a].pc \in {"set", "peers"} => act[a].cfg = Ladder

ComputedExit ==
    ~ overlap => \A a \in Actors :
        (act[a].pc = "apply" \/ (a = X /\ act[a].pc = "set"))
            => (act[a].on <=> exitPeer # None) /\ (status.exit <=> exitPeer # None)

\* WireGuard is current, or known not to be, or about to be programmed.
EngineOrPending == "engine" \in stale \/ engine = Ladder \/ WillProgram # {}

ExitOrPending ==
    \/ "exit" \in stale
    \/ (exitOn <=> exitPeer # None) /\ (status.exit <=> exitPeer # None)
    \/ WillRoute # {}

\* SetExitNode never goes through syncPeers.
ExitSteps == act[X].pc \in {"idle", "set", "apply"}

\* The exit peer is what selectExitPeer says of the latest netmap.
Selected == exitPeer = selectExitPeer(view, exitNode)

IInv ==
    /\ TypeOK /\ ExitSteps /\ Alone /\ ComputedPeers /\ ComputedExit
    /\ EngineOrPending /\ ExitOrPending /\ Selected /\ StatusCurrent

-----------------------------------------------------------------------------
(* The computations under the lock.                                        *)

(* The actors are told apart by their names.                               *)
LEMMA ActorNames ==
    /\ NM \in Actors /\ X \in Actors /\ <<"watch">> \in Actors
    /\ NM # X /\ <<"watch">> # X
    /\ \A p \in Peers : Callback(p) \in Actors /\ Callback(p) # X
<1>1. <<"netmap">> # <<"exit">> /\ <<"watch">> # <<"exit">>
  BY Zenon
<1>2. ASSUME NEW p \in Peers PROVE Callback(p) # X
  <2>1. Len(Callback(p)) = 2 /\ Len(X) = 1
    BY Zenon DEF Callback, X
  <2> QED
    BY <2>1
<1> QED
  BY <1>1, <1>2, Zenon DEF Actors, NM, X

(* What buildPeerConfigs hands to the engine is a peer configuration.      *)
LEMMA ConfigsType ==
    ASSUME NEW vw, \A p \in Peers : vw[p] \in Views[p] \cup {Absent},
           NEW pt \in [Peers -> Paths], NEW up \in BOOLEAN, NEW ex
    PROVE  buildPeerConfigs(vw, pt, up, ex) \in Configs
<1>1. ASSUME NEW p \in Peers
      PROVE  endpoint(vw[p], pt[p], up) \in Endpoints \cup {"relay", "static", None}
  BY Zenon DEF endpoint
<1> DEFINE c(p) == IF vw[p] = Absent THEN Off
                   ELSE [ep |-> endpoint(vw[p], pt[p], up),
                         exit |-> endpoint(vw[p], pt[p], up) # None /\ p = ex]
<1>2. ASSUME NEW p \in Peers
      PROVE  c(p) \in [ep : Endpoints \cup {"relay", "static", None}, exit : BOOLEAN]
  <2> DEFINE ee == endpoint(vw[p], pt[p], up)
  <2>1. ee \in Endpoints \cup {"relay", "static", None}
    BY <1>1, Zenon
  <2>2. c(p) = Off \/ c(p) = [ep |-> ee, exit |-> ee # None /\ p = ex]
    BY Zenon
  <2> HIDE DEF ee
  <2> QED
    BY <2>1, <2>2, Zenon DEF Off
<1>3. buildPeerConfigs(vw, pt, up, ex) = [p \in Peers |-> c(p)]
  BY Zenon DEF buildPeerConfigs
<1> HIDE DEF c
<1> QED
  BY <1>2, <1>3, Zenon DEF Configs

ShownPaths == [Peers -> {"direct", "relay", "connecting", "none", None}]

(* What refreshPeerStatus shows for a peer is one of the five words.       *)
LEMMA ShownType ==
    ASSUME NEW vw, \A p \in Peers : vw[p] \in Views[p] \cup {Absent},
           NEW pt \in [Peers -> Paths], NEW up \in BOOLEAN
    PROVE  refreshPeerStatus(vw, pt, up) \in ShownPaths
<1>1. ASSUME NEW p \in Peers, vw[p] # Absent
      PROVE  vw[p].online \in BOOLEAN
  BY <1>1, PeerSyncAssumption, Zenon
<1>2. ASSUME NEW p \in Peers
      PROVE  pt[p] \in Endpoints \cup {"none", "connecting"}
  BY Zenon DEF Paths
<1> QED
  BY <1>1, <1>2, Zenon DEF refreshPeerStatus, ShownPaths

(* selectExitPeer returns a peer or none.                                  *)
LEMMA SelectType ==
    ASSUME NEW vw, NEW want
    PROVE  selectExitPeer(vw, want) \in Peers \cup {None}
BY Zenon DEF selectExitPeer

-----------------------------------------------------------------------------
(* Calls in progress.                                                      *)

(* The calls other than a are left as they are.                            *)
Others(a) == \A b \in Actors \ {a} : act'[b] = act[b]

(* Replacing the record of one call, or its step, leaves the others.       *)
LEMMA Replaced ==
    ASSUME act \in [Actors -> Record], NEW a \in Actors, NEW r \in Record,
           act' = [act EXCEPT ![a] = r]
    PROVE  act' \in [Actors -> Record] /\ act'[a] = r /\ Others(a)
BY Zenon DEF Others

(* Moving a call on to its next step keeps what it computed.               *)
LEMMA Advanced ==
    ASSUME act \in [Actors -> Record], NEW a \in Actors, NEW next \in Steps,
           act' = [act EXCEPT ![a].pc = next]
    PROVE  /\ act' \in [Actors -> Record] /\ Others(a)
           /\ act'[a].pc = next /\ act'[a].cfg = act[a].cfg /\ act'[a].on = act[a].on
<1> DEFINE r == [act[a] EXCEPT !.pc = next]
<1>1. act[a] \in Record
  BY Zenon
<1>2. r \in Record /\ r.pc = next /\ r.cfg = act[a].cfg /\ r.on = act[a].on
  BY <1>1, Zenon DEF Record, Steps
<1>3. act' = [act EXCEPT ![a] = r]
  BY Zenon
<1> HIDE DEF r
<1> QED
  BY <1>2, <1>3, Zenon DEF Others

(* A call that begins is alone, or an overlap is recorded.                 *)
LEMMA Begun ==
    ASSUME act \in [Actors -> Record], NEW a \in Actors, begins(a), Others(a)
    PROVE  Alone' /\ (~ overlap' => \A b \in Actors \ {a} : act'[b].pc = "idle")
<1> SUFFICES ASSUME ~ overlap' PROVE /\ \A b \in Actors \ {a} : act'[b].pc = "idle"
                                     /\ \A b, c \in Busy' : b = c
  BY Zenon DEF Alone
<1>1. Busy = {}
  BY Zenon DEF begins
<1>2. \A b \in Actors \ {a} : act'[b].pc = "idle"
  BY <1>1, Zenon DEF Busy, Others
<1> QED
  BY <1>2, Zenon DEF Busy

(* A call that goes on stays alone.                                        *)
LEMMA Continued ==
    ASSUME act \in [Actors -> Record], Alone, NEW a \in Actors, act[a].pc # "idle",
           Others(a), overlap' = overlap
    PROVE  Alone' /\ (~ overlap' => \A b \in Actors \ {a} : act'[b].pc = "idle")
<1> SUFFICES ASSUME ~ overlap' PROVE /\ \A b \in Actors \ {a} : act'[b].pc = "idle"
                                     /\ \A b, c \in Busy' : b = c
  BY Zenon DEF Alone
<1>1. a \in Busy
  BY Zenon DEF Busy
<1>2. \A b \in Actors \ {a} : act[b].pc = "idle"
  BY <1>1, Zenon DEF Busy, Alone
<1>3. \A b \in Actors \ {a} : act'[b].pc = "idle"
  BY <1>2, Zenon DEF Others
<1> QED
  BY <1>3, Zenon DEF Busy

(* A call that has yet to program WireGuard keeps that duty through the    *)
(* steps of others, and through its own until it has.                      *)
LEMMA StillWillProgram ==
    ASSUME NEW a \in Actors, Others(a), WillProgram # {},
           act[a].pc \in {"sync", "set", "merge", "peers"}
               => act'[a].pc \in {"sync", "set", "merge", "peers"}
    PROVE  WillProgram' # {}
BY Zenon DEF WillProgram, Others

(* The same for a call that has yet to set the exit routing.               *)
LEMMA StillWillRoute ==
    ASSUME NEW a \in Actors, Others(a), WillRoute # {},
           a \in WillRoute => a \in WillRoute'
    PROVE  WillRoute' # {}
<1>1. PICK b \in WillRoute : TRUE
  BY Zenon
<1>2. b \in WillRoute'
  BY <1>1, Zenon DEF WillRoute, Others
<1> QED
  BY <1>2, Zenon

-----------------------------------------------------------------------------
(* Types.                                                                  *)

(* The idle record, the one an actor computes, and the one it moves on to. *)
LEMMA RecordType ==
    ASSUME TypeOK
    PROVE  /\ Idle \in Record /\ Idle.pc = "idle"
           /\ [Idle EXCEPT !.pc = "merge"] \in Record /\ [Idle EXCEPT !.pc = "merge"].pc = "merge"
           /\ Ladder \in Configs /\ Shown \in ShownPaths
           /\ act \in [Actors -> Record]
<1>1. [p \in Peers |-> Off] \in Configs
  BY Zenon DEF Off, Configs
<1>2. Idle \in Record
  BY <1>1, Zenon DEF Idle, Record, Steps
<1>3. Idle.pc = "idle"
  BY Zenon DEF Idle
<1>4. [Idle EXCEPT !.pc = "merge"] \in Record /\ [Idle EXCEPT !.pc = "merge"].pc = "merge"
  BY <1>2, Zenon DEF Record, Steps
<1>5. Ladder \in Configs /\ Shown \in ShownPaths
  BY ConfigsType, ShownType, Zenon DEF TypeOK, Ladder, Shown, Up
<1> QED
  BY <1>2, <1>3, <1>4, <1>5, Zenon DEF TypeOK, Record, Steps

(* A status whose paths are replaced keeps its other field.                *)
LEMMA StatusReplaced ==
    ASSUME NEW st \in [paths : ShownPaths, exit : BOOLEAN], NEW pp \in ShownPaths, NEW ee \in BOOLEAN
    PROVE  /\ [st EXCEPT !.paths = pp] \in [paths : ShownPaths, exit : BOOLEAN]
           /\ [st EXCEPT !.paths = pp].paths = pp /\ [st EXCEPT !.paths = pp].exit = st.exit
           /\ [st EXCEPT !.exit = ee] \in [paths : ShownPaths, exit : BOOLEAN]
           /\ [st EXCEPT !.exit = ee].exit = ee /\ [st EXCEPT !.exit = ee].paths = st.paths
BY Zenon

(* What a call that computes leaves, whatever state it computes from.      *)
LEMMA ComputesType ==
    ASSUME TypeOK, NEW a \in Actors,
           NEW vw, \A p \in Peers : vw[p] \in Views[p] \cup {Absent},
           NEW pt \in [Peers -> Paths], NEW ex, NEW next \in Steps, computes(a, vw, pt, ex, next)
    PROVE  /\ act' \in [Actors -> Record] /\ Others(a)
           /\ act'[a].pc = next /\ act'[a].cfg = buildPeerConfigs(vw, pt, Up, ex)
           /\ act'[a].on = (ex # None)
           /\ status' \in [paths : ShownPaths, exit : BOOLEAN]
           /\ status'.paths = refreshPeerStatus(vw, pt, Up) /\ status'.exit = status.exit
<1> DEFINE cc == buildPeerConfigs(vw, pt, Up, ex)
           pp == refreshPeerStatus(vw, pt, Up)
           rr == [pc |-> next, cfg |-> cc, on |-> ex # None]
<1>1. Up \in BOOLEAN
  BY Zenon DEF Up
<1>2. cc \in Configs /\ pp \in ShownPaths
  BY <1>1, ConfigsType, ShownType, Zenon
<1>3. act' = [act EXCEPT ![a] = rr] /\ status' = [status EXCEPT !.paths = pp]
  BY Zenon DEF computes
<1> HIDE DEF cc, pp
<1>4. rr \in Record /\ rr.pc = next /\ rr.cfg = cc /\ rr.on = (ex # None)
  BY <1>2, Zenon DEF Record, Steps
<1> HIDE DEF rr
<1>5. act' \in [Actors -> Record] /\ act'[a] = rr /\ Others(a)
  BY <1>3, <1>4, RecordType, Replaced, Zenon
<1>6. status \in [paths : ShownPaths, exit : BOOLEAN]
  BY Zenon DEF TypeOK, ShownPaths
<1>7. /\ status' \in [paths : ShownPaths, exit : BOOLEAN]
      /\ status'.paths = pp /\ status'.exit = status.exit
  BY <1>2, <1>3, <1>6, StatusReplaced, Zenon
<1> QED
  BY <1>4, <1>5, <1>7, Zenon DEF cc, pp

-----------------------------------------------------------------------------
(* The invariant, one action at a time.                                    *)

(* What a call has computed stays right when no other call is in progress. *)
LEMMA CallStep ==
    ASSUME NEW a \in Actors,
           ~ overlap' => \A b \in Actors \ {a} : act'[b].pc = "idle",
           (~ overlap' /\ act'[a].pc \in {"set", "peers"}) => act'[a].cfg = Ladder',
           (~ overlap' /\ (act'[a].pc = "apply" \/ (a = X /\ act'[a].pc = "set")))
               => (act'[a].on <=> exitPeer' # None) /\ (status'.exit <=> exitPeer' # None)
    PROVE  ComputedPeers' /\ ComputedExit'
<1>1. ComputedPeers'
  BY Zenon DEF ComputedPeers
<1>2. ComputedExit'
  BY Zenon DEF ComputedExit
<1> QED
  BY <1>1, <1>2, Zenon

(* ensureRelay.                                                            *)
LEMMA NetMapRelayStep ==
    ASSUME IInv, NEW wanted \in {"no", "same", "other"}, NetMapRelay(wanted)
    PROVE  IInv'
<1> USE DEF IInv
<1> DEFINE next == IF wanted = "no" /\ relay # "nil" THEN "sync" ELSE "merge"
<1>1. /\ act' = [act EXCEPT ![NM].pc = next] /\ begins(NM) /\ act[NM].pc = "idle"
      /\ UNCHANGED <<view, path, exitNode, exitPeer, engine, exitOn, status>>
  BY Zenon DEF NetMapRelay, begins
<1>2. next \in {"sync", "merge"} /\ next \in Steps
  BY Zenon DEF Steps
<1> HIDE DEF next
<1>3. act' \in [Actors -> Record] /\ Others(NM) /\ act'[NM].pc = next
  BY <1>1, <1>2, ActorNames, RecordType, Advanced, Zenon
<1>4. Alone' /\ (~ overlap' => \A b \in Actors \ {NM} : act'[b].pc = "idle")
  BY <1>1, <1>3, ActorNames, RecordType, Begun, Zenon
<1>5. ComputedPeers' /\ ComputedExit'
  BY <1>2, <1>3, <1>4, ActorNames, CallStep, Zenon
<1>6. relay' \in {"nil", "down", "up"} /\ (relay' = "up" => relay = "up")
  BY Zenon DEF NetMapRelay, TypeOK
<1>7. TypeOK'
  <2>1. watch' \in BOOLEAN /\ overlap' \in BOOLEAN /\ stale' \subseteq {"engine", "exit", "status"}
    BY Zenon DEF NetMapRelay, begins, TypeOK
  <2> QED
    BY <1>1, <1>3, <1>6, <2>1, Zenon DEF TypeOK, Record, Steps
<1>8. EngineOrPending'
  BY <1>2, <1>3, ActorNames, Zenon DEF EngineOrPending, WillProgram
<1>9. ExitOrPending'
  <2>1. "exit" \in stale => "exit" \in stale'
    BY Zenon DEF NetMapRelay
  <2>2. WillRoute # {} => WillRoute' # {}
    BY <1>1, <1>3, ActorNames, StillWillRoute, Zenon DEF WillRoute
  <2> QED
    BY <1>1, <2>1, <2>2, Zenon DEF ExitOrPending
<1>10. StatusCurrent'
  <2>1. CASE relay' # "up" /\ Up
    BY <2>1, Zenon DEF NetMapRelay, StatusCurrent
  <2>2. CASE ~ (relay' # "up" /\ Up)
    <3>1. stale' = stale /\ Up' = Up
      BY <1>6, <2>2, Zenon DEF NetMapRelay, Up
    <3> QED
      BY <1>1, <3>1, Zenon DEF StatusCurrent
  <2> QED
    BY <2>1, <2>2, Zenon
<1>11. Selected' /\ ExitSteps'
  BY <1>1, <1>3, ActorNames, Zenon DEF Selected, ExitSteps, Others
<1> QED
  BY <1>4, <1>5, <1>7, <1>8, <1>9, <1>10, <1>11, Zenon

(* The critical section of applyNetMap.                                    *)
LEMMA NetMapMergeStep ==
    ASSUME IInv, NetMapMerge
    PROVE  IInv'
<1> USE DEF IInv
<1>1. /\ act[NM].pc = "merge"
      /\ exitPeer' = selectExitPeer(view', exitNode)
      /\ computes(NM, view', path', exitPeer', "peers")
      /\ stale' = stale \ {"status"}
      /\ UNCHANGED <<relay, watch, exitNode, engine, exitOn, overlap>>
  BY Zenon DEF NetMapMerge
<1>2. \A p \in Peers : view'[p] \in Views[p] \cup {Absent}
  BY Zenon DEF NetMapMerge
<1>3. path' \in [Peers -> Paths]
  BY Zenon DEF NetMapMerge, TypeOK, Paths
<1>4. /\ act' \in [Actors -> Record] /\ Others(NM)
      /\ act'[NM].pc = "peers" /\ act'[NM].cfg = buildPeerConfigs(view', path', Up, exitPeer')
      /\ status' \in [paths : ShownPaths, exit : BOOLEAN]
      /\ status'.paths = refreshPeerStatus(view', path', Up)
  <2>1. TypeOK /\ "peers" \in Steps /\ NM \in Actors
    BY ActorNames, Zenon DEF Steps
  <2>2. computes(NM, view', path', exitPeer', "peers")
    BY <1>1, Zenon
  <2> HIDE DEF IInv
  <2> QED
    BY <1>2, <1>3, <2>1, <2>2, ComputesType, SMTT(60)
<1>5. Alone' /\ (~ overlap' => \A b \in Actors \ {NM} : act'[b].pc = "idle")
  BY <1>1, <1>4, ActorNames, RecordType, Continued, Zenon
<1>6. Up' = Up
  BY <1>1, Zenon DEF Up
<1>7. ComputedPeers' /\ ComputedExit'
  <2>1. act'[NM].cfg = Ladder'
    BY <1>4, <1>6, Zenon DEF Ladder
  <2> QED
    BY <1>4, <1>5, <2>1, ActorNames, CallStep, Zenon
<1>8. TypeOK'
  BY <1>1, <1>2, <1>3, <1>4, SelectType, Zenon DEF TypeOK, Record, Steps, ShownPaths
<1>9. EngineOrPending' /\ ExitOrPending'
  BY <1>4, ActorNames, Zenon DEF EngineOrPending, WillProgram, ExitOrPending, WillRoute
<1>10. StatusCurrent' /\ Selected' /\ ExitSteps'
  BY <1>1, <1>4, <1>6, ActorNames, Zenon DEF StatusCurrent, Selected, ExitSteps, Others
<1> QED
  BY <1>5, <1>7, <1>8, <1>9, <1>10, Zenon

(* A call of the engine, by applyNetMap or by SetExitNode.                 *)
LEMMA SetPeersStep ==
    ASSUME IInv, NEW a \in {NM, X}, NEW next \in {"routes", "apply"},
           a = NM => next = "routes" /\ act[a].pc = "peers",
           a = X => next = "apply" /\ act[a].pc = "set",
           SetPeers(a, next),
           UNCHANGED <<view, path, relay, watch, exitNode, exitPeer, exitOn, status, overlap>>
    PROVE  IInv'
<1> USE DEF IInv
<1>1. a \in Actors /\ act[a].pc \in {"set", "peers"} /\ act[a] \in Record /\ NM # X
  BY ActorNames, RecordType, Zenon
<1>2. Ladder' = Ladder /\ Shown' = Shown
  BY Zenon DEF Ladder, Shown, Up
<1>3. CASE /\ engine' = act[a].cfg
           /\ act' = [act EXCEPT ![a] = IF next = "idle" THEN Idle ELSE [@ EXCEPT !.pc = next]]
           /\ stale' = IF overlap THEN stale \cup {"engine"} ELSE stale \ {"engine"}
  <2>1. act' = [act EXCEPT ![a].pc = next] /\ next \in Steps
    BY <1>3, Zenon DEF Steps
  <2>2. /\ act' \in [Actors -> Record] /\ Others(a)
        /\ act'[a].pc = next /\ act'[a].on = act[a].on
    BY <1>1, <2>1, RecordType, Advanced, Zenon
  <2>3. Alone' /\ (~ overlap' => \A b \in Actors \ {a} : act'[b].pc = "idle")
    BY <1>1, <2>2, RecordType, Continued, Zenon
  <2>4. ComputedPeers' /\ ComputedExit'
    <3>1. (~ overlap /\ a = X) => (act[a].on <=> exitPeer # None) /\ (status.exit <=> exitPeer # None)
      BY <1>1, Zenon DEF ComputedExit
    <3> QED
      BY <1>1, <2>2, <2>3, <3>1, CallStep, Zenon
  <2>5. TypeOK'
    BY <1>1, <1>3, <2>2, Zenon DEF TypeOK, Record, Steps
  <2>6. EngineOrPending'
    BY <1>1, <1>2, <1>3, Zenon DEF EngineOrPending, ComputedPeers
  <2>7. ExitOrPending'
    BY <1>1, <2>2, Zenon DEF ExitOrPending, WillRoute
  <2>8. StatusCurrent' /\ Selected' /\ ExitSteps'
    BY <1>1, <1>2, <1>3, <2>2, ActorNames, Zenon DEF StatusCurrent, Shown, Selected, ExitSteps, Others
  <2> QED
    BY <2>3, <2>4, <2>5, <2>6, <2>7, <2>8, Zenon
<1>4. CASE /\ engine' = engine
           /\ act' = [act EXCEPT ![a] = Idle]
           /\ stale' = stale \cup {"engine"} \cup IF next = "idle" THEN {} ELSE {"exit"}
  <2>1. stale' = stale \cup {"engine", "exit"}
    BY <1>4, Zenon
  <2>2. act' \in [Actors -> Record] /\ Others(a) /\ act'[a].pc = "idle"
    BY <1>1, <1>4, RecordType, Replaced, Zenon
  <2>3. Alone' /\ (~ overlap' => \A b \in Actors \ {a} : act'[b].pc = "idle")
    BY <1>1, <2>2, RecordType, Continued, Zenon
  <2>4. ComputedPeers' /\ ComputedExit'
    BY <1>1, <2>2, <2>3, CallStep, Zenon
  <2>5. TypeOK'
    BY <1>4, <2>1, <2>2, Zenon DEF TypeOK, Record, Steps
  <2>6. EngineOrPending' /\ ExitOrPending'
    BY <2>1, Zenon DEF EngineOrPending, ExitOrPending
  <2>7. StatusCurrent' /\ Selected' /\ ExitSteps'
    BY <1>1, <1>2, <2>1, <2>2, ActorNames, Zenon DEF StatusCurrent, Shown, Selected, ExitSteps, Others
  <2> QED
    BY <2>3, <2>4, <2>5, <2>6, <2>7, Zenon
<1> QED
  BY <1>3, <1>4, Zenon DEF SetPeers

(* applyRoutes reads the exit peer again.                                  *)
LEMMA NetMapRoutesStep ==
    ASSUME IInv, NetMapRoutes
    PROVE  IInv'
<1> USE DEF IInv
<1> DEFINE on == exitPeer # None
           r == [act[NM] EXCEPT !.pc = "apply", !.on = on]
<1>1. /\ act[NM].pc = "routes" /\ status' = [status EXCEPT !.exit = on]
      /\ act' = [act EXCEPT ![NM].pc = "apply", ![NM].on = on]
      /\ UNCHANGED <<view, path, relay, watch, exitNode, exitPeer, engine, exitOn, overlap, stale>>
  BY Zenon DEF NetMapRoutes
<1>2. on \in BOOLEAN /\ NM \in Actors /\ act[NM] \in Record
  BY ActorNames, RecordType, Zenon
<1>3. r \in Record /\ r.pc = "apply" /\ r.on = on
  <2> HIDE DEF on
  <2> QED
    BY <1>2, Zenon DEF Record, Steps
<1>4. act' = [act EXCEPT ![NM] = r]
  <2>1. act \in [Actors -> Record]
    BY RecordType, Zenon
  <2> HIDE DEF on
  <2> QED
    BY <1>1, <1>2, <2>1, Zenon
<1>5. status \in [paths : ShownPaths, exit : BOOLEAN]
  BY Zenon DEF TypeOK, ShownPaths
<1> HIDE DEF r, on
<1>6. act' \in [Actors -> Record] /\ act'[NM] = r /\ Others(NM)
  BY <1>2, <1>3, <1>4, RecordType, Replaced, Zenon
<1>7. /\ status' \in [paths : ShownPaths, exit : BOOLEAN]
      /\ status'.paths = status.paths /\ status'.exit = on
  BY <1>1, <1>2, <1>5, Zenon
<1>8. Alone' /\ (~ overlap' => \A b \in Actors \ {NM} : act'[b].pc = "idle")
  BY <1>1, <1>2, <1>6, RecordType, Continued, Zenon
<1>9. ComputedPeers' /\ ComputedExit'
  <2>1. act'[NM].pc = "apply" /\ (act'[NM].on <=> exitPeer' # None) /\ (status'.exit <=> exitPeer' # None)
    BY <1>1, <1>3, <1>6, <1>7, Zenon DEF on
  <2> QED
    BY <1>2, <1>8, <2>1, CallStep, Zenon
<1>10. TypeOK'
  BY <1>1, <1>6, <1>7, Zenon DEF TypeOK, Record, Steps, ShownPaths
<1>11. EngineOrPending'
  <2>1. Ladder' = Ladder
    BY <1>1, Zenon DEF Ladder, Up
  <2>2. WillProgram # {} => WillProgram' # {}
    BY <1>1, <1>2, <1>6, StillWillProgram, Zenon
  <2> QED
    BY <1>1, <2>1, <2>2, Zenon DEF EngineOrPending
<1>12. ExitOrPending'
  BY <1>2, <1>3, <1>6, Zenon DEF ExitOrPending, WillRoute
<1>13. StatusCurrent' /\ Selected' /\ ExitSteps'
  <2>1. Up' = Up
    BY <1>1, Zenon DEF Up
  <2> QED
    BY <1>1, <1>6, <1>7, <2>1, ActorNames, Zenon DEF StatusCurrent, Selected, ExitSteps, Others
<1> QED
  BY <1>8, <1>9, <1>10, <1>11, <1>12, <1>13, Zenon

(* A call of the OS routing, by applyRoutes or by SetExitNode.             *)
LEMMA SetExitStep ==
    ASSUME IInv, NEW a \in {NM, X}, act[a].pc = "apply", SetExit(a),
           UNCHANGED <<view, path, relay, watch, exitNode, exitPeer, engine, status, overlap>>
    PROVE  IInv'
<1> USE DEF IInv
<1>1. a \in Actors /\ act[a] \in Record /\ act' = [act EXCEPT ![a] = Idle]
  BY ActorNames, RecordType, Zenon DEF SetExit
<1>2. act' \in [Actors -> Record] /\ Others(a) /\ act'[a].pc = "idle"
  BY <1>1, RecordType, Replaced, Zenon
<1>3. Alone' /\ (~ overlap' => \A b \in Actors \ {a} : act'[b].pc = "idle")
  BY <1>1, <1>2, RecordType, Continued, Zenon
<1>4. ComputedPeers' /\ ComputedExit'
  BY <1>1, <1>2, <1>3, CallStep, Zenon
<1>5. TypeOK'
  <2>1. exitOn' \in BOOLEAN /\ stale' \subseteq {"engine", "exit", "status"}
    BY <1>1, Zenon DEF SetExit, TypeOK, Record, Steps
  <2> QED
    BY <1>2, <2>1, Zenon DEF TypeOK, Record, Steps
<1>6. EngineOrPending'
  <2>1. Ladder' = Ladder
    BY Zenon DEF Ladder, Up
  <2>2. WillProgram # {} => WillProgram' # {}
    BY <1>1, <1>2, StillWillProgram, Zenon
  <2>3. "engine" \in stale => "engine" \in stale'
    BY Zenon DEF SetExit
  <2> QED
    BY <2>1, <2>2, <2>3, Zenon DEF EngineOrPending
<1>7. ExitOrPending'
  <2>1. CASE "exit" \in stale'
    BY <2>1, Zenon DEF ExitOrPending
  <2>2. CASE "exit" \notin stale'
    <3>1. ~ overlap /\ exitOn' = act[a].on
      BY <2>2, Zenon DEF SetExit
    <3>2. (act[a].on <=> exitPeer # None) /\ (status.exit <=> exitPeer # None)
      BY <1>1, <3>1, Zenon DEF ComputedExit
    <3> QED
      BY <3>1, <3>2, Zenon DEF ExitOrPending
  <2> QED
    BY <2>1, <2>2, Zenon
<1>8. StatusCurrent' /\ Selected' /\ ExitSteps'
  <2>1. Up' = Up /\ ("status" \notin stale' => "status" \notin stale)
    BY Zenon DEF Up, SetExit
  <2> QED
    BY <1>1, <1>2, <2>1, ActorNames, Zenon DEF StatusCurrent, Selected, ExitSteps, Others
<1> QED
  BY <1>3, <1>4, <1>5, <1>6, <1>7, <1>8, Zenon

(* syncPeers computes.                                                     *)
LEMMA SyncPeersStep ==
    ASSUME IInv, NEW a \in Actors, syncPeers(a)
    PROVE  IInv'
<1> USE DEF IInv
<1>1. /\ act[a].pc = "sync" /\ computes(a, view, path, exitPeer, "set")
      /\ stale' = stale \ {"status"}
      /\ UNCHANGED <<view, path, relay, watch, exitNode, exitPeer, engine, exitOn, overlap>>
  BY Zenon DEF syncPeers
<1>2. a # X
  BY <1>1, Zenon DEF ExitSteps
<1>3. /\ act' \in [Actors -> Record] /\ Others(a) /\ act'[a].pc = "set"
      /\ act'[a].cfg = buildPeerConfigs(view, path, Up, exitPeer)
      /\ status' \in [paths : ShownPaths, exit : BOOLEAN]
      /\ status'.paths = refreshPeerStatus(view, path, Up) /\ status'.exit = status.exit
  <2>1. TypeOK /\ "set" \in Steps
    BY Zenon DEF Steps
  <2>2. (\A p \in Peers : view[p] \in Views[p] \cup {Absent}) /\ path \in [Peers -> Paths]
    BY <2>1, Zenon DEF TypeOK
  <2>3. computes(a, view, path, exitPeer, "set")
    BY <1>1, Zenon
  <2> HIDE DEF IInv
  <2> QED
    BY <2>1, <2>2, <2>3, ComputesType, SMTT(60)
<1>4. Alone' /\ (~ overlap' => \A b \in Actors \ {a} : act'[b].pc = "idle")
  BY <1>1, <1>3, RecordType, Continued, Zenon
<1>5. Up' = Up
  BY <1>1, Zenon DEF Up
<1>6. ComputedPeers' /\ ComputedExit'
  <2>1. act'[a].cfg = Ladder'
    BY <1>1, <1>3, <1>5, Zenon DEF Ladder
  <2> QED
    BY <1>2, <1>3, <1>4, <2>1, CallStep, Zenon
<1>7. TypeOK'
  BY <1>1, <1>3, Zenon DEF TypeOK, Record, Steps, ShownPaths
<1>8. EngineOrPending'
  BY <1>3, Zenon DEF EngineOrPending, WillProgram
<1>9. ExitOrPending'
  <2>1. WillRoute # {} => WillRoute' # {}
    BY <1>1, <1>2, <1>3, StillWillRoute, Zenon DEF WillRoute
  <2> QED
    BY <1>1, <1>3, <2>1, Zenon DEF ExitOrPending
<1>10. StatusCurrent' /\ Selected' /\ ExitSteps'
  BY <1>1, <1>2, <1>3, <1>5, ActorNames, Zenon DEF StatusCurrent, Selected, ExitSteps, Others
<1> QED
  BY <1>4, <1>6, <1>7, <1>8, <1>9, <1>10, Zenon

(* syncPeers calls the engine.                                             *)
LEMMA SyncSetStep ==
    ASSUME IInv, NEW a \in Actors, syncSet(a)
    PROVE  IInv'
<1> USE DEF IInv
<1> DEFINE r == IF a = NM THEN [Idle EXCEPT !.pc = "merge"] ELSE Idle
<1>1. /\ act[a].pc = "set" /\ a # X /\ act' = [act EXCEPT ![a] = r]
      /\ UNCHANGED <<view, path, relay, watch, exitNode, exitPeer, exitOn, status, overlap>>
  BY Zenon DEF syncSet, X
<1>2. r \in Record /\ r.pc \in {"idle", "merge"}
  BY RecordType, Zenon
<1> HIDE DEF r
<1>3. act' \in [Actors -> Record] /\ Others(a) /\ act'[a] = r
  BY <1>1, <1>2, RecordType, Replaced, Zenon
<1>4. Alone' /\ (~ overlap' => \A b \in Actors \ {a} : act'[b].pc = "idle")
  BY <1>1, <1>3, RecordType, Continued, Zenon
<1>5. ComputedPeers' /\ ComputedExit'
  BY <1>2, <1>3, <1>4, CallStep, Zenon
<1>6. Ladder' = Ladder /\ Up' = Up
  BY <1>1, Zenon DEF Ladder, Up
<1>7. TypeOK'
  <2>1. act[a].cfg \in Configs
    BY RecordType, Zenon DEF Record, Steps
  <2>2. engine' \in Configs /\ stale' \subseteq {"engine", "exit", "status"}
    BY <2>1, Zenon DEF syncSet, TypeOK
  <2> QED
    BY <1>1, <1>3, <2>2, Zenon DEF TypeOK, Record, Steps
<1>8. EngineOrPending'
  <2>1. CASE "engine" \in stale'
    BY <2>1, Zenon DEF EngineOrPending
  <2>2. CASE "engine" \notin stale'
    <3>1. ~ overlap /\ engine' = act[a].cfg
      BY <2>2, Zenon DEF syncSet
    <3> QED
      BY <1>1, <1>6, <3>1, Zenon DEF ComputedPeers, EngineOrPending
  <2> QED
    BY <2>1, <2>2, Zenon
<1>9. ExitOrPending'
  <2>1. WillRoute # {} => WillRoute' # {}
    BY <1>1, <1>3, StillWillRoute, Zenon DEF WillRoute
  <2>2. "exit" \in stale => "exit" \in stale'
    BY Zenon DEF syncSet
  <2> QED
    BY <1>1, <2>1, <2>2, Zenon DEF ExitOrPending
<1>10. StatusCurrent' /\ Selected' /\ ExitSteps'
  <2>1. "status" \notin stale' => "status" \notin stale
    BY Zenon DEF syncSet
  <2> QED
    BY <1>1, <1>3, <1>6, <2>1, ActorNames, Zenon DEF StatusCurrent, Selected, ExitSteps, Others
<1> QED
  BY <1>4, <1>5, <1>7, <1>8, <1>9, <1>10, Zenon

(* A callback of ConnMgr.                                                  *)
LEMMA OnPathUpdateStep ==
    ASSUME IInv, NEW p \in Peers, NEW st \in Paths, onPathUpdate(p, st)
    PROVE  IInv'
<1> USE DEF IInv
<1> DEFINE a == Callback(p)
<1>1. /\ begins(a) /\ act[a].pc = "idle" /\ act' = [act EXCEPT ![a].pc = "sync"]
      /\ stale' = stale \cup {"status"}
      /\ UNCHANGED <<view, relay, watch, exitNode, exitPeer, engine, exitOn, status>>
  BY Zenon DEF onPathUpdate, begins
<1>2. a \in Actors /\ a # X
  BY ActorNames, Zenon
<1> HIDE DEF a
<1>3. act' \in [Actors -> Record] /\ Others(a) /\ act'[a].pc = "sync"
  BY <1>1, <1>2, RecordType, Advanced, Zenon DEF Steps
<1>4. Alone' /\ (~ overlap' => \A b \in Actors \ {a} : act'[b].pc = "idle")
  BY <1>1, <1>2, <1>3, RecordType, Begun, Zenon
<1>5. ComputedPeers' /\ ComputedExit'
  BY <1>2, <1>3, <1>4, CallStep, Zenon
<1>6. TypeOK'
  <2>1. path' \in [Peers -> Paths] /\ overlap' \in BOOLEAN
    BY <1>1, Zenon DEF onPathUpdate, begins, TypeOK
  <2> QED
    BY <1>1, <1>3, <2>1, Zenon DEF TypeOK, Record, Steps
<1>7. EngineOrPending'
  BY <1>2, <1>3, Zenon DEF EngineOrPending, WillProgram
<1>8. ExitOrPending'
  <2>1. WillRoute # {} => WillRoute' # {}
    BY <1>1, <1>2, <1>3, StillWillRoute, Zenon DEF WillRoute
  <2> QED
    BY <1>1, <2>1, Zenon DEF ExitOrPending
<1>9. StatusCurrent' /\ Selected' /\ ExitSteps'
  BY <1>1, <1>2, <1>3, ActorNames, Zenon DEF StatusCurrent, Selected, ExitSteps, Others
<1> QED
  BY <1>4, <1>5, <1>6, <1>7, <1>8, <1>9, Zenon

(* The relay link moves.                                                   *)
LEMMA LinkStep ==
    ASSUME IInv, Link
    PROVE  IInv'
<1> USE DEF IInv
<1>1. /\ overlap' = (Busy # {}) /\ stale' = stale \cup {"engine", "status"}
      /\ UNCHANGED <<view, path, watch, exitNode, exitPeer, engine, exitOn, status, act>>
      /\ relay' \in {"down", "up"}
  BY Zenon DEF Link
<1>2. ~ overlap' => \A b \in Actors : act'[b].pc = "idle"
  BY <1>1, Zenon DEF Busy
<1>3. Alone' /\ ComputedPeers' /\ ComputedExit'
  BY <1>2, Zenon DEF Alone, Busy, ComputedPeers, ComputedExit
<1>4. TypeOK'
  BY <1>1, Zenon DEF TypeOK
<1>5. EngineOrPending' /\ StatusCurrent'
  BY <1>1, Zenon DEF EngineOrPending, StatusCurrent
<1>6. ExitOrPending' /\ Selected' /\ ExitSteps'
  BY <1>1, Zenon DEF ExitOrPending, WillRoute, Selected, ExitSteps
<1> QED
  BY <1>3, <1>4, <1>5, <1>6, Zenon

(* The watcher ensureRelay started wakes up.                               *)
LEMMA WatchStep ==
    ASSUME IInv, Watch
    PROVE  IInv'
<1> USE DEF IInv
<1> DEFINE a == <<"watch">>
<1>1. watch' = FALSE /\ UNCHANGED <<view, path, relay, exitNode, exitPeer, engine, exitOn, status, stale>>
  BY Zenon DEF Watch
<1>2. a \in Actors /\ a # X
  BY ActorNames, Zenon
<1>3. CASE begins(a) /\ act' = [act EXCEPT ![a].pc = "sync"]
  <2> HIDE DEF a
  <2>1. act' \in [Actors -> Record] /\ Others(a) /\ act'[a].pc = "sync" /\ act[a].pc = "idle"
    BY <1>2, <1>3, RecordType, Advanced, Zenon DEF Steps, begins
  <2>2. Alone' /\ (~ overlap' => \A b \in Actors \ {a} : act'[b].pc = "idle")
    BY <1>2, <1>3, <2>1, RecordType, Begun, Zenon
  <2>3. ComputedPeers' /\ ComputedExit'
    BY <1>2, <2>1, <2>2, CallStep, Zenon
  <2>4. TypeOK'
    BY <1>1, <1>3, <2>1, Zenon DEF TypeOK, Record, Steps, begins
  <2>5. EngineOrPending'
    BY <1>2, <2>1, Zenon DEF EngineOrPending, WillProgram
  <2>6. ExitOrPending'
    <3>1. WillRoute # {} => WillRoute' # {}
      BY <1>2, <2>1, StillWillRoute, Zenon DEF WillRoute
    <3> QED
      BY <1>1, <3>1, Zenon DEF ExitOrPending
  <2>7. StatusCurrent' /\ Selected' /\ ExitSteps'
    BY <1>1, <1>2, <2>1, ActorNames, Zenon DEF StatusCurrent, Selected, ExitSteps, Others, Up
  <2> QED
    BY <2>2, <2>3, <2>4, <2>5, <2>6, <2>7, Zenon
<1>4. CASE UNCHANGED <<act, overlap>>
  <2>1. Ladder' = Ladder /\ Up' = Up
    BY <1>1, Zenon DEF Ladder, Up
  <2>2. TypeOK' /\ Alone' /\ ComputedPeers' /\ ComputedExit'
    BY <1>1, <1>4, <2>1, ZenonT(60) DEF TypeOK, Alone, Busy, ComputedPeers, ComputedExit
  <2>3. EngineOrPending' /\ ExitOrPending' /\ StatusCurrent' /\ Selected' /\ ExitSteps'
    BY <1>1, <1>4, <2>1, Zenon DEF EngineOrPending, WillProgram, ExitOrPending, WillRoute,
                            StatusCurrent, Selected, ExitSteps
  <2> QED
    BY <2>2, <2>3, Zenon
<1> QED
  BY <1>3, <1>4, Zenon DEF Watch

(* SetExitNode under the lock.                                             *)
LEMMA SetExitNodeStep ==
    ASSUME IInv, NEW name \in Peers \cup {None, Ghost}, SetExitNode(name)
    PROVE  IInv'
<1> USE DEF IInv
<1> DEFINE ex == selectExitPeer(view, name)
           refused == name # None /\ ex = None
           r == [pc |-> "set", cfg |-> buildPeerConfigs(view, path, Up, ex), on |-> ex # None]
<1>1. /\ exitNode' = name /\ exitPeer' = ex /\ begins(X)
      /\ act' = [act EXCEPT ![X] = IF refused THEN Idle ELSE r]
      /\ status' = [exit |-> ex # None, paths |-> refreshPeerStatus(view, path, Up)]
      /\ stale' = (stale \ {"status"}) \cup IF refused THEN {"engine", "exit"} ELSE {}
      /\ UNCHANGED <<view, path, relay, watch, engine, exitOn>>
  BY Zenon DEF SetExitNode
<1>2. ex \in Peers \cup {None} /\ Up \in BOOLEAN /\ Up' = Up
  BY <1>1, SelectType, Zenon DEF Up
<1>3. r.cfg = Ladder' /\ r.cfg \in Configs
  BY <1>1, <1>2, ConfigsType, Zenon DEF Ladder, TypeOK
<1>4. r \in Record /\ r.pc = "set" /\ r.on = (ex # None)
  BY <1>3, Zenon DEF Record, Steps
<1>5. /\ status' \in [paths : ShownPaths, exit : BOOLEAN]
      /\ status'.paths = refreshPeerStatus(view', path', Up') /\ status'.exit = (exitPeer' # None)
  <2> DEFINE pp == refreshPeerStatus(view, path, Up)
  <2>1. pp \in ShownPaths
    BY <1>2, ShownType, Zenon DEF TypeOK
  <2>2. pp = refreshPeerStatus(view', path', Up')
    BY <1>1, <1>2, Zenon
  <2>3. status' = [exit |-> exitPeer' # None, paths |-> pp]
    BY <1>1, Zenon
  <2> HIDE DEF pp
  <2> QED
    BY <2>1, <2>2, <2>3, Zenon
<1> HIDE DEF r, ex
<1>6. /\ act' \in [Actors -> Record] /\ Others(X)
      /\ act'[X] = IF refused THEN Idle ELSE r
  BY <1>1, <1>4, ActorNames, RecordType, Replaced, Zenon
<1>7. Alone' /\ (~ overlap' => \A b \in Actors \ {X} : act'[b].pc = "idle")
  BY <1>1, <1>6, ActorNames, RecordType, Begun, Zenon
<1>8. ComputedPeers' /\ ComputedExit'
  <2>1. act'[X].pc = "idle" \/ act'[X] = r
    BY <1>6, RecordType, Zenon
  <2> QED
    BY <1>1, <1>3, <1>4, <1>5, <1>7, <2>1, ActorNames, CallStep, ZenonT(60)
<1>9. TypeOK'
  <2>1. stale' \subseteq {"engine", "exit", "status"} /\ overlap' \in BOOLEAN
    BY <1>1, Zenon DEF TypeOK, begins
  <2> QED
    BY <1>1, <1>2, <1>5, <1>6, <2>1, Zenon DEF TypeOK, Record, Steps, ShownPaths
<1>10. EngineOrPending' /\ ExitOrPending'
  <2>1. CASE refused
    BY <1>1, <2>1, Zenon DEF EngineOrPending, ExitOrPending
  <2>2. CASE ~ refused
    BY <1>4, <1>6, <2>2, ActorNames, Zenon DEF EngineOrPending, WillProgram, ExitOrPending, WillRoute
  <2> QED
    BY <2>1, <2>2, Zenon
<1>11. StatusCurrent' /\ Selected' /\ ExitSteps'
  <2>1. StatusCurrent'
    BY <1>5, Zenon DEF StatusCurrent
  <2>2. Selected'
    BY <1>1, Zenon DEF Selected, ex
  <2>3. ExitSteps'
    BY <1>4, <1>6, RecordType, Zenon DEF ExitSteps
  <2> QED
    BY <2>1, <2>2, <2>3, Zenon
<1> QED
  BY <1>7, <1>8, <1>9, <1>10, <1>11, Zenon

-----------------------------------------------------------------------------
(* Theorems.                                                               *)

(* A daemon just brought up satisfies the invariant.                       *)
LEMMA InitIInv == Init => IInv
<1> SUFFICES ASSUME Init PROVE IInv
  BY Zenon
<1> USE DEF Init
<1>1. \A p \in Peers : view[p] = Absent
  BY Zenon
<1>2. [p \in Peers |-> Off] \in Configs
  BY Zenon DEF Off, Configs
<1>3. Idle \in Record /\ Idle.pc = "idle"
  BY <1>2, Zenon DEF Idle, Record, Steps
<1>4. TypeOK
  <2>1. act \in [Actors -> Record] /\ path \in [Peers -> Paths]
    BY <1>3, Zenon DEF Paths
  <2>2. status \in [paths : [Peers -> {"direct", "relay", "connecting", "none", None}], exit : BOOLEAN]
    BY Zenon
  <2> QED
    BY <1>1, <1>2, <2>1, <2>2, Zenon DEF TypeOK, Record, Steps
<1>5. \A a \in Actors : act[a].pc = "idle"
  BY <1>3, Zenon
<1>6. ExitSteps /\ Alone /\ ComputedPeers /\ ComputedExit
  BY <1>5, ActorNames, Zenon DEF ExitSteps, Alone, Busy, ComputedPeers, ComputedExit
<1>7. EngineOrPending
  BY <1>1, Zenon DEF EngineOrPending, Ladder, buildPeerConfigs
<1>8. Selected /\ ExitOrPending
  BY <1>1, Zenon DEF Selected, selectExitPeer, ExitOrPending
<1>9. StatusCurrent
  BY <1>1, Zenon DEF StatusCurrent, refreshPeerStatus
<1> QED
  BY <1>4, <1>6, <1>7, <1>8, <1>9, Zenon DEF IInv

(* Every step keeps it: one case for each action.                          *)
LEMMA NextIInv == IInv /\ [Next]_vars => IInv'
<1> SUFFICES ASSUME IInv, [Next]_vars PROVE IInv'
  BY Zenon
<1>1. ASSUME NEW wanted \in {"no", "same", "other"}, NetMapRelay(wanted) PROVE IInv'
  BY <1>1, NetMapRelayStep, Zenon
<1>2. ASSUME NEW p \in Peers, NEW st \in Paths, onPathUpdate(p, st) PROVE IInv'
  BY <1>2, OnPathUpdateStep, Zenon
<1>3. ASSUME NEW name \in Peers \cup {None, Ghost}, SetExitNode(name) PROVE IInv'
  BY <1>3, SetExitNodeStep, Zenon
<1>4. CASE Link
  BY <1>4, LinkStep, Zenon
<1>5. CASE Watch
  BY <1>5, WatchStep, Zenon
<1>6. CASE NetMapMerge
  BY <1>6, NetMapMergeStep, Zenon
<1>7. CASE NetMapPeers
  BY <1>7, SetPeersStep, ActorNames, Zenon DEF NetMapPeers
<1>8. CASE NetMapRoutes
  BY <1>8, NetMapRoutesStep, Zenon
<1>9. CASE NetMapExit
  BY <1>9, SetExitStep, Zenon DEF NetMapExit
<1>10. ASSUME NEW a \in Actors, syncPeers(a) \/ syncSet(a) PROVE IInv'
  BY <1>10, SyncPeersStep, SyncSetStep, Zenon
<1>11. CASE SetExitNodePeers
  BY <1>11, SetPeersStep, ActorNames, Zenon DEF SetExitNodePeers
<1>12. CASE SetExitNodeRouting
  BY <1>12, SetExitStep, Zenon DEF SetExitNodeRouting
<1>13. CASE UNCHANGED vars
  <2>1. Ladder' = Ladder /\ Up' = Up
    BY <1>13, Zenon DEF vars, Ladder, Up
  <2>2. TypeOK' /\ Alone'
    BY <1>13, ZenonT(30) DEF vars, IInv, TypeOK, Alone, Busy
  <2>4. ComputedPeers' /\ ComputedExit'
    BY <1>13, <2>1, Zenon DEF vars, IInv, ComputedPeers, ComputedExit
  <2>3. EngineOrPending' /\ ExitOrPending' /\ StatusCurrent' /\ Selected' /\ ExitSteps'
    BY <1>13, <2>1, Zenon DEF vars, IInv, EngineOrPending, WillProgram, ExitOrPending, WillRoute,
                       StatusCurrent, Selected, ExitSteps
  <2> QED
    BY <2>2, <2>3, <2>4, Zenon DEF IInv
<1> QED
  BY <1>1, <1>2, <1>3, <1>4, <1>5, <1>6, <1>7, <1>8, <1>9, <1>10, <1>11, <1>12, <1>13, Zenon
  DEF Next, Finish

(* The invariant holds in every reachable state.                           *)
LEMMA IInvHolds == Spec => []IInv
BY InitIInv, NextIInv, PTL DEF Spec

(* Whatever the calls in progress and the order in which they reach the    *)
(* engine, WireGuard is left with the path ladder of the daemon's state    *)
(* unless a failed call, an overlap or the relay link is the known reason. *)
THEOREM EngineFollows == Spec => []EngineCurrent
<1>1. IInv => EngineCurrent
  BY Zenon DEF IInv, EngineCurrent, EngineOrPending, WillProgram, Busy, Ladder
<1> QED
  BY <1>1, IInvHolds, PTL

(* Likewise the OS routing, and what the status says of the exit node.     *)
THEOREM ExitFollows == Spec => []ExitCurrent
<1>1. IInv => ExitCurrent
  BY ActorNames, Zenon DEF IInv, ExitCurrent, ExitOrPending, WillRoute, Busy
<1> QED
  BY <1>1, IInvHolds, PTL

(* The exit peer is always one the latest netmap offers as an exit under   *)
(* the name the user asked for.                                            *)
THEOREM ExitPeerIsOffered == Spec => []ExitPeerOffered
<1>1. IInv => ExitPeerOffered
  BY PeerSyncAssumption, Zenon DEF IInv, Selected, selectExitPeer, ExitPeerOffered, Known
<1> QED
  BY <1>1, IInvHolds, PTL

(* The paths the status shows are those of the daemon's state, whatever    *)
(* calls overlap, but for the link and path updates on their way.          *)
THEOREM StatusFollows == Spec => []StatusCurrent
<1>1. IInv => StatusCurrent
  BY Zenon DEF IInv
<1> QED
  BY <1>1, IInvHolds, PTL
=============================================================================
