------------------------------ MODULE Session ------------------------------
(***************************************************************************)
(* The daemon's life: Up, Down, RotateNodeKey, the session goroutine, the  *)
(* relay client it keeps, and the state file (internal/daemon/daemon.go,   *)
(* state.go, cmd/overmeshd).                                               *)
(*                                                                         *)
(* The control socket serves requests, the session goroutine applies       *)
(* netmaps, and both call ensureRelay, which reads Daemon.relayCli, builds *)
(* a client and stores it in three steps.  Daemon.mu is held within a step *)
(* and released between two steps of one handler; Up holds it throughout.  *)
(* A crash loses everything but the state file and the row at the          *)
(* coordinator.  The engine is the userspace one, the only one with a      *)
(* connection manager and a relay.                                         *)
(*                                                                         *)
(* Sessions, relay clients and node keys are drawn from pools: one that    *)
(* nothing refers to any more may be drawn again as a new one, so runs of  *)
(* any length fit in a finite instance.                                    *)
(***************************************************************************)
EXTENDS Integers

CONSTANTS
    Requests,     \* control requests in progress at any one time
    URLs, NoURL,  \* home relays a netmap may name; a netmap without relays
    MaxSessions,  \* pool of sessions
    MaxKeys,      \* pool of node keys
    MaxClients,   \* pool of relay clients
    RelayRaces,   \* whether ensureRelay may run while a rotation swaps the relay client
    MaxFaults,    \* bound on the faults of a behaviour
    Faults        \* the kinds of faults considered

FaultKinds == {"reject", "reply", "save", "downsave", "rotsave", "engine", "netmap",
               "dns", "drop", "crash"}

ASSUME SessionAssumption ==
    /\ NoURL \notin URLs
    /\ RelayRaces \in BOOLEAN
    /\ {MaxSessions, MaxKeys, MaxClients, MaxFaults} \subseteq Nat
    /\ MaxKeys > 0
    /\ Faults \subseteq FaultKinds
    /\ Requests \cap (1 .. MaxSessions) = {}

Sessions == 1 .. MaxSessions
Keys == 1 .. MaxKeys
Clients == 1 .. MaxClients
Actors == Sessions \cup Requests

VARIABLES
    disk,      \* the state file: node key and DesiredUp
    mem,       \* Daemon.state, the same in memory
    server,    \* the node key in the coordinator's row, 0 before enrolment
    boot,      \* the process has started and MaybeAutoUp has not returned
    cancel,    \* Daemon.cancel: the session it stops, 0 if nil
    stopped,   \* Daemon.stopped, the channel named by the session it was made for
    chan,      \* the stopped channels that are closed
    sess,      \* session goroutines and their engines
    engine,    \* Daemon.engine, 0 if nil
    bind,      \* Daemon.bind
    svc,       \* Daemon.dnsSrv, dnsOSDone and dropSrv: the ones set
    open,      \* the overlay resolver, OS resolver entry and file receiver in place
    relayCli,  \* Daemon.relayCli, 0 if nil
    relays,    \* Daemon.lastRelays
    cli,       \* relay clients: open or not, key, URL
    sender,    \* the client behind each session's Bind.SetRelaySender, 0 if nil
    er,        \* ensureRelay calls in progress
    req,       \* control requests
    faults,
    lost,      \* history: a rotation's reply was lost since the last Up
    wasUp      \* history: while booting, whether a session was up when the daemon stopped

daemonVars == <<cancel, stopped, chan, sess, engine, bind>>
relayVars == <<relayCli, relays, cli, sender, er>>
svcVars == <<svc, open>>
vars == <<disk, mem, server, boot, daemonVars, svcVars, relayVars, req, faults, lost, wasUp>>

Fault(kind) == kind \in Faults /\ faults < MaxFaults /\ faults' = faults + 1
NoFault == faults' = faults

NoSession == [pc |-> "none", cancelled |-> FALSE, closes |-> 0, key |-> 0, rc |-> 0, held |-> {}]
NoClient == [open |-> FALSE, key |-> 0, url |-> NoURL]
NoER == [pc |-> "idle", cur |-> 0, bind |-> 0, url |-> NoURL, new |-> 0]
IdleReq == [pc |-> "idle", s |-> 0, old |-> 0, new |-> 0, rc |-> 0, url |-> NoURL, exit |-> FALSE]

\* The fields of a Daemon that New has just built from the state file.
Fresh(up) ==
    /\ boot' = TRUE /\ wasUp' = up
    /\ cancel' = 0 /\ stopped' = 0 /\ chan' = {}
    /\ sess' = [s \in Sessions |-> NoSession]
    /\ engine' = 0 /\ bind' = 0
    /\ svc' = {} /\ open' = {}
    /\ relayCli' = 0 /\ relays' = NoURL
    /\ cli' = [c \in Clients |-> NoClient]
    /\ sender' = [s \in Sessions |-> 0]
    /\ er' = [a \in Actors |-> NoER]
    /\ req' = [r \in Requests |-> IdleReq]
    /\ lost' = FALSE

\* New on an empty state directory: LoadOrCreateState made the keys.
Init ==
    /\ disk = [key |-> 1, desired |-> FALSE] /\ mem = disk
    /\ server = 0
    /\ boot = TRUE /\ wasUp = FALSE
    /\ cancel = 0 /\ stopped = 0 /\ chan = {}
    /\ sess = [s \in Sessions |-> NoSession]
    /\ engine = 0 /\ bind = 0
    /\ svc = {} /\ open = {}
    /\ relayCli = 0 /\ relays = NoURL
    /\ cli = [c \in Clients |-> NoClient]
    /\ sender = [s \in Sessions |-> 0]
    /\ er = [a \in Actors |-> NoER]
    /\ req = [r \in Requests |-> IdleReq]
    /\ faults = 0
    /\ lost = FALSE

\* What nothing refers to, and may stand for a new one.  Which one is drawn is
\* all the same.
Any(S) == CHOOSE x \in S : TRUE
FreeSessions ==
    {s \in Sessions : /\ sess[s].pc \in {"none", "ended"}
                      /\ s \notin {cancel, stopped, engine, bind}
                      /\ \A r \in Requests : req[r].s # s
                      /\ \A a \in Actors : er[a].bind # s}
FreeKeys ==
    Keys \ ({disk.key, mem.key, server} \cup {sess[s].key : s \in Sessions}
            \cup {cli[c].key : c \in Clients}
            \cup {req[r].old : r \in Requests} \cup {req[r].new : r \in Requests})
FreeClients ==
    {c \in Clients : /\ ~ cli[c].open
                     /\ c # relayCli
                     /\ \A s \in Sessions : c # sender[s] /\ c # sess[s].rc
                     /\ \A a \in Actors : c # er[a].cur /\ c # er[a].new
                     /\ \A r \in Requests : c # req[r].rc}

\* relay.Client.Close; the key of a closed client is not read again, its URL is.
closeClient(c) == IF c = 0 THEN cli ELSE [cli EXCEPT ![c] = [NoClient EXCEPT !.url = cli[c].url]]

\* State.Save: the file is replaced as a whole, by renaming a complete new one.
Save(st) == disk' = st

-----------------------------------------------------------------------------
(* Up, under Daemon.mu from beginning to end, and MaybeAutoUp.             *)

\* The session goroutine is started; its context and channel are new.
spawn(s) ==
    /\ cancel' = s /\ stopped' = s /\ chan' = chan \ {s}
    /\ sess' = [sess EXCEPT ![s] = [NoSession EXCEPT !.pc = "spawned"]]

\* A slip: a state file that cannot be written does not stop Up.
SaveFailed_GoesOn == \E s \in FreeSessions : spawn(s) /\ UNCHANGED <<engine, bind>>

\* State.Save failed: Up closes its connection and returns the error.
SaveFailed == UNCHANGED daemonVars

doUp ==
    /\ cancel = 0
    /\ FreeSessions # {}
    /\ server' = mem.key
    /\ \/ /\ Fault("reply")                  \* RegisterNode took effect, its answer got lost
          /\ UNCHANGED <<disk, mem, daemonVars, lost>>
       \/ /\ mem' = [mem EXCEPT !.desired = TRUE]
          /\ lost' = FALSE
          /\ \/ /\ NoFault /\ Save(mem')
                /\ spawn(Any(FreeSessions)) /\ UNCHANGED <<engine, bind>>
             \/ /\ Fault("save") /\ disk' = disk
                /\ SaveFailed

\* A control request can be taken: the socket is served and r is not busy.
Ready(r) == ~ boot /\ req[r].pc = "idle" /\ er[r].pc = "idle"

\* A registration that does not reach the coordinator changes nothing.
Up(r) ==
    /\ Ready(r)
    /\ doUp
    /\ UNCHANGED <<boot, wasUp, svcVars, relayVars, req>>

MaybeAutoUp ==
    /\ boot /\ boot' = FALSE /\ wasUp' = FALSE
    /\ \/ mem.desired /\ doUp
       \/ /\ ~ mem.desired \/ "reject" \in Faults
          /\ IF mem.desired THEN Fault("reject") ELSE NoFault
          /\ UNCHANGED <<disk, mem, server, daemonVars, lost>>
    /\ UNCHANGED <<svcVars, relayVars, req>>

-----------------------------------------------------------------------------
(* Down, and the daemon's exits.                                           *)

\* The session is cancelled; "exit" is the shutdown of a signal or service manager.
DownBegin(r, exit) ==
    /\ Ready(r) /\ cancel # 0
    /\ req' = [req EXCEPT ![r] = [IdleReq EXCEPT !.pc = "down", !.s = stopped, !.exit = exit]]
    /\ sess' = [sess EXCEPT ![cancel].cancelled = TRUE]
    /\ cancel' = 0
    /\ NoFault
    /\ UNCHANGED <<disk, mem, server, boot, wasUp, stopped, chan, engine, bind, svcVars, relayVars, lost>>

\* A slip: Down does not wait for the session.
DownEnd_NoWait(r) ==
    /\ req[r].pc = "down" /\ ~ req[r].exit
    /\ mem' = [mem EXCEPT !.desired = FALSE]
    /\ disk' = mem' /\ NoFault
    /\ engine' = 0
    /\ req' = [req EXCEPT ![r] = IdleReq]
    /\ UNCHANGED <<server, boot, wasUp, cancel, stopped, chan, sess, bind, svcVars, relayVars, lost>>

\* The session has closed the channel; an error of Save is ignored.
DownEnd(r) ==
    /\ req[r].pc = "down" /\ req[r].s \in chan
    /\ \/ NoFault /\ Save([mem EXCEPT !.desired = FALSE])
       \/ Fault("downsave") /\ disk' = disk
    /\ IF req[r].exit
       THEN mem' = disk' /\ Fresh(TRUE)
       ELSE /\ mem' = [mem EXCEPT !.desired = FALSE]
            /\ engine' = 0
            /\ req' = [req EXCEPT ![r] = IdleReq]
            /\ UNCHANGED <<boot, wasUp, cancel, stopped, chan, sess, bind, svcVars, relayVars, lost>>
    /\ server' = server

\* The process dies; the next one starts from the state file.
Crash ==
    /\ Fault("crash")
    /\ mem' = disk
    /\ Fresh(cancel # 0 \/ (boot /\ wasUp))
    /\ UNCHANGED <<disk, server>>

-----------------------------------------------------------------------------
(* ensureRelay, for the session's netmaps and for RotateNodeKey.           *)

\* The first critical section: what the client is now and which relay is wanted.
ensureRelay(a, url) ==
    /\ relays' = url
    /\ er' = [er EXCEPT ![a] = [pc |-> "decided", cur |-> relayCli, bind |-> bind, url |-> url, new |-> 0]]

Unwanted(a) == er[a].url = NoURL
Kept(a) == er[a].cur # 0 /\ ~ Unwanted(a) /\ cli[er[a].cur].url = er[a].url

\* Nothing to do: no relay wanted and none there, or the one wanted is there.
RelayKept(a) ==
    /\ er[a].pc = "decided"
    /\ Kept(a) \/ (Unwanted(a) /\ er[a].cur = 0)
    /\ er' = [er EXCEPT ![a] = NoER]
    /\ NoFault
    /\ UNCHANGED <<disk, mem, server, boot, wasUp, daemonVars, svcVars, relayCli, relays, cli, sender, req, lost>>

\* A slip: the client of the former home relay is not closed.
NewRelay_KeepsOld(a) ==
    /\ er[a].pc = "decided" /\ ~ Unwanted(a) /\ ~ Kept(a)
    /\ FreeClients # {}
    /\ LET c == Any(FreeClients) IN
           /\ cli' = [cli EXCEPT ![c] = [open |-> TRUE, key |-> mem.key, url |-> er[a].url]]
           /\ sender' = [sender EXCEPT ![er[a].bind] = c]
           /\ er' = [er EXCEPT ![a] = [@ EXCEPT !.pc = "made", !.new = c]]
    /\ NoFault
    /\ UNCHANGED <<disk, mem, server, boot, wasUp, daemonVars, svcVars, relayCli, relays, req, lost>>

\* A client of another relay is closed; the new one authenticates with the node key of now.
NewRelay(a) ==
    /\ er[a].pc = "decided" /\ ~ Unwanted(a) /\ ~ Kept(a)
    /\ FreeClients # {}
    /\ LET c == Any(FreeClients) IN
           /\ cli' = [closeClient(er[a].cur) EXCEPT
                          ![c] = [open |-> TRUE, key |-> mem.key, url |-> er[a].url]]
           /\ sender' = [sender EXCEPT ![er[a].bind] = c]
           /\ er' = [er EXCEPT ![a] = [@ EXCEPT !.pc = "made", !.new = c]]
    /\ NoFault
    /\ UNCHANGED <<disk, mem, server, boot, wasUp, daemonVars, svcVars, relayCli, relays, req, lost>>

\* The netmap names no relay any more.
DropRelay(a) ==
    /\ er[a].pc = "decided" /\ Unwanted(a) /\ er[a].cur # 0
    /\ sender' = [sender EXCEPT ![er[a].bind] = 0]
    /\ cli' = closeClient(er[a].cur)
    /\ er' = [er EXCEPT ![a].pc = "made"]
    /\ NoFault
    /\ UNCHANGED <<disk, mem, server, boot, wasUp, daemonVars, svcVars, relayCli, relays, req, lost>>

\* The last critical section: relayCli is the new client, or nil.
SetRelay(a) ==
    /\ er[a].pc = "made"
    /\ relayCli' = er[a].new
    /\ er' = [er EXCEPT ![a] = NoER]
    /\ NoFault
    /\ UNCHANGED <<disk, mem, server, boot, wasUp, daemonVars, svcVars, relays, cli, sender, req, lost>>

-----------------------------------------------------------------------------
(* RotateNodeKey.                                                          *)

\* The new key goes on the device first.  A swap the engine refuses changes nothing.
RotateBegin(r) ==
    /\ Ready(r) /\ cancel # 0 /\ engine # 0
    /\ FreeKeys # {}
    /\ sess[engine].key # 0
    /\ LET k == Any(FreeKeys) IN
           /\ req' = [req EXCEPT ![r] = [IdleReq EXCEPT !.pc = "register", !.s = engine,
                                                        !.old = mem.key, !.new = k]]
           /\ sess' = [sess EXCEPT ![engine].key = k]
    /\ NoFault
    /\ UNCHANGED <<disk, mem, server, boot, wasUp, cancel, stopped, chan, engine, bind, svcVars, relayVars, lost>>

\* A slip: the device keeps the key the control plane refused.
RotateFails_KeepsKey(r) ==
    /\ req[r].pc = "register"
    /\ \/ Fault("reject") /\ UNCHANGED <<server, lost>>
       \/ Fault("reply") /\ server' = req[r].new /\ lost' = TRUE
    /\ req' = [req EXCEPT ![r] = IdleReq]
    /\ UNCHANGED <<disk, mem, boot, wasUp, daemonVars, svcVars, relayVars>>

\* The device gets its old key back, unless its engine is gone.
RolledBack(g, old) == [g EXCEPT !.key = IF @ = 0 THEN 0 ELSE old]

\* The call failed, at the coordinator or on its way back: the device is rolled back.
RotateFails(r) ==
    /\ req[r].pc = "register"
    /\ \/ Fault("reject") /\ UNCHANGED <<server, lost>>
       \/ Fault("reply") /\ server' = req[r].new /\ lost' = TRUE
    /\ sess' = [sess EXCEPT ![req[r].s] = RolledBack(@, req[r].old)]
    /\ req' = [req EXCEPT ![r] = IdleReq]
    /\ UNCHANGED <<disk, mem, boot, wasUp, cancel, stopped, chan, engine, bind, svcVars, relayVars>>

RotateRegistered(r) ==
    /\ req[r].pc = "register"
    /\ server' = req[r].new
    /\ req' = [req EXCEPT ![r].pc = "commit"]
    /\ lost' = FALSE
    /\ NoFault
    /\ UNCHANGED <<disk, mem, boot, wasUp, daemonVars, svcVars, relayVars>>

\* ensureRelay calls in progress for a session.
NetMapInRelay == \E s \in Sessions : er[s].pc # "idle"

\* SetNodeKey and Save; the relay client is taken out of the Daemon.  When Save
\* fails the handler returns and nobody closes that client.
RotateCommit(r) ==
    /\ req[r].pc = "commit"
    /\ RelayRaces \/ ~ NetMapInRelay
    /\ mem' = [mem EXCEPT !.key = req[r].new]
    /\ relayCli' = 0
    /\ \/ /\ NoFault /\ Save(mem')
          /\ req' = [req EXCEPT ![r] = IF relayCli = 0 THEN IdleReq
                                       ELSE [IdleReq EXCEPT !.pc = "relay", !.rc = relayCli, !.url = relays]]
       \/ /\ Fault("rotsave") /\ disk' = disk
          /\ req' = [req EXCEPT ![r] = IdleReq]
    /\ UNCHANGED <<server, boot, wasUp, daemonVars, svcVars, relays, cli, sender, er, lost>>

\* A slip: the relay client of the old key is left as it is.
RotateRelay_KeepsClient(r) ==
    /\ req[r].pc = "relay"
    /\ relayCli' = req[r].rc
    /\ req' = [req EXCEPT ![r] = IdleReq]
    /\ NoFault
    /\ UNCHANGED <<disk, mem, server, boot, wasUp, daemonVars, svcVars, relays, cli, sender, er, lost>>

\* The client of the old key is closed and ensureRelay called for the relays of before.
RotateRelay(r) ==
    /\ req[r].pc = "relay"
    /\ cli' = closeClient(req[r].rc)
    /\ ensureRelay(r, req[r].url)
    /\ req' = [req EXCEPT ![r] = IdleReq]
    /\ NoFault
    /\ UNCHANGED <<disk, mem, server, boot, wasUp, daemonVars, svcVars, relayCli, sender, lost>>

\* A rotation is between taking the relay client and having installed its successor.
RotationInRelay == \E r \in Requests : req[r].pc = "relay" \/ er[r].pc # "idle"

-----------------------------------------------------------------------------
(* The session goroutine.                                                  *)

\* The first defer evaluates d.stopped, the channel it will close.
SessionBegin(s) ==
    /\ sess[s].pc = "spawned"
    /\ sess' = [sess EXCEPT ![s] = [@ EXCEPT !.pc = "begun", !.closes = stopped]]
    /\ NoFault
    /\ UNCHANGED <<disk, mem, server, boot, wasUp, cancel, stopped, chan, engine, bind, svcVars, relayVars, req, lost>>

\* The session is over: its engine is gone and the channel closed.
ended(s) ==
    /\ sess' = [sess EXCEPT ![s] = [NoSession EXCEPT !.pc = "ended"]]
    /\ sender' = [sender EXCEPT ![s] = 0]
    /\ chan' = chan \cup {sess[s].closes}

\* wgengine.New with the node key of now, or its failure.
SessionEngine(s) ==
    /\ sess[s].pc = "begun"
    /\ \/ /\ NoFault
          /\ sess' = [sess EXCEPT ![s] = [@ EXCEPT !.pc = "loop", !.key = mem.key]]
          /\ engine' = s /\ bind' = s
          /\ UNCHANGED <<chan, sender>>
       \/ /\ Fault("engine")
          /\ ended(s)
          /\ UNCHANGED <<engine, bind>>
    /\ UNCHANGED <<disk, mem, server, boot, wasUp, cancel, stopped, svcVars, relayCli, relays, cli, er, req, lost>>

\* A slip: the stream is not bound to the session's context.
NetMap_Unbound(s) ==
    /\ sess[s].pc = "loop"
    /\ RelayRaces \/ ~ RotationInRelay
    /\ \E url \in URLs \cup {NoURL} : ensureRelay(s, url)
    /\ sess' = [sess EXCEPT ![s].pc = "netmap"]
    /\ NoFault
    /\ UNCHANGED <<disk, mem, server, boot, wasUp, cancel, stopped, chan, engine, bind, svcVars, relayCli, cli, sender, req, lost>>

\* A netmap arrives: applyNetMap calls ensureRelay first.
NetMap(s) ==
    /\ sess[s].pc = "loop" /\ ~ sess[s].cancelled
    /\ RelayRaces \/ ~ RotationInRelay
    /\ \E url \in URLs \cup {NoURL} : ensureRelay(s, url)
    /\ sess' = [sess EXCEPT ![s].pc = "netmap"]
    /\ NoFault
    /\ UNCHANGED <<disk, mem, server, boot, wasUp, cancel, stopped, chan, engine, bind, svcVars, relayCli, cli, sender, req, lost>>

\* applyDNS: nothing to do without a domain or with a server; else the server is
\* stored before it is started and kept if that, or the OS entry after it, fails.
applyDNS ==
    \/ NoFault /\ UNCHANGED <<svc, open>>
    \/ /\ "dns" \notin svc /\ NoFault
       /\ svc' = svc \cup {"dns", "os"} /\ open' = open \cup {"dns", "os"}
    \/ /\ "dns" \notin svc /\ Fault("dns")
       /\ svc' = svc \cup {"dns"} /\ open' \in {open, open \cup {"dns"}}

\* applyOverdrop: a receiver that does not start is forgotten.
applyOverdrop ==
    \/ /\ "drop" \in svc /\ NoFault /\ UNCHANGED <<svc, open>>
    \/ /\ "drop" \notin svc /\ NoFault
       /\ svc' = svc \cup {"drop"} /\ open' = open \cup {"drop"}
    \/ /\ "drop" \notin svc /\ Fault("drop") /\ UNCHANGED <<svc, open>>

\* The rest of applyNetMap; an engine that refuses the peers ends it early.
NetMapServices(s) ==
    /\ sess[s].pc = "netmap" /\ er[s].pc = "idle"
    /\ \/ applyDNS /\ sess' = [sess EXCEPT ![s].pc = "drop"]
       \/ Fault("netmap") /\ UNCHANGED svcVars /\ sess' = [sess EXCEPT ![s].pc = "loop"]
    /\ UNCHANGED <<disk, mem, server, boot, wasUp, cancel, stopped, chan, engine, bind, relayVars, req, lost>>

NetMapApplied(s) ==
    /\ sess[s].pc = "drop"
    /\ applyOverdrop
    /\ sess' = [sess EXCEPT ![s].pc = "loop"]
    /\ UNCHANGED <<disk, mem, server, boot, wasUp, cancel, stopped, chan, engine, bind, relayVars, req, lost>>

\* The context is done: the deferred function takes everything out of the Daemon.
SessionClose(s) ==
    /\ sess[s].pc = "loop" /\ sess[s].cancelled
    /\ sess' = [sess EXCEPT ![s] = [@ EXCEPT !.pc = "closing", !.rc = relayCli, !.held = svc]]
    /\ relayCli' = 0 /\ svc' = {}
    /\ NoFault
    /\ UNCHANGED <<disk, mem, server, boot, wasUp, cancel, stopped, chan, engine, bind, open, relays, cli, sender, er, req, lost>>

\* ... and closes it, then the engine, and tells Down.
SessionEnd(s) ==
    /\ sess[s].pc = "closing"
    /\ cli' = closeClient(sess[s].rc)
    /\ open' = open \ sess[s].held
    /\ ended(s)
    /\ NoFault
    /\ UNCHANGED <<disk, mem, server, boot, wasUp, cancel, stopped, engine, bind, svc, relayCli, relays, er, req, lost>>

-----------------------------------------------------------------------------
EnsureRelayStep(a) == RelayKept(a) \/ NewRelay(a) \/ DropRelay(a) \/ SetRelay(a)

SessionStep(s) ==
    \/ SessionBegin(s) \/ SessionEngine(s)
    \/ NetMapServices(s) \/ NetMapApplied(s)
    \/ SessionClose(s) \/ SessionEnd(s)

RotateStep(r) == RotateRegistered(r) \/ RotateFails(r) \/ RotateCommit(r) \/ RotateRelay(r)

Next ==
    \/ MaybeAutoUp \/ Crash
    \/ \E r \in Requests :
          \/ Up(r) \/ \E exit \in BOOLEAN : DownBegin(r, exit)
          \/ DownEnd(r)
          \/ RotateBegin(r) \/ RotateStep(r)
    \/ \E a \in Actors : EnsureRelayStep(a)
    \/ \E s \in Sessions : NetMap(s) \/ SessionStep(s)

\* Goroutines that can go on do; requests, netmaps and crashes need not come.
Fairness ==
    /\ WF_vars(MaybeAutoUp)
    /\ \A s \in Sessions : WF_vars(SessionStep(s)) /\ WF_vars(EnsureRelayStep(s))
    /\ \A r \in Requests : /\ WF_vars(DownEnd(r)) /\ WF_vars(RotateStep(r))
                           /\ WF_vars(EnsureRelayStep(r))

Spec == Init /\ [][Next]_vars /\ Fairness

-----------------------------------------------------------------------------
(* Properties.                                                             *)

Services == {"dns", "os", "drop"}
States == [key : Keys, desired : BOOLEAN]
Goroutines ==
    [pc : {"none", "spawned", "begun", "loop", "netmap", "drop", "closing", "ended"},
     cancelled : BOOLEAN, closes : Sessions \cup {0}, key : Keys \cup {0},
     rc : Clients \cup {0}, held : SUBSET Services]
RelayClients == [open : BOOLEAN, key : Keys \cup {0}, url : URLs \cup {NoURL}]
RelayCalls ==
    [pc : {"idle", "decided", "made"}, cur : Clients \cup {0}, bind : Sessions \cup {0},
     url : URLs \cup {NoURL}, new : Clients \cup {0}]
ControlRequests ==
    [pc : {"idle", "down", "register", "commit", "relay"}, s : Sessions \cup {0},
     old : Keys \cup {0}, new : Keys \cup {0}, rc : Clients \cup {0},
     url : URLs \cup {NoURL}, exit : BOOLEAN]

\* Every variable keeps its type: sessions, keys and clients come from their pools,
\* and each goroutine is at one of the points where it can be overtaken.
TypeOK ==
    /\ disk \in States /\ mem \in States
    /\ server \in Keys \cup {0}
    /\ boot \in BOOLEAN /\ lost \in BOOLEAN /\ wasUp \in BOOLEAN
    /\ cancel \in Sessions \cup {0} /\ stopped \in Sessions \cup {0}
    /\ engine \in Sessions \cup {0} /\ bind \in Sessions \cup {0}
    /\ chan \subseteq Sessions
    /\ sess \in [Sessions -> Goroutines]
    /\ svc \subseteq Services /\ open \subseteq Services
    /\ relayCli \in Clients \cup {0}
    /\ relays \in URLs \cup {NoURL}
    /\ cli \in [Clients -> RelayClients]
    /\ sender \in [Sessions -> Clients \cup {0}]
    /\ er \in [Actors -> RelayCalls]
    /\ req \in [Requests -> ControlRequests]
    /\ faults \in 0 .. MaxFaults

\* No control request and no ensureRelay call is in progress.
Quiet == (\A r \in Requests : req[r].pc = "idle") /\ (\A a \in Actors : er[a].pc = "idle")

\* ensureRelay keeps one client: a relay client that is connected is the one in
\* Daemon.relayCli, or somebody is about to close or install it.
OneRelayClient ==
    \A c \in Clients : cli[c].open =>
        \/ c = relayCli
        \/ \E a \in Actors : c = er[a].new
        \/ \E s \in Sessions : c = sess[s].rc
        \/ \E r \in Requests : c = req[r].rc

\* Between calls the relay client is open, authenticates with the node key the
\* daemon has, is for the relay of the last netmap, and is what the session's
\* socket sends relayed packets through.
RelayCurrent ==
    (Quiet /\ cancel # 0 /\ sess[cancel].pc = "loop" /\ relayCli # 0) =>
        /\ cli[relayCli] = [open |-> TRUE, key |-> mem.key, url |-> relays]
        /\ sender[cancel] = relayCli

\* Between calls a session's device, the daemon's state, the state file and the
\* coordinator's row hold one node key, unless a rotation was rolled back whose
\* registration had reached the coordinator.
KeysAgree ==
    (Quiet /\ cancel # 0 /\ sess[cancel].pc = "loop") =>
        /\ sess[cancel].key = mem.key /\ mem.key = disk.key
        /\ lost \/ server = mem.key

\* A session that Up has reported is in the state file, so a crash does not lose it.
UpSurvives == cancel # 0 => disk.desired

\* After Down nothing of the session is left: no engine, no relay client, no
\* resolver, OS resolver entry or file receiver.
DownReleases ==
    (Quiet /\ cancel = 0) =>
        /\ \A s \in Sessions : sess[s].pc \in {"none", "ended"}
        /\ engine = 0
        /\ open = {} /\ svc = {}
        /\ \A c \in Clients : ~ cli[c].open

\* Down returns: the session it cancelled closes the channel it waits on,
\* whatever netmap or relay client it is busy with.
DownReturns == \A r \in Requests : (req[r].pc = "down") ~> (req[r].pc # "down")

\* What MaybeAutoUp is documented to do: a session that was up when the daemon
\* stopped is resumed by the next one.
ResumesWhatWasUp == wasUp => mem.desired
=============================================================================
