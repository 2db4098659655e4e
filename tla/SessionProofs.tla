--------------------------- MODULE SessionProofs ---------------------------
(***************************************************************************)
(* The daemon is right as long as control requests do not overlap: an up   *)
(* session is in the state file; when no save fails inside a rotation      *)
(* there is one node key; and when ensureRelay does not run during a       *)
(* rotation's relay swap either, there is one relay client, with that key, *)
(* and Down releases everything.  For any number of sessions, keys,        *)
(* clients, relays and faults.                                             *)
(***************************************************************************)
EXTENDS Session, TLAPS

\* One control request at a time.
Serial == \A r, q \in Requests : r = q

Running == {"loop", "netmap", "drop"}
Live(s) == sess[s].pc \notin {"none", "ended"}

\* A session that has a goroutine has a channel to close, a rotation a device and a key.
Named ==
    /\ \A s \in Sessions : Live(s) => stopped # 0 /\ (sess[s].pc # "spawned" => sess[s].closes # 0)
    /\ \A r \in Requests : req[r].pc \in {"register", "commit"} => req[r].s # 0 /\ req[r].new # 0

SessionTypes == TypeOK /\ Named

-----------------------------------------------------------------------------
(* Life: at most one session has a goroutine, the one Daemon.stopped is    *)
(* for, and Daemon.cancel tells whether it has been cancelled.             *)

\* The session's own side.
OneSession ==
    \A s \in Sessions : Live(s) =>
        /\ s = stopped /\ s \notin chan
        /\ sess[s].pc # "spawned" => sess[s].closes = s
        /\ sess[s].cancelled = (cancel = 0)

\* Down has taken cancel and waits for the last session's channel.
Stopping ==
    /\ cancel \in {0, stopped}
    /\ \A r \in Requests : req[r].pc = "down" => cancel = 0 /\ req[r].s = stopped /\ stopped # 0

\* Without a session and without a Down there is nothing.
AtRest ==
    (cancel = 0 /\ \A r \in Requests : req[r].pc # "down") =>
        engine = 0 /\ \A s \in Sessions : ~ Live(s)

Booting ==
    boot => /\ cancel = 0
            /\ \A r \in Requests : req[r].pc = "idle"
            /\ \A a \in Actors : er[a].pc = "idle"

\* The engine in the Daemon is that of the last session.
Engines ==
    /\ engine # 0 => engine = stopped /\ bind = stopped
    /\ \A s \in Sessions : sess[s].pc \in Running \cup {"closing"} => engine = s
    /\ engine # 0 /\ cancel # 0 => sess[stopped].pc \in Running

\* A rotation has a running session, and a netmap's ensureRelay call its goroutine.
Calls ==
    /\ \A r \in Requests : req[r].pc \in {"register", "commit", "relay"} \/ er[r].pc # "idle"
          => cancel # 0 /\ engine = cancel
    /\ \A s \in Sessions : er[s].pc # "idle" => sess[s].pc = "netmap"

\* An up session is in the state file.
Recorded == cancel # 0 => mem.desired /\ disk.desired

LifeInv == OneSession /\ Stopping /\ AtRest /\ Booting /\ Engines /\ Calls /\ Recorded

-----------------------------------------------------------------------------
(* Keys: a rotation holds the new key on the device and at the coordinator *)
(* before the daemon has it.                                               *)

Rotating(r) == req[r].pc \in {"register", "commit"}

KeysInv ==
    /\ mem.key = disk.key
    /\ \A r \in Requests : Rotating(r) =>
          /\ req[r].s = cancel /\ req[r].old = mem.key /\ req[r].new \in Keys
          /\ sess[cancel].key = req[r].new
          /\ req[r].pc = "commit" => server = req[r].new
    /\ (\A r \in Requests : ~ Rotating(r)) =>
          \A s \in Sessions : sess[s].pc \in Running => sess[s].key = mem.key
    /\ (cancel # 0 /\ \A r \in Requests : req[r].pc # "commit") => lost \/ server = mem.key

-----------------------------------------------------------------------------
(* The relay client.                                                       *)

\* Who holds a client outside Daemon.relayCli, and when.
Holders ==
    /\ \A a \in Actors : er[a].new # 0 => er[a].pc = "made"
    /\ \A r \in Requests : req[r].rc # 0 => req[r].pc = "relay"
    /\ \A s \in Sessions : sess[s].rc # 0 => sess[s].pc = "closing"
    /\ relayCli # 0 => stopped # 0 /\ sess[stopped].pc \in Running

\* A netmap and a rotation are not in ensureRelay together.
OneCall ==
    /\ RotationInRelay => ~ NetMapInRelay
    /\ \A r \in Requests : er[r].pc # "idle" => req[r].pc = "idle"

\* The client c is connected with the daemon's key, and the session sends through it.
InUse(c) == cli[c].open /\ cli[c].key = mem.key /\ sender[stopped] = c

InCall(a) ==
    /\ er[a].cur = relayCli /\ er[a].bind = stopped /\ er[a].url = relays
    /\ er[a].pc = "decided" /\ er[a].cur # 0 => InUse(er[a].cur)
    /\ er[a].pc = "made" /\ er[a].cur # 0 => ~ cli[er[a].cur].open
    /\ er[a].pc = "made" /\ er[a].new # 0 => InUse(er[a].new) /\ cli[er[a].new].url = relays

RelayInv ==
    /\ Holders /\ OneCall /\ OneRelayClient
    /\ \A a \in Actors : er[a].pc # "idle" => InCall(a)
    /\ \A r \in Requests : req[r].pc = "relay" => relayCli = 0 /\ req[r].url = relays
    /\ (relayCli # 0 /\ \A a \in Actors : er[a].pc = "idle") => InUse(relayCli) /\ cli[relayCli].url = relays

-----------------------------------------------------------------------------
(* The services.                                                           *)
SvcInv ==
    /\ svc # {} => stopped # 0 /\ sess[stopped].pc \in Running
    /\ (\A s \in Sessions : sess[s].pc # "closing") => open \subseteq svc
    /\ \A s \in Sessions : sess[s].pc = "closing" => open \subseteq sess[s].held

-----------------------------------------------------------------------------
(* Types.                                                                  *)

LEMMA Update ==
    ASSUME NEW D, NEW T, NEW f \in [D -> T], NEW x, NEW v \in T
    PROVE  /\ [f EXCEPT ![x] = v] \in [D -> T]
           /\ \A y \in D : [f EXCEPT ![x] = v][y] = IF y = x THEN v ELSE f[y]
BY Zenon

\* What is drawn from a pool is in it.
LEMMA AnyIn == ASSUME NEW S, S # {} PROVE Any(S) \in S
BY Zenon DEF Any

\* The pools do not contain the value that stands for nil.
LEMMA Pools == 0 \notin Sessions /\ 0 \notin Keys /\ 0 \notin Clients /\ 1 \in Keys
BY SessionAssumption DEF Sessions, Keys, Clients

\* Requests and sessions are different actors.
LEMMA ActorSorts == Sessions \cap Requests = {} /\ Sessions \subseteq Actors /\ Requests \subseteq Actors
BY SessionAssumption, Zenon DEF Sessions, Actors

\* The records of an idle daemon.
LEMMA Defaults ==
    /\ NoSession \in Goroutines /\ NoSession.pc = "none" /\ NoSession.cancelled = FALSE
    /\ NoSession.closes = 0 /\ NoSession.rc = 0
    /\ NoClient \in RelayClients /\ NoClient.open = FALSE
    /\ NoER \in RelayCalls /\ NoER.pc = "idle" /\ NoER.new = 0
    /\ IdleReq \in ControlRequests /\ IdleReq.pc = "idle" /\ IdleReq.rc = 0
BY Zenon DEF NoSession, Goroutines, NoClient, RelayClients, NoER, RelayCalls, IdleReq, ControlRequests

Points == {"none", "spawned", "begun", "loop", "netmap", "drop", "closing", "ended"}

\* The changes of a session's record.
LEMMA GoroutineAt ==
    ASSUME NEW g \in Goroutines, NEW p \in Points
    PROVE  LET h == [g EXCEPT !.pc = p] IN
               /\ h \in Goroutines /\ h.pc = p
               /\ h.cancelled = g.cancelled /\ h.closes = g.closes /\ h.key = g.key
               /\ h.rc = g.rc /\ h.held = g.held
BY Zenon DEF Goroutines, Points

LEMMA GoroutineCancelled ==
    ASSUME NEW g \in Goroutines
    PROVE  LET h == [g EXCEPT !.cancelled = TRUE] IN
               /\ h \in Goroutines /\ h.cancelled = TRUE
               /\ h.pc = g.pc /\ h.closes = g.closes /\ h.key = g.key
               /\ h.rc = g.rc /\ h.held = g.held
BY Zenon DEF Goroutines

LEMMA GoroutineKey ==
    ASSUME NEW g \in Goroutines, NEW k \in Keys \cup {0}
    PROVE  LET h == [g EXCEPT !.key = k] IN
               /\ h \in Goroutines /\ h.key = k
               /\ h.pc = g.pc /\ h.closes = g.closes /\ h.cancelled = g.cancelled
               /\ h.rc = g.rc /\ h.held = g.held
BY Zenon DEF Goroutines

LEMMA GoroutineBegun ==
    ASSUME NEW g \in Goroutines, NEW c \in Sessions \cup {0}
    PROVE  LET h == [g EXCEPT !.pc = "begun", !.closes = c] IN
               /\ h \in Goroutines /\ h.pc = "begun" /\ h.closes = c
               /\ h.cancelled = g.cancelled /\ h.key = g.key /\ h.rc = g.rc /\ h.held = g.held
BY Zenon DEF Goroutines

LEMMA GoroutineLoop ==
    ASSUME NEW g \in Goroutines, NEW k \in Keys
    PROVE  LET h == [g EXCEPT !.pc = "loop", !.key = k] IN
               /\ h \in Goroutines /\ h.pc = "loop" /\ h.key = k
               /\ h.cancelled = g.cancelled /\ h.closes = g.closes /\ h.rc = g.rc /\ h.held = g.held
BY Zenon DEF Goroutines

\* The changes of a control request.
LEMMA RequestCommit ==
    ASSUME NEW q \in ControlRequests
    PROVE  LET h == [q EXCEPT !.pc = "commit"] IN
               /\ h \in ControlRequests /\ h.pc = "commit" /\ h.s = q.s
               /\ h.old = q.old /\ h.new = q.new /\ h.rc = q.rc
BY Zenon DEF ControlRequests

\* The changes of an ensureRelay call.
LEMMA CallDecided ==
    ASSUME NEW c \in Clients \cup {0}, NEW b \in Sessions \cup {0}, NEW u \in URLs \cup {NoURL}
    PROVE  LET h == [pc |-> "decided", cur |-> c, bind |-> b, url |-> u, new |-> 0] IN
               /\ h \in RelayCalls /\ h.pc = "decided" /\ h.cur = c /\ h.bind = b /\ h.url = u
               /\ h.new = 0
BY Zenon DEF RelayCalls

LEMMA CallMade ==
    ASSUME NEW e \in RelayCalls, NEW c \in Clients
    PROVE  LET h == [e EXCEPT !.pc = "made", !.new = c] IN
               /\ h \in RelayCalls /\ h.pc = "made" /\ h.new = c
               /\ h.cur = e.cur /\ h.bind = e.bind /\ h.url = e.url
BY Zenon DEF RelayCalls

LEMMA CallDropped ==
    ASSUME NEW e \in RelayCalls
    PROVE  LET h == [e EXCEPT !.pc = "made"] IN
               /\ h \in RelayCalls /\ h.pc = "made" /\ h.new = e.new
               /\ h.cur = e.cur /\ h.bind = e.bind /\ h.url = e.url
BY Zenon DEF RelayCalls

\* Closing a client, or nil.
LEMMA Closing ==
    ASSUME cli \in [Clients -> RelayClients], NEW c \in Clients \cup {0}
    PROVE  /\ closeClient(c) \in [Clients -> RelayClients]
           /\ \A d \in Clients : /\ closeClient(c)[d].url = cli[d].url
                                 /\ d # c => closeClient(c)[d] = cli[d]
                                 /\ d = c => ~ closeClient(c)[d].open
<1>1. CASE c = 0
    <2>1. closeClient(c) = cli
        BY <1>1, Zenon DEF closeClient
    <2> QED  BY <1>1, <2>1, Pools, Zenon
<1>2. CASE c # 0
    <2> DEFINE v == [NoClient EXCEPT !.url = cli[c].url]
    <2>1. c \in Clients
        BY <1>2, Zenon
    <2>2. \A k \in RelayClients, u \in URLs \cup {NoURL} :
             /\ [k EXCEPT !.url = u] \in RelayClients
             /\ [k EXCEPT !.url = u].open = k.open /\ [k EXCEPT !.url = u].url = u
        BY Zenon DEF RelayClients
    <2>3. cli[c].url \in URLs \cup {NoURL}
        BY <2>1, Zenon DEF RelayClients
    <2>4. v \in RelayClients /\ ~ v.open /\ v.url = cli[c].url
        BY <2>2, <2>3, Defaults, Zenon
    <2> HIDE DEF v
    <2>5. closeClient(c) = [cli EXCEPT ![c] = v]
        BY <1>2, Zenon DEF closeClient, v
    <2> QED  BY <2>1, <2>4, <2>5, Update
<1> QED  BY <1>1, <1>2, Zenon

-----------------------------------------------------------------------------
(* The effect of each step, field by field.                                *)

OnlySession(s) == \A t \in Sessions : t # s => sess'[t] = sess[t]
OnlyRequest(r) == \A q \in Requests : q # r => req'[q] = req[q]
OnlyCall(a) == \A b \in Actors : b # a => er'[b] = er[b]

\* New: everything but the state file is as in an idle daemon.
LEMMA FreshEffect ==
    ASSUME NEW up \in BOOLEAN, Fresh(up)
    PROVE  /\ boot' = TRUE /\ wasUp' \in BOOLEAN /\ lost' = FALSE
           /\ cancel' = 0 /\ stopped' = 0 /\ chan' = {} /\ engine' = 0 /\ bind' = 0
           /\ svc' = {} /\ open' = {} /\ relayCli' = 0 /\ relays' = NoURL
           /\ sess' \in [Sessions -> Goroutines] /\ cli' \in [Clients -> RelayClients]
           /\ sender' \in [Sessions -> Clients \cup {0}]
           /\ er' \in [Actors -> RelayCalls] /\ req' \in [Requests -> ControlRequests]
           /\ \A s \in Sessions : sess'[s].pc = "none" /\ sess'[s].rc = 0
           /\ \A c \in Clients : ~ cli'[c].open
           /\ \A a \in Actors : er'[a].pc = "idle" /\ er'[a].new = 0
           /\ \A r \in Requests : req'[r].pc = "idle" /\ req'[r].rc = 0
BY Defaults, Zenon DEF Fresh

LEMMA FreshTypes ==
    ASSUME NEW up \in BOOLEAN, Fresh(up), disk' \in States, mem' \in States,
           server' \in Keys \cup {0}, faults' \in 0 .. MaxFaults
    PROVE  SessionTypes'
BY FreshEffect, Zenon DEF SessionTypes, TypeOK, Named, Live

\* The bound on faults is kept.
LEMMA FaultTypes ==
    ASSUME TypeOK, NEW k, Fault(k) \/ NoFault
    PROVE  faults' \in 0 .. MaxFaults
BY SessionAssumption DEF TypeOK, Fault, NoFault

\* The session goroutine is started.
LEMMA SpawnEffect ==
    ASSUME SessionTypes, NEW s \in Sessions, spawn(s)
    PROVE  /\ cancel' = s /\ stopped' = s /\ chan' = chan \ {s}
           /\ sess' \in [Sessions -> Goroutines] /\ OnlySession(s)
           /\ sess'[s].pc = "spawned" /\ sess'[s].cancelled = FALSE /\ sess'[s].rc = 0
<1> DEFINE v == [NoSession EXCEPT !.pc = "spawned"]
<1>1. v \in Goroutines /\ v.pc = "spawned" /\ v.cancelled = FALSE /\ v.rc = 0
    BY Defaults, GoroutineAt, "spawned" \in Points, Zenon DEF Points
<1>2. sess' = [sess EXCEPT ![s] = v] /\ cancel' = s /\ stopped' = s /\ chan' = chan \ {s}
    BY Zenon DEF spawn
<1> HIDE DEF v
<1> QED  BY <1>1, <1>2, Update, Zenon DEF SessionTypes, TypeOK, OnlySession

\* Up: the answer is lost, the session is started, or the state file cannot be written.
LEMMA UpEffect ==
    ASSUME SessionTypes, doUp
    PROVE  /\ cancel = 0 /\ server' = mem.key
           /\ disk' \in States /\ mem' \in States
           /\ mem'.key = mem.key /\ disk'.key \in {disk.key, mem.key} /\ lost' \in BOOLEAN
           /\ faults' \in 0 .. MaxFaults
           /\ UNCHANGED <<engine, bind>>
           /\ \/ UNCHANGED <<cancel, stopped, chan, sess, disk>> /\ (mem' = mem \/ mem'.desired)
              \/ /\ \E s \in FreeSessions : spawn(s)
                 /\ disk' = mem' /\ mem'.desired /\ lost' = FALSE
<1>1. [mem EXCEPT !.desired = TRUE] \in States
    BY Zenon DEF SessionTypes, TypeOK, States
<1> QED  BY <1>1, AnyIn, FaultTypes, Zenon DEF doUp, SessionTypes, TypeOK, States, Save, SaveFailed, daemonVars

LEMMA UpTypes ==
    ASSUME SessionTypes, doUp, UNCHANGED <<svcVars, relayVars, req>>,
           boot' \in BOOLEAN, wasUp' \in BOOLEAN
    PROVE  SessionTypes'
<1>1. /\ disk' \in States /\ mem' \in States /\ server' \in Keys /\ lost' \in BOOLEAN
      /\ faults' \in 0 .. MaxFaults /\ UNCHANGED <<engine, bind>>
    BY UpEffect, Zenon DEF SessionTypes, TypeOK, States
<1>2. CASE UNCHANGED <<cancel, stopped, chan, sess>>
    BY <1>1, <1>2, Zenon DEF SessionTypes, TypeOK, Named, Live, svcVars, relayVars
<1>3. ASSUME NEW s \in Sessions, spawn(s)
      PROVE  SessionTypes'
    <2>1. /\ cancel' = s /\ stopped' = s /\ chan' = chan \ {s}
          /\ sess' \in [Sessions -> Goroutines] /\ OnlySession(s) /\ sess'[s].pc = "spawned"
        BY <1>3, SpawnEffect, Zenon
    <2>2. TypeOK'
        BY <1>1, <2>1, Zenon DEF SessionTypes, TypeOK, svcVars, relayVars
    <2>3. Named'
        BY <2>1, Pools, Zenon DEF SessionTypes, Named, Live, OnlySession
    <2> QED  BY <2>2, <2>3, Zenon DEF SessionTypes
<1> QED  BY <1>2, <1>3, UpEffect, Zenon DEF FreeSessions

\* Down takes cancel; the session's context is done.
LEMMA DownBeginEffect ==
    ASSUME SessionTypes, NEW r \in Requests, NEW x \in BOOLEAN, DownBegin(r, x)
    PROVE  /\ Ready(r) /\ cancel \in Sessions /\ cancel' = 0
           /\ sess' \in [Sessions -> Goroutines] /\ OnlySession(cancel)
           /\ sess'[cancel].cancelled = TRUE /\ sess'[cancel].pc = sess[cancel].pc
           /\ sess'[cancel].closes = sess[cancel].closes /\ sess'[cancel].key = sess[cancel].key
           /\ sess'[cancel].rc = sess[cancel].rc /\ sess'[cancel].held = sess[cancel].held
           /\ req' \in [Requests -> ControlRequests] /\ OnlyRequest(r)
           /\ req'[r].pc = "down" /\ req'[r].s = stopped /\ req'[r].rc = 0
           /\ UNCHANGED <<disk, mem, server, boot, wasUp, stopped, chan, engine, bind, svc, open, lost>>
           /\ UNCHANGED <<relayCli, relays, cli, sender, er, faults>>
<1> DEFINE v == [sess[cancel] EXCEPT !.cancelled = TRUE]
           q == [IdleReq EXCEPT !.pc = "down", !.s = stopped, !.exit = x]
<1>1. cancel \in Sessions /\ sess[cancel] \in Goroutines /\ stopped \in Sessions \cup {0}
      /\ sess \in [Sessions -> Goroutines] /\ req \in [Requests -> ControlRequests]
    BY Zenon DEF SessionTypes, TypeOK, DownBegin
<1>2. /\ v \in Goroutines /\ v.cancelled = TRUE /\ v.pc = sess[cancel].pc
      /\ v.closes = sess[cancel].closes /\ v.key = sess[cancel].key
      /\ v.rc = sess[cancel].rc /\ v.held = sess[cancel].held
    BY <1>1, GoroutineCancelled, Zenon
<1>3. q \in ControlRequests /\ q.pc = "down" /\ q.s = stopped /\ q.rc = 0
    <2>1. \A g \in ControlRequests :
             LET h == [g EXCEPT !.pc = "down", !.s = stopped, !.exit = x] IN
                 h \in ControlRequests /\ h.pc = "down" /\ h.s = stopped /\ h.rc = g.rc
        BY <1>1, Zenon DEF ControlRequests
    <2> QED  BY <2>1, Defaults, Zenon
<1>4. sess' = [sess EXCEPT ![cancel] = v] /\ req' = [req EXCEPT ![r] = q]
    BY Zenon DEF DownBegin
<1>5. /\ Ready(r) /\ cancel' = 0
      /\ UNCHANGED <<disk, mem, server, boot, wasUp, stopped, chan, engine, bind, svc, open, lost>>
      /\ UNCHANGED <<relayCli, relays, cli, sender, er, faults>>
    BY Zenon DEF DownBegin, NoFault, svcVars, relayVars
<1> HIDE DEF v, q
<1>6. sess' \in [Sessions -> Goroutines] /\ \A t \in Sessions : sess'[t] = IF t = cancel THEN v ELSE sess[t]
    BY <1>1, <1>2, <1>4, Update, Zenon
<1>7. req' \in [Requests -> ControlRequests] /\ \A p \in Requests : req'[p] = IF p = r THEN q ELSE req[p]
    BY <1>1, <1>3, <1>4, Update, Zenon
<1> QED  BY <1>1, <1>2, <1>3, <1>5, <1>6, <1>7, Zenon DEF OnlySession, OnlyRequest

LEMMA DownBeginTypes ==
    ASSUME SessionTypes, NEW r \in Requests, NEW x \in BOOLEAN, DownBegin(r, x)
    PROVE  SessionTypes'
<1>1. TypeOK'
    BY DownBeginEffect, Zenon DEF SessionTypes, TypeOK
<1>2. Named'
    <2>1. /\ \A t \in Sessions : sess'[t].pc = sess[t].pc /\ sess'[t].closes = sess[t].closes
          /\ \A q \in Requests : req'[q] = req[q] \/ req'[q].pc = "down"
          /\ stopped' = stopped
        BY DownBeginEffect, Zenon DEF OnlySession, OnlyRequest
    <2> QED  BY <2>1, Zenon DEF SessionTypes, Named, Live
<1> QED  BY <1>1, <1>2, Zenon DEF SessionTypes

\* Down returns; the process may exit, and another one starts.
LEMMA DownEndEffect ==
    ASSUME SessionTypes, NEW r \in Requests, DownEnd(r)
    PROVE  /\ req[r].pc = "down" /\ req[r].s \in chan
           /\ disk' \in States /\ mem' \in States
           /\ disk'.key \in {disk.key, mem.key} /\ mem'.key \in {mem.key, disk'.key}
           /\ server' = server /\ faults' \in 0 .. MaxFaults
           /\ \/ Fresh(TRUE) /\ mem' = disk'
              \/ /\ mem'.key = mem.key
                 /\ engine' = 0
                 /\ req' \in [Requests -> ControlRequests] /\ OnlyRequest(r)
                 /\ req'[r].pc = "idle" /\ req'[r].rc = 0
                 /\ UNCHANGED <<boot, wasUp, cancel, stopped, chan, sess, bind, svc, open, lost>>
                 /\ UNCHANGED <<relayCli, relays, cli, sender, er>>
<1>1. /\ [mem EXCEPT !.desired = FALSE] \in States /\ [mem EXCEPT !.desired = FALSE].key = mem.key
      /\ disk \in States /\ mem \in States
    BY Zenon DEF SessionTypes, TypeOK, States
<1>2. req[r].pc = "down" /\ req[r].s \in chan /\ server' = server
    BY Zenon DEF DownEnd
<1>3. disk' \in States /\ disk'.key \in {disk.key, mem.key} /\ faults' \in 0 .. MaxFaults
    BY <1>1, FaultTypes, Zenon DEF DownEnd, Save, SessionTypes
<1>4. CASE req[r].exit
    BY <1>2, <1>3, <1>4, Zenon DEF DownEnd
<1>5. CASE ~ req[r].exit
    <2>1. req' = [req EXCEPT ![r] = IdleReq] /\ engine' = 0 /\ mem' = [mem EXCEPT !.desired = FALSE]
          /\ UNCHANGED <<boot, wasUp, cancel, stopped, chan, sess, bind, svc, open, lost>>
          /\ UNCHANGED <<relayCli, relays, cli, sender, er>>
        BY <1>5, Zenon DEF DownEnd, svcVars, relayVars
    <2>2. req' \in [Requests -> ControlRequests] /\ \A p \in Requests : req'[p] = IF p = r THEN IdleReq ELSE req[p]
        BY <2>1, Defaults, Update, Zenon DEF SessionTypes, TypeOK
    <2> QED  BY <1>1, <1>2, <1>3, <2>1, <2>2, Defaults, Zenon DEF OnlyRequest
<1> QED  BY <1>4, <1>5, Zenon

LEMMA DownEndTypes ==
    ASSUME SessionTypes, NEW r \in Requests, DownEnd(r)
    PROVE  SessionTypes'
<1>1. CASE Fresh(TRUE)
    BY <1>1, DownEndEffect, FreshTypes, Zenon DEF SessionTypes, TypeOK
<1>2. CASE engine' = 0 /\ ~ Fresh(TRUE)
    <2>1. TypeOK'
        BY <1>2, DownEndEffect, Zenon DEF SessionTypes, TypeOK
    <2>2. Named'
        BY <1>2, DownEndEffect, Zenon DEF SessionTypes, Named, Live, OnlyRequest
    <2> QED  BY <2>1, <2>2, Zenon DEF SessionTypes
<1> QED  BY <1>1, <1>2, DownEndEffect, Zenon

\* What the steps of ensureRelay and the ends of a rotation leave alone.
DaemonSame ==
    /\ UNCHANGED <<disk, mem, server, boot, wasUp, cancel, stopped, chan, sess, engine, bind>>
    /\ UNCHANGED <<svc, open, lost, faults>>

LEMMA RelayKeptEffect ==
    ASSUME SessionTypes, NEW a \in Actors, RelayKept(a)
    PROVE  /\ er[a].pc = "decided" /\ (Kept(a) \/ (Unwanted(a) /\ er[a].cur = 0))
           /\ er' \in [Actors -> RelayCalls] /\ OnlyCall(a)
           /\ er'[a].pc = "idle" /\ er'[a].new = 0
           /\ DaemonSame /\ UNCHANGED <<relayCli, relays, cli, sender, req>>
<1>1. /\ er' = [er EXCEPT ![a] = NoER] /\ er[a].pc = "decided"
      /\ Kept(a) \/ (Unwanted(a) /\ er[a].cur = 0)
    BY Zenon DEF RelayKept
<1>2. DaemonSame /\ UNCHANGED <<relayCli, relays, cli, sender, req>>
    BY Zenon DEF RelayKept, DaemonSame, NoFault, daemonVars, svcVars
<1>3. er' \in [Actors -> RelayCalls] /\ \A b \in Actors : er'[b] = IF b = a THEN NoER ELSE er[b]
    BY <1>1, Defaults, Update, Zenon DEF SessionTypes, TypeOK
<1> QED  BY <1>1, <1>2, <1>3, Defaults, Zenon DEF OnlyCall

LEMMA NewRelayEffect ==
    ASSUME SessionTypes, NEW a \in Actors, NewRelay(a)
    PROVE  \E c \in FreeClients :
              /\ er[a].pc = "decided"
              /\ er' \in [Actors -> RelayCalls] /\ OnlyCall(a)
              /\ er'[a].pc = "made" /\ er'[a].new = c
              /\ er'[a].cur = er[a].cur /\ er'[a].bind = er[a].bind /\ er'[a].url = er[a].url
              /\ cli' \in [Clients -> RelayClients]
              /\ cli'[c].open /\ cli'[c].key = mem.key /\ cli'[c].url = er[a].url
              /\ \A d \in Clients : d # c /\ d # er[a].cur => cli'[d] = cli[d]
              /\ er[a].cur # 0 => ~ cli'[er[a].cur].open
              /\ sender' \in [Sessions -> Clients \cup {0}]
              /\ \A t \in Sessions : sender'[t] = IF t = er[a].bind THEN c ELSE sender[t]
              /\ DaemonSame /\ UNCHANGED <<relayCli, relays, req>>
<1> DEFINE c == Any(FreeClients)
           v == [open |-> TRUE, key |-> mem.key, url |-> er[a].url]
           e == [er[a] EXCEPT !.pc = "made", !.new = c]
<1>1. /\ er[a].pc = "decided"
      /\ cli' = [closeClient(er[a].cur) EXCEPT ![c] = v]
      /\ sender' = [sender EXCEPT ![er[a].bind] = c]
      /\ er' = [er EXCEPT ![a] = e]
      /\ FreeClients # {}
    BY Zenon DEF NewRelay
<1>2. DaemonSame /\ UNCHANGED <<relayCli, relays, req>>
    BY Zenon DEF NewRelay, DaemonSame, NoFault, daemonVars, svcVars
<1>3. c \in FreeClients /\ c \in Clients /\ c # er[a].cur
    BY <1>1, AnyIn, Zenon DEF FreeClients
<1> HIDE DEF c
<1>4. /\ er[a] \in RelayCalls /\ er[a].cur \in Clients \cup {0} /\ er[a].url \in URLs \cup {NoURL}
      /\ mem.key \in Keys
    BY Zenon DEF SessionTypes, TypeOK, RelayCalls, States
<1>5. v \in RelayClients /\ v.open /\ v.key = mem.key /\ v.url = er[a].url
    BY <1>4, Zenon DEF RelayClients
<1>6. /\ e \in RelayCalls /\ e.pc = "made" /\ e.new = c
      /\ e.cur = er[a].cur /\ e.bind = er[a].bind /\ e.url = er[a].url
    BY <1>3, <1>4, CallMade, Zenon
<1> HIDE DEF v, e
<1>7. er' \in [Actors -> RelayCalls] /\ \A b \in Actors : er'[b] = IF b = a THEN e ELSE er[b]
    BY <1>1, <1>6, Update, Zenon DEF SessionTypes, TypeOK
<1>8. /\ sender' \in [Sessions -> Clients \cup {0}]
      /\ \A t \in Sessions : sender'[t] = IF t = er[a].bind THEN c ELSE sender[t]
    BY <1>1, <1>3, Update, Zenon DEF SessionTypes, TypeOK
<1>9. /\ closeClient(er[a].cur) \in [Clients -> RelayClients]
      /\ \A d \in Clients : /\ d # er[a].cur => closeClient(er[a].cur)[d] = cli[d]
                            /\ d = er[a].cur => ~ closeClient(er[a].cur)[d].open
    BY <1>4, Closing, Zenon DEF SessionTypes, TypeOK
<1>10. /\ cli' \in [Clients -> RelayClients]
       /\ \A d \in Clients : cli'[d] = IF d = c THEN v ELSE closeClient(er[a].cur)[d]
    BY <1>1, <1>5, <1>9, Update, Zenon
<1>11. /\ cli'[c].open /\ cli'[c].key = mem.key /\ cli'[c].url = er[a].url
       /\ \A d \in Clients : d # c /\ d # er[a].cur => cli'[d] = cli[d]
       /\ er[a].cur # 0 => ~ cli'[er[a].cur].open
    BY <1>3, <1>4, <1>5, <1>9, <1>10, Zenon
<1> QED  BY <1>1, <1>2, <1>3, <1>6, <1>7, <1>8, <1>10, <1>11, Zenon DEF OnlyCall

LEMMA DropRelayEffect ==
    ASSUME SessionTypes, NEW a \in Actors, DropRelay(a)
    PROVE  /\ er[a].pc = "decided"
           /\ er' \in [Actors -> RelayCalls] /\ OnlyCall(a)
           /\ er'[a].pc = "made" /\ er'[a].new = er[a].new
           /\ er'[a].cur = er[a].cur /\ er'[a].bind = er[a].bind /\ er'[a].url = er[a].url
           /\ cli' \in [Clients -> RelayClients]
           /\ \A d \in Clients : d # er[a].cur => cli'[d] = cli[d]
           /\ er[a].cur # 0 => ~ cli'[er[a].cur].open
           /\ sender' \in [Sessions -> Clients \cup {0}]
           /\ DaemonSame /\ UNCHANGED <<relayCli, relays, req>>
<1> DEFINE e == [er[a] EXCEPT !.pc = "made"]
<1>1. /\ er[a].pc = "decided" /\ er[a].cur # 0
      /\ cli' = closeClient(er[a].cur)
      /\ sender' = [sender EXCEPT ![er[a].bind] = 0]
      /\ er' = [er EXCEPT ![a] = e]
    BY Zenon DEF DropRelay
<1>2. DaemonSame /\ UNCHANGED <<relayCli, relays, req>>
    BY Zenon DEF DropRelay, DaemonSame, NoFault, daemonVars, svcVars
<1>3. er[a] \in RelayCalls /\ er[a].cur \in Clients \cup {0}
    BY Zenon DEF SessionTypes, TypeOK, RelayCalls
<1>4. /\ e \in RelayCalls /\ e.pc = "made" /\ e.new = er[a].new
      /\ e.cur = er[a].cur /\ e.bind = er[a].bind /\ e.url = er[a].url
    BY <1>3, CallDropped, Zenon
<1> HIDE DEF e
<1>5. er' \in [Actors -> RelayCalls] /\ \A b \in Actors : er'[b] = IF b = a THEN e ELSE er[b]
    BY <1>1, <1>4, Update, Zenon DEF SessionTypes, TypeOK
<1>6. sender' \in [Sessions -> Clients \cup {0}]
    BY <1>1, Update, Zenon DEF SessionTypes, TypeOK
<1>7. /\ cli' \in [Clients -> RelayClients]
      /\ \A d \in Clients : /\ d # er[a].cur => cli'[d] = cli[d]
                            /\ d = er[a].cur => ~ cli'[d].open
    BY <1>1, <1>3, Closing, Zenon DEF SessionTypes, TypeOK
<1> QED  BY <1>1, <1>2, <1>3, <1>4, <1>5, <1>6, <1>7, Zenon DEF OnlyCall

LEMMA SetRelayEffect ==
    ASSUME SessionTypes, NEW a \in Actors, SetRelay(a)
    PROVE  /\ er[a].pc = "made" /\ relayCli' = er[a].new
           /\ er' \in [Actors -> RelayCalls] /\ OnlyCall(a)
           /\ er'[a].pc = "idle" /\ er'[a].new = 0
           /\ DaemonSame /\ UNCHANGED <<relays, cli, sender, req>>
<1>1. er' = [er EXCEPT ![a] = NoER] /\ er[a].pc = "made" /\ relayCli' = er[a].new
    BY Zenon DEF SetRelay
<1>2. DaemonSame /\ UNCHANGED <<relays, cli, sender, req>>
    BY Zenon DEF SetRelay, DaemonSame, NoFault, daemonVars, svcVars
<1>3. er' \in [Actors -> RelayCalls] /\ \A b \in Actors : er'[b] = IF b = a THEN NoER ELSE er[b]
    BY <1>1, Defaults, Update, Zenon DEF SessionTypes, TypeOK
<1> QED  BY <1>1, <1>2, <1>3, Defaults, Zenon DEF OnlyCall

LEMMA EnsureRelayTypes ==
    ASSUME SessionTypes, NEW a \in Actors, EnsureRelayStep(a)
    PROVE  SessionTypes'
<1>1. /\ er' \in [Actors -> RelayCalls] /\ cli' \in [Clients -> RelayClients]
      /\ sender' \in [Sessions -> Clients \cup {0}] /\ relayCli' \in Clients \cup {0}
      /\ DaemonSame /\ UNCHANGED <<relays, req>>
    <2>1. CASE RelayKept(a)
        BY <2>1, RelayKeptEffect, Zenon DEF SessionTypes, TypeOK
    <2>2. CASE NewRelay(a)
        BY <2>2, NewRelayEffect, ZenonT(30) DEF SessionTypes, TypeOK
    <2>3. CASE DropRelay(a)
        BY <2>3, DropRelayEffect, Zenon DEF SessionTypes, TypeOK
    <2>4. CASE SetRelay(a)
        <3>1. er[a].new \in Clients \cup {0}
            BY Zenon DEF SessionTypes, TypeOK, RelayCalls
        <3> QED  BY <2>4, <3>1, SetRelayEffect, Zenon DEF SessionTypes, TypeOK
    <2> QED  BY <2>1, <2>2, <2>3, <2>4, Zenon DEF EnsureRelayStep
<1> QED  BY <1>1, Zenon DEF SessionTypes, TypeOK, Named, Live, DaemonSame

-----------------------------------------------------------------------------
LEMMA RotateBeginEffect ==
    ASSUME SessionTypes, NEW r \in Requests, RotateBegin(r)
    PROVE  \E k \in Keys :
              /\ Ready(r) /\ cancel # 0 /\ engine \in Sessions
              /\ sess' \in [Sessions -> Goroutines] /\ OnlySession(engine)
              /\ sess'[engine].key = k /\ sess'[engine].pc = sess[engine].pc
              /\ sess'[engine].cancelled = sess[engine].cancelled
              /\ sess'[engine].closes = sess[engine].closes
              /\ sess'[engine].rc = sess[engine].rc /\ sess'[engine].held = sess[engine].held
              /\ req' \in [Requests -> ControlRequests] /\ OnlyRequest(r)
              /\ req'[r].pc = "register" /\ req'[r].s = engine
              /\ req'[r].old = mem.key /\ req'[r].new = k /\ req'[r].rc = 0
              /\ UNCHANGED <<disk, mem, server, boot, wasUp, cancel, stopped, chan, engine, bind>>
              /\ UNCHANGED <<svc, open, relayCli, relays, cli, sender, er, lost, faults>>
<1> DEFINE k == Any(FreeKeys)
           v == [sess[engine] EXCEPT !.key = k]
           q == [IdleReq EXCEPT !.pc = "register", !.s = engine, !.old = mem.key, !.new = k]
<1>1. /\ Ready(r) /\ cancel # 0 /\ FreeKeys # {}
      /\ req' = [req EXCEPT ![r] = q] /\ sess' = [sess EXCEPT ![engine] = v]
    BY Zenon DEF RotateBegin
<1>2. /\ UNCHANGED <<disk, mem, server, boot, wasUp, cancel, stopped, chan, engine, bind>>
      /\ UNCHANGED <<svc, open, relayCli, relays, cli, sender, er, lost, faults>>
    BY Zenon DEF RotateBegin, NoFault, svcVars, relayVars
<1>3. k \in Keys
    BY <1>1, AnyIn, Zenon DEF FreeKeys
<1> HIDE DEF k
<1>4. engine \in Sessions /\ sess[engine] \in Goroutines /\ mem.key \in Keys
    BY Zenon DEF SessionTypes, TypeOK, States, RotateBegin
<1>5. /\ v \in Goroutines /\ v.key = k /\ v.pc = sess[engine].pc
      /\ v.cancelled = sess[engine].cancelled /\ v.closes = sess[engine].closes
      /\ v.rc = sess[engine].rc /\ v.held = sess[engine].held
    BY <1>3, <1>4, GoroutineKey, Zenon
<1>6. q \in ControlRequests /\ q.pc = "register" /\ q.s = engine /\ q.old = mem.key /\ q.new = k /\ q.rc = 0
    <2>1. engine \in Sessions \cup {0}
        BY <1>4, Zenon
    <2>2. \A g \in ControlRequests :
             LET h == [g EXCEPT !.pc = "register", !.s = engine, !.old = mem.key, !.new = k] IN
                 /\ h \in ControlRequests /\ h.pc = "register" /\ h.s = engine
                 /\ h.old = mem.key /\ h.new = k /\ h.rc = g.rc
        BY <1>3, <1>4, <2>1, Zenon DEF ControlRequests
    <2> QED  BY <2>2, Defaults, Zenon
<1> HIDE DEF v, q
<1>7. sess' \in [Sessions -> Goroutines] /\ \A t \in Sessions : sess'[t] = IF t = engine THEN v ELSE sess[t]
    BY <1>1, <1>5, Update, Zenon DEF SessionTypes, TypeOK
<1>8. req' \in [Requests -> ControlRequests] /\ \A p \in Requests : req'[p] = IF p = r THEN q ELSE req[p]
    BY <1>1, <1>6, Update, Zenon DEF SessionTypes, TypeOK
<1> QED  BY <1>1, <1>2, <1>3, <1>4, <1>5, <1>6, <1>7, <1>8, Zenon DEF OnlySession, OnlyRequest

LEMMA RotateBeginTypes ==
    ASSUME SessionTypes, NEW r \in Requests, RotateBegin(r)
    PROVE  SessionTypes'
<1>1. TypeOK'
    BY RotateBeginEffect, Zenon DEF SessionTypes, TypeOK
<1>2. Named'
    BY RotateBeginEffect, Pools DEF SessionTypes, Named, Live, OnlySession, OnlyRequest
<1> QED  BY <1>1, <1>2, Zenon DEF SessionTypes

LEMMA RotateFailsEffect ==
    ASSUME SessionTypes, NEW r \in Requests, RotateFails(r)
    PROVE  /\ req[r].pc = "register" /\ req[r].s \in Sessions
           /\ sess' \in [Sessions -> Goroutines] /\ OnlySession(req[r].s)
           /\ sess'[req[r].s].key = IF sess[req[r].s].key = 0 THEN 0 ELSE req[r].old
           /\ sess'[req[r].s].pc = sess[req[r].s].pc
           /\ sess'[req[r].s].cancelled = sess[req[r].s].cancelled
           /\ sess'[req[r].s].closes = sess[req[r].s].closes
           /\ sess'[req[r].s].rc = sess[req[r].s].rc /\ sess'[req[r].s].held = sess[req[r].s].held
           /\ req' \in [Requests -> ControlRequests] /\ OnlyRequest(r)
           /\ req'[r].pc = "idle" /\ req'[r].rc = 0
           /\ UNCHANGED <<server, lost>> \/ (server' = req[r].new /\ lost' = TRUE)
           /\ faults' \in 0 .. MaxFaults
           /\ UNCHANGED <<disk, mem, boot, wasUp, cancel, stopped, chan, engine, bind>>
           /\ UNCHANGED <<svc, open, relayCli, relays, cli, sender, er>>
<1> DEFINE s == req[r].s
           k == IF sess[s].key = 0 THEN 0 ELSE req[r].old
           v == [sess[s] EXCEPT !.key = k]
<1>1. /\ req[r].pc = "register"
      /\ UNCHANGED <<server, lost>> \/ (server' = req[r].new /\ lost' = TRUE)
      /\ req' = [req EXCEPT ![r] = IdleReq] /\ sess' = [sess EXCEPT ![s] = v]
    BY Zenon DEF RotateFails, RolledBack
<1>2. /\ UNCHANGED <<disk, mem, boot, wasUp, cancel, stopped, chan, engine, bind>>
      /\ UNCHANGED <<svc, open, relayCli, relays, cli, sender, er>>
    BY Zenon DEF RotateFails, svcVars, relayVars
<1>3. faults' \in 0 .. MaxFaults
    BY FaultTypes, Zenon DEF RotateFails, SessionTypes
<1>4. req[r].s \in Sessions \cup {0} /\ req[r].old \in Keys \cup {0}
    BY Zenon DEF SessionTypes, TypeOK, ControlRequests
<1>5. s \in Sessions /\ sess[s] \in Goroutines /\ k \in Keys \cup {0}
    BY <1>1, <1>4, Zenon DEF SessionTypes, TypeOK, Named
<1> HIDE DEF s, k
<1>6. /\ v \in Goroutines /\ v.key = k /\ v.pc = sess[s].pc
      /\ v.cancelled = sess[s].cancelled /\ v.closes = sess[s].closes
      /\ v.rc = sess[s].rc /\ v.held = sess[s].held
    BY <1>5, GoroutineKey, Zenon
<1> HIDE DEF v
<1>7. sess' \in [Sessions -> Goroutines] /\ \A t \in Sessions : sess'[t] = IF t = s THEN v ELSE sess[t]
    BY <1>1, <1>6, Update, Zenon DEF SessionTypes, TypeOK
<1>8. req' \in [Requests -> ControlRequests] /\ \A p \in Requests : req'[p] = IF p = r THEN IdleReq ELSE req[p]
    BY <1>1, Defaults, Update, Zenon DEF SessionTypes, TypeOK
<1> QED  BY <1>1, <1>2, <1>3, <1>5, <1>6, <1>7, <1>8, Defaults, Zenon DEF OnlySession, OnlyRequest, s, k

LEMMA RotateFailsTypes ==
    ASSUME SessionTypes, NEW r \in Requests, RotateFails(r)
    PROVE  SessionTypes'
<1>1. req[r].new \in Keys \cup {0} /\ server \in Keys \cup {0} /\ lost \in BOOLEAN
    BY Zenon DEF SessionTypes, TypeOK, ControlRequests
<1>2. /\ server' \in Keys \cup {0} /\ lost' \in BOOLEAN
      /\ sess' \in [Sessions -> Goroutines] /\ req' \in [Requests -> ControlRequests]
      /\ faults' \in 0 .. MaxFaults
      /\ UNCHANGED <<disk, mem, boot, wasUp, cancel, stopped, chan, engine, bind>>
      /\ UNCHANGED <<svc, open, relayCli, relays, cli, sender, er>>
    BY <1>1, RotateFailsEffect, Zenon
<1>3. TypeOK'
    BY <1>2, Zenon DEF SessionTypes, TypeOK
<1>4. Named'
    <2>1. /\ \A t \in Sessions : sess'[t].pc = sess[t].pc /\ sess'[t].closes = sess[t].closes
          /\ \A q \in Requests : req'[q] = req[q] \/ req'[q].pc = "idle"
          /\ stopped' = stopped
        BY RotateFailsEffect, Zenon DEF OnlySession, OnlyRequest
    <2> QED  BY <2>1, Zenon DEF SessionTypes, Named, Live
<1> QED  BY <1>3, <1>4, Zenon DEF SessionTypes

LEMMA RotateRegisteredEffect ==
    ASSUME SessionTypes, NEW r \in Requests, RotateRegistered(r)
    PROVE  /\ req[r].pc = "register" /\ server' = req[r].new /\ lost' = FALSE
           /\ req' \in [Requests -> ControlRequests] /\ OnlyRequest(r)
           /\ req'[r].pc = "commit" /\ req'[r].s = req[r].s /\ req'[r].old = req[r].old
           /\ req'[r].new = req[r].new /\ req'[r].rc = req[r].rc
           /\ UNCHANGED <<disk, mem, boot, wasUp, cancel, stopped, chan, sess, engine, bind>>
           /\ UNCHANGED <<svc, open, relayCli, relays, cli, sender, er, faults>>
<1> DEFINE q == [req[r] EXCEPT !.pc = "commit"]
<1>1. req[r].pc = "register" /\ server' = req[r].new /\ lost' = FALSE /\ req' = [req EXCEPT ![r] = q]
    BY Zenon DEF RotateRegistered
<1>2. /\ UNCHANGED <<disk, mem, boot, wasUp, cancel, stopped, chan, sess, engine, bind>>
      /\ UNCHANGED <<svc, open, relayCli, relays, cli, sender, er, faults>>
    BY Zenon DEF RotateRegistered, NoFault, daemonVars, svcVars, relayVars
<1>3. /\ q \in ControlRequests /\ q.pc = "commit" /\ q.s = req[r].s /\ q.old = req[r].old
      /\ q.new = req[r].new /\ q.rc = req[r].rc
    BY RequestCommit, Zenon DEF SessionTypes, TypeOK
<1> HIDE DEF q
<1>4. req' \in [Requests -> ControlRequests] /\ \A p \in Requests : req'[p] = IF p = r THEN q ELSE req[p]
    BY <1>1, <1>3, Update, Zenon DEF SessionTypes, TypeOK
<1> QED  BY <1>1, <1>2, <1>3, <1>4, Zenon DEF OnlyRequest

LEMMA RotateRegisteredTypes ==
    ASSUME SessionTypes, NEW r \in Requests, RotateRegistered(r)
    PROVE  SessionTypes'
<1>1. server' \in Keys \cup {0}
    BY RotateRegisteredEffect, Zenon DEF SessionTypes, TypeOK, ControlRequests
<1>2. TypeOK'
    BY <1>1, RotateRegisteredEffect, Zenon DEF SessionTypes, TypeOK
<1>3. Named'
    BY RotateRegisteredEffect, Zenon DEF SessionTypes, Named, Live, OnlyRequest
<1> QED  BY <1>2, <1>3, Zenon DEF SessionTypes

LEMMA RotateCommitEffect ==
    ASSUME SessionTypes, NEW r \in Requests, RotateCommit(r)
    PROVE  /\ req[r].pc = "commit" /\ (RelayRaces \/ ~ NetMapInRelay)
           /\ mem' \in States /\ disk' \in States
           /\ mem'.key = req[r].new /\ mem'.desired = mem.desired
           /\ relayCli' = 0 /\ faults' \in 0 .. MaxFaults
           /\ disk' = mem' \/ (disk' = disk /\ "rotsave" \in Faults)
           /\ req' \in [Requests -> ControlRequests] /\ OnlyRequest(r)
           /\ \/ req'[r].pc = "idle" /\ req'[r].rc = 0 /\ (relayCli = 0 \/ "rotsave" \in Faults)
              \/ req'[r].pc = "relay" /\ req'[r].rc = relayCli /\ req'[r].url = relays
           /\ UNCHANGED <<server, boot, wasUp, cancel, stopped, chan, sess, engine, bind>>
           /\ UNCHANGED <<svc, open, relays, cli, sender, er, lost>>
<1> DEFINE q == [IdleReq EXCEPT !.pc = "relay", !.rc = relayCli, !.url = relays]
<1>1. req[r].pc = "commit" /\ (RelayRaces \/ ~ NetMapInRelay) /\ relayCli' = 0
    BY Zenon DEF RotateCommit
<1>2. /\ UNCHANGED <<server, boot, wasUp, cancel, stopped, chan, sess, engine, bind>>
      /\ UNCHANGED <<svc, open, relays, cli, sender, er, lost>>
    BY Zenon DEF RotateCommit, daemonVars, svcVars
<1>3. faults' \in 0 .. MaxFaults
    BY FaultTypes, Zenon DEF RotateCommit, SessionTypes
<1>4. req[r].new \in Keys
    <2>1. req[r].new \in Keys \cup {0}
        BY Zenon DEF SessionTypes, TypeOK, ControlRequests
    <2> QED  BY <1>1, <2>1, Zenon DEF SessionTypes, Named
<1>5. mem' \in States /\ mem'.key = req[r].new /\ mem'.desired = mem.desired
    BY <1>4, Zenon DEF RotateCommit, SessionTypes, TypeOK, States
<1>6. disk' = mem' \/ (disk' = disk /\ "rotsave" \in Faults)
    BY Zenon DEF RotateCommit, Fault, Save
<1>7. disk' \in States
    BY <1>5, <1>6, Zenon DEF SessionTypes, TypeOK
<1>8. CASE req' = [req EXCEPT ![r] = IdleReq] /\ (relayCli = 0 \/ "rotsave" \in Faults)
    <2>1. req' \in [Requests -> ControlRequests] /\ \A p \in Requests : req'[p] = IF p = r THEN IdleReq ELSE req[p]
        BY <1>8, Defaults, Update, Zenon DEF SessionTypes, TypeOK
    <2> QED  BY <1>1, <1>2, <1>3, <1>5, <1>6, <1>7, <1>8, <2>1, Defaults, Zenon DEF OnlyRequest
<1>9. CASE req' = [req EXCEPT ![r] = q] /\ relayCli # 0
    <2>1. q \in ControlRequests /\ q.pc = "relay" /\ q.rc = relayCli /\ q.url = relays
        <3>1. relayCli \in Clients /\ relays \in URLs \cup {NoURL}
            BY <1>9, Zenon DEF SessionTypes, TypeOK
        <3>2. \A g \in ControlRequests :
                 LET h == [g EXCEPT !.pc = "relay", !.rc = relayCli, !.url = relays] IN
                     h \in ControlRequests /\ h.pc = "relay" /\ h.rc = relayCli /\ h.url = relays
            BY <3>1, Zenon DEF ControlRequests
        <3> QED  BY <3>2, Defaults, Zenon
    <2> HIDE DEF q
    <2>2. req' \in [Requests -> ControlRequests] /\ \A p \in Requests : req'[p] = IF p = r THEN q ELSE req[p]
        BY <1>9, <2>1, Update, Zenon DEF SessionTypes, TypeOK
    <2> QED  BY <1>1, <1>2, <1>3, <1>5, <1>6, <1>7, <2>1, <2>2, Zenon DEF OnlyRequest
<1>10. \/ req' = [req EXCEPT ![r] = IdleReq] /\ (relayCli = 0 \/ "rotsave" \in Faults)
       \/ req' = [req EXCEPT ![r] = q] /\ relayCli # 0
    <2>1. CASE /\ NoFault /\ Save(mem')
               /\ req' = [req EXCEPT ![r] = IF relayCli = 0 THEN IdleReq ELSE q]
        BY <2>1, Zenon
    <2>2. CASE Fault("rotsave") /\ disk' = disk /\ req' = [req EXCEPT ![r] = IdleReq]
        BY <2>2, Zenon DEF Fault
    <2> QED  BY <2>1, <2>2, Zenon DEF RotateCommit
<1> QED  BY <1>8, <1>9, <1>10, Zenon

LEMMA RotateCommitTypes ==
    ASSUME SessionTypes, NEW r \in Requests, RotateCommit(r)
    PROVE  SessionTypes'
<1>1. TypeOK'
    BY RotateCommitEffect, Zenon DEF SessionTypes, TypeOK
<1>2. Named'
    BY RotateCommitEffect, Zenon DEF SessionTypes, Named, Live, OnlyRequest
<1> QED  BY <1>1, <1>2, Zenon DEF SessionTypes

\* The first critical section of ensureRelay.
LEMMA DecideEffect ==
    ASSUME SessionTypes, NEW a \in Actors, NEW u \in URLs \cup {NoURL}, ensureRelay(a, u)
    PROVE  /\ relays' = u
           /\ er' \in [Actors -> RelayCalls] /\ OnlyCall(a)
           /\ er'[a].pc = "decided" /\ er'[a].cur = relayCli /\ er'[a].bind = bind
           /\ er'[a].url = u /\ er'[a].new = 0
<1> DEFINE v == [pc |-> "decided", cur |-> relayCli, bind |-> bind, url |-> u, new |-> 0]
<1>1. relays' = u /\ er' = [er EXCEPT ![a] = v]
    BY Zenon DEF ensureRelay
<1>2. /\ v \in RelayCalls /\ v.pc = "decided" /\ v.cur = relayCli /\ v.bind = bind
      /\ v.url = u /\ v.new = 0
    BY CallDecided, Zenon DEF SessionTypes, TypeOK
<1> HIDE DEF v
<1>3. er' \in [Actors -> RelayCalls] /\ \A b \in Actors : er'[b] = IF b = a THEN v ELSE er[b]
    BY <1>1, <1>2, Update, Zenon DEF SessionTypes, TypeOK
<1> QED  BY <1>1, <1>2, <1>3, Zenon DEF OnlyCall

LEMMA RotateRelayEffect ==
    ASSUME SessionTypes, NEW r \in Requests, RotateRelay(r)
    PROVE  /\ req[r].pc = "relay"
           /\ cli' \in [Clients -> RelayClients]
           /\ \A d \in Clients : d # req[r].rc => cli'[d] = cli[d]
           /\ \A d \in Clients : d = req[r].rc => ~ cli'[d].open
           /\ relays' = req[r].url /\ relays' \in URLs \cup {NoURL}
           /\ er' \in [Actors -> RelayCalls] /\ OnlyCall(r)
           /\ er'[r].pc = "decided" /\ er'[r].cur = relayCli /\ er'[r].bind = bind
           /\ er'[r].url = req[r].url /\ er'[r].new = 0
           /\ req' \in [Requests -> ControlRequests] /\ OnlyRequest(r)
           /\ req'[r].pc = "idle" /\ req'[r].rc = 0
           /\ DaemonSame /\ UNCHANGED <<relayCli, sender>>
<1>1. req[r].rc \in Clients \cup {0} /\ req[r].url \in URLs \cup {NoURL} /\ r \in Actors
    BY ActorSorts, Zenon DEF SessionTypes, TypeOK, ControlRequests
<1>2. /\ req[r].pc = "relay" /\ cli' = closeClient(req[r].rc)
      /\ ensureRelay(r, req[r].url) /\ req' = [req EXCEPT ![r] = IdleReq]
    BY Zenon DEF RotateRelay
<1>3. DaemonSame /\ UNCHANGED <<relayCli, sender>>
    BY Zenon DEF RotateRelay, DaemonSame, NoFault, daemonVars, svcVars
<1>4. /\ cli' \in [Clients -> RelayClients]
      /\ \A d \in Clients : d # req[r].rc => cli'[d] = cli[d]
      /\ \A d \in Clients : d = req[r].rc => ~ cli'[d].open
    BY <1>1, <1>2, Closing, Zenon DEF SessionTypes, TypeOK
<1>5. req' \in [Requests -> ControlRequests] /\ \A p \in Requests : req'[p] = IF p = r THEN IdleReq ELSE req[p]
    BY <1>2, Defaults, Update, Zenon DEF SessionTypes, TypeOK
<1>6. /\ relays' = req[r].url
      /\ er' \in [Actors -> RelayCalls] /\ OnlyCall(r)
      /\ er'[r].pc = "decided" /\ er'[r].cur = relayCli /\ er'[r].bind = bind
      /\ er'[r].url = req[r].url /\ er'[r].new = 0
    BY <1>1, <1>2, DecideEffect, Zenon
<1> QED  BY <1>1, <1>2, <1>3, <1>4, <1>5, <1>6, Defaults, Zenon DEF OnlyRequest

LEMMA RotateRelayTypes ==
    ASSUME SessionTypes, NEW r \in Requests, RotateRelay(r)
    PROVE  SessionTypes'
<1>1. TypeOK'
    BY RotateRelayEffect, Zenon DEF SessionTypes, TypeOK, DaemonSame
<1>2. Named'
    BY RotateRelayEffect, Zenon DEF SessionTypes, Named, Live, OnlyRequest, DaemonSame
<1> QED  BY <1>1, <1>2, Zenon DEF SessionTypes

-----------------------------------------------------------------------------
\* The fields of session s other than its program counter.
RestOf(s) ==
    /\ sess'[s].cancelled = sess[s].cancelled /\ sess'[s].closes = sess[s].closes
    /\ sess'[s].rc = sess[s].rc /\ sess'[s].held = sess[s].held

\* The session goes from one point to another.
LEMMA MoveEffect ==
    ASSUME SessionTypes, NEW s \in Sessions, NEW p \in Points, sess' = [sess EXCEPT ![s].pc = p]
    PROVE  /\ sess' \in [Sessions -> Goroutines] /\ OnlySession(s)
           /\ sess'[s].pc = p /\ sess'[s].key = sess[s].key /\ RestOf(s)
<1> DEFINE v == [sess[s] EXCEPT !.pc = p]
<1>1. /\ v \in Goroutines /\ v.pc = p /\ v.cancelled = sess[s].cancelled
      /\ v.closes = sess[s].closes /\ v.key = sess[s].key /\ v.rc = sess[s].rc /\ v.held = sess[s].held
    BY GoroutineAt DEF SessionTypes, TypeOK
<1>2. [sess EXCEPT ![s].pc = p] = [sess EXCEPT ![s] = v]
    BY Zenon
<1>3. sess \in [Sessions -> Goroutines]
    BY Zenon DEF SessionTypes, TypeOK
<1> HIDE DEF v
<1>4. sess' = [sess EXCEPT ![s] = v]
    BY <1>2, Zenon
<1>5. sess' \in [Sessions -> Goroutines] /\ \A t \in Sessions : sess'[t] = IF t = s THEN v ELSE sess[t]
    BY <1>1, <1>3, <1>4, Update
<1> QED  BY <1>1, <1>5, Zenon DEF OnlySession, RestOf

\* What the session's own steps leave alone.
SessionSame ==
    /\ UNCHANGED <<disk, mem, server, boot, wasUp, cancel, stopped, req, lost>>

LEMMA SessionBeginEffect ==
    ASSUME SessionTypes, NEW s \in Sessions, SessionBegin(s)
    PROVE  /\ sess[s].pc = "spawned"
           /\ sess' \in [Sessions -> Goroutines] /\ OnlySession(s)
           /\ sess'[s].pc = "begun" /\ sess'[s].closes = stopped
           /\ sess'[s].cancelled = sess[s].cancelled /\ sess'[s].rc = sess[s].rc
           /\ SessionSame /\ UNCHANGED <<chan, engine, bind, svc, open, faults>>
           /\ UNCHANGED <<relayCli, relays, cli, sender, er>>
<1> DEFINE v == [sess[s] EXCEPT !.pc = "begun", !.closes = stopped]
<1>1. /\ v \in Goroutines /\ v.pc = "begun" /\ v.closes = stopped
      /\ v.cancelled = sess[s].cancelled /\ v.rc = sess[s].rc
    <2>1. sess[s] \in Goroutines /\ stopped \in Sessions \cup {0}
        BY Zenon DEF SessionTypes, TypeOK
    <2> QED  BY <2>1, GoroutineBegun, Zenon
<1>2. sess' = [sess EXCEPT ![s] = v] /\ sess[s].pc = "spawned"
    BY Zenon DEF SessionBegin
<1>3. /\ SessionSame /\ UNCHANGED <<chan, engine, bind, svc, open, faults>>
      /\ UNCHANGED <<relayCli, relays, cli, sender, er>>
    BY Zenon DEF SessionBegin, SessionSame, NoFault, svcVars, relayVars
<1> HIDE DEF v
<1>4. sess' \in [Sessions -> Goroutines] /\ \A t \in Sessions : sess'[t] = IF t = s THEN v ELSE sess[t]
    BY <1>1, <1>2, Update, Zenon DEF SessionTypes, TypeOK
<1> QED  BY <1>1, <1>2, <1>3, <1>4, Zenon DEF OnlySession

\* The goroutine returns.
LEMMA EndedEffect ==
    ASSUME SessionTypes, NEW s \in Sessions, sess[s].pc \in {"begun", "closing"}, ended(s)
    PROVE  /\ sess' \in [Sessions -> Goroutines] /\ OnlySession(s)
           /\ sess'[s].pc = "ended" /\ sess'[s].rc = 0
           /\ sender' \in [Sessions -> Clients \cup {0}]
           /\ \A t \in Sessions : t # s => sender'[t] = sender[t]
           /\ sess[s].closes \in Sessions /\ chan' = chan \cup {sess[s].closes}
<1> DEFINE v == [NoSession EXCEPT !.pc = "ended"]
<1>1. v \in Goroutines /\ v.pc = "ended" /\ v.rc = 0
    BY Defaults, GoroutineAt, "ended" \in Points, Zenon DEF Points
<1>2. /\ sess' = [sess EXCEPT ![s] = v] /\ sender' = [sender EXCEPT ![s] = 0]
      /\ chan' = chan \cup {sess[s].closes}
    BY Zenon DEF ended
<1>3. sess[s].closes \in Sessions
    <2>1. sess[s].closes \in Sessions \cup {0}
        BY Zenon DEF SessionTypes, TypeOK, Goroutines
    <2> QED  BY <2>1, Zenon DEF SessionTypes, Named, Live
<1> HIDE DEF v
<1>4. sess' \in [Sessions -> Goroutines] /\ \A t \in Sessions : sess'[t] = IF t = s THEN v ELSE sess[t]
    BY <1>1, <1>2, Update, Zenon DEF SessionTypes, TypeOK
<1>5. /\ sender' \in [Sessions -> Clients \cup {0}]
      /\ \A t \in Sessions : sender'[t] = IF t = s THEN 0 ELSE sender[t]
    BY <1>2, Update, Zenon DEF SessionTypes, TypeOK
<1> QED  BY <1>1, <1>2, <1>3, <1>4, <1>5, Zenon DEF OnlySession

LEMMA SessionEngineEffect ==
    ASSUME SessionTypes, NEW s \in Sessions, SessionEngine(s)
    PROVE  /\ sess[s].pc = "begun"
           /\ sess' \in [Sessions -> Goroutines] /\ OnlySession(s)
           /\ \/ /\ sess'[s].pc = "loop" /\ sess'[s].key = mem.key /\ RestOf(s)
                 /\ engine' = s /\ bind' = s /\ UNCHANGED <<chan, sender>>
              \/ /\ sess'[s].pc = "ended" /\ sess'[s].rc = 0
                 /\ sess[s].closes \in Sessions /\ chan' = chan \cup {sess[s].closes}
                 /\ \A t \in Sessions : t # s => sender'[t] = sender[t]
                 /\ UNCHANGED <<engine, bind>>
           /\ sender' \in [Sessions -> Clients \cup {0}]
           /\ SessionSame /\ faults' \in 0 .. MaxFaults
           /\ UNCHANGED <<svc, open, relayCli, relays, cli, er>>
<1>1. /\ sess[s].pc = "begun" /\ SessionSame
      /\ UNCHANGED <<svc, open, relayCli, relays, cli, er>>
    BY Zenon DEF SessionEngine, SessionSame, svcVars
<1>2. faults' \in 0 .. MaxFaults
    BY FaultTypes, Zenon DEF SessionEngine, SessionTypes
<1>3. CASE /\ NoFault /\ engine' = s /\ bind' = s /\ UNCHANGED <<chan, sender>>
           /\ sess' = [sess EXCEPT ![s] = [@ EXCEPT !.pc = "loop", !.key = mem.key]]
    <2> DEFINE v == [sess[s] EXCEPT !.pc = "loop", !.key = mem.key]
    <2>1. /\ v \in Goroutines /\ v.pc = "loop" /\ v.key = mem.key
          /\ v.cancelled = sess[s].cancelled /\ v.closes = sess[s].closes
          /\ v.rc = sess[s].rc /\ v.held = sess[s].held
        <3>1. sess[s] \in Goroutines /\ mem.key \in Keys
            BY Zenon DEF SessionTypes, TypeOK, States
        <3> QED  BY <3>1, GoroutineLoop, Zenon
    <2>2. sess' = [sess EXCEPT ![s] = v]
        BY <1>3, Zenon
    <2> HIDE DEF v
    <2>3. sess' \in [Sessions -> Goroutines] /\ \A t \in Sessions : sess'[t] = IF t = s THEN v ELSE sess[t]
        BY <2>1, <2>2, Update, Zenon DEF SessionTypes, TypeOK
    <2>4. sender' \in [Sessions -> Clients \cup {0}]
        BY <1>3, Zenon DEF SessionTypes, TypeOK
    <2> QED  BY <1>1, <1>2, <1>3, <2>1, <2>3, <2>4, Zenon DEF OnlySession, RestOf
<1>4. CASE Fault("engine") /\ ended(s) /\ UNCHANGED <<engine, bind>>
    BY <1>1, <1>2, <1>4, EndedEffect, Zenon
<1> QED  BY <1>3, <1>4, Zenon DEF SessionEngine

LEMMA NetMapEffect ==
    ASSUME SessionTypes, NEW s \in Sessions, NetMap(s)
    PROVE  /\ sess[s].pc = "loop" /\ ~ sess[s].cancelled /\ (RelayRaces \/ ~ RotationInRelay)
           /\ sess' \in [Sessions -> Goroutines] /\ OnlySession(s)
           /\ sess'[s].pc = "netmap" /\ sess'[s].key = sess[s].key /\ RestOf(s)
           /\ relays' \in URLs \cup {NoURL}
           /\ er' \in [Actors -> RelayCalls] /\ OnlyCall(s)
           /\ er'[s].pc = "decided" /\ er'[s].cur = relayCli /\ er'[s].bind = bind
           /\ er'[s].url = relays' /\ er'[s].new = 0
           /\ SessionSame /\ UNCHANGED <<chan, engine, bind, svc, open, faults, relayCli, cli, sender>>
<1>1. /\ sess[s].pc = "loop" /\ ~ sess[s].cancelled /\ (RelayRaces \/ ~ RotationInRelay)
      /\ sess' = [sess EXCEPT ![s].pc = "netmap"]
      /\ SessionSame /\ UNCHANGED <<chan, engine, bind, svc, open, faults, relayCli, cli, sender>>
    BY Zenon DEF NetMap, SessionSame, NoFault, svcVars
<1>2. PICK u \in URLs \cup {NoURL} : ensureRelay(s, u)
    BY Zenon DEF NetMap
<1>3. /\ relays' = u
      /\ er' \in [Actors -> RelayCalls] /\ OnlyCall(s)
      /\ er'[s].pc = "decided" /\ er'[s].cur = relayCli /\ er'[s].bind = bind
      /\ er'[s].url = u /\ er'[s].new = 0
    BY <1>2, DecideEffect, ActorSorts, Zenon
<1>4. /\ sess' \in [Sessions -> Goroutines] /\ OnlySession(s)
      /\ sess'[s].pc = "netmap" /\ sess'[s].key = sess[s].key /\ RestOf(s)
    BY <1>1, MoveEffect, "netmap" \in Points, ZenonT(30) DEF Points
<1> QED  BY <1>1, <1>3, <1>4, Zenon

\* applyDNS and applyOverdrop: what is put in place is remembered.
LEMMA ServicesEffect ==
    ASSUME SessionTypes, applyDNS \/ applyOverdrop
    PROVE  /\ svc' \subseteq Services /\ open' \subseteq Services /\ faults' \in 0 .. MaxFaults
           /\ open \subseteq svc => open' \subseteq svc'
<1>1. faults' \in 0 .. MaxFaults
    BY FaultTypes, Zenon DEF applyDNS, applyOverdrop, SessionTypes
<1>2. svc \subseteq Services /\ open \subseteq Services
    BY Zenon DEF SessionTypes, TypeOK
<1>3. CASE applyDNS
    BY <1>1, <1>2, <1>3, Zenon DEF applyDNS, Services
<1>4. CASE applyOverdrop
    BY <1>1, <1>2, <1>4, Zenon DEF applyOverdrop, Services
<1> QED  BY <1>3, <1>4, Zenon

\* The rest of applyNetMap, in two steps.
LEMMA ApplyEffect ==
    ASSUME SessionTypes, NEW s \in Sessions, NetMapServices(s) \/ NetMapApplied(s)
    PROVE  /\ \/ sess[s].pc = "netmap" /\ er[s].pc = "idle" /\ sess'[s].pc \in {"loop", "drop"}
              \/ sess[s].pc = "drop" /\ sess'[s].pc = "loop"
           /\ sess' \in [Sessions -> Goroutines] /\ OnlySession(s)
           /\ sess'[s].key = sess[s].key /\ RestOf(s)
           /\ svc' \subseteq Services /\ open' \subseteq Services
           /\ open \subseteq svc => open' \subseteq svc'
           /\ SessionSame /\ UNCHANGED <<chan, engine, bind>> /\ faults' \in 0 .. MaxFaults
           /\ UNCHANGED <<relayCli, relays, cli, sender, er>>
<1>1. /\ SessionSame /\ UNCHANGED <<chan, engine, bind>>
      /\ UNCHANGED <<relayCli, relays, cli, sender, er>>
    BY Zenon DEF NetMapServices, NetMapApplied, SessionSame, relayVars
<1>2. /\ svc' \subseteq Services /\ open' \subseteq Services /\ faults' \in 0 .. MaxFaults
      /\ open \subseteq svc => open' \subseteq svc'
    <2>1. CASE applyDNS \/ applyOverdrop
        BY <2>1, ServicesEffect, Zenon
    <2>2. CASE Fault("netmap") /\ UNCHANGED svcVars
        BY <2>2, FaultTypes, Zenon DEF SessionTypes, TypeOK, svcVars
    <2> QED  BY <2>1, <2>2, Zenon DEF NetMapServices, NetMapApplied
<1>3. PICK p \in {"loop", "drop"} :
         /\ sess' = [sess EXCEPT ![s].pc = p]
         /\ \/ sess[s].pc = "netmap" /\ er[s].pc = "idle"
            \/ sess[s].pc = "drop" /\ p = "loop"
    BY Zenon DEF NetMapServices, NetMapApplied
<1>4. p \in Points
    BY Zenon DEF Points
<1>5. /\ sess' \in [Sessions -> Goroutines] /\ OnlySession(s)
      /\ sess'[s].pc = p /\ sess'[s].key = sess[s].key /\ RestOf(s)
    BY <1>3, <1>4, MoveEffect, Zenon
<1> QED  BY <1>1, <1>2, <1>3, <1>5, Zenon

LEMMA SessionCloseEffect ==
    ASSUME SessionTypes, NEW s \in Sessions, SessionClose(s)
    PROVE  /\ sess[s].pc = "loop" /\ sess[s].cancelled
           /\ sess' \in [Sessions -> Goroutines] /\ OnlySession(s)
           /\ sess'[s].pc = "closing" /\ sess'[s].rc = relayCli /\ sess'[s].held = svc
           /\ sess'[s].cancelled = sess[s].cancelled /\ sess'[s].closes = sess[s].closes
           /\ relayCli' = 0 /\ svc' = {}
           /\ SessionSame /\ UNCHANGED <<chan, engine, bind, open, relays, cli, sender, er, faults>>
<1> DEFINE v == [sess[s] EXCEPT !.pc = "closing", !.rc = relayCli, !.held = svc]
<1>1. /\ v \in Goroutines /\ v.pc = "closing" /\ v.rc = relayCli /\ v.held = svc
      /\ v.cancelled = sess[s].cancelled /\ v.closes = sess[s].closes
    <2>1. sess[s] \in Goroutines /\ relayCli \in Clients \cup {0} /\ svc \in SUBSET Services
        BY Zenon DEF SessionTypes, TypeOK
    <2>2. \A g \in Goroutines :
             LET h == [g EXCEPT !.pc = "closing", !.rc = relayCli, !.held = svc] IN
                 /\ h \in Goroutines /\ h.pc = "closing" /\ h.rc = relayCli /\ h.held = svc
                 /\ h.cancelled = g.cancelled /\ h.closes = g.closes
        BY <2>1, Zenon DEF Goroutines
    <2> QED  BY <2>1, <2>2, Zenon
<1>2. /\ sess[s].pc = "loop" /\ sess[s].cancelled /\ sess' = [sess EXCEPT ![s] = v]
      /\ relayCli' = 0 /\ svc' = {}
      /\ SessionSame /\ UNCHANGED <<chan, engine, bind, open, relays, cli, sender, er, faults>>
    BY Zenon DEF SessionClose, SessionSame, NoFault
<1> HIDE DEF v
<1>3. sess' \in [Sessions -> Goroutines] /\ \A t \in Sessions : sess'[t] = IF t = s THEN v ELSE sess[t]
    BY <1>1, <1>2, Update, Zenon DEF SessionTypes, TypeOK
<1> QED  BY <1>1, <1>2, <1>3, Zenon DEF OnlySession

LEMMA SessionEndEffect ==
    ASSUME SessionTypes, NEW s \in Sessions, SessionEnd(s)
    PROVE  /\ sess[s].pc = "closing"
           /\ sess' \in [Sessions -> Goroutines] /\ OnlySession(s)
           /\ sess'[s].pc = "ended" /\ sess'[s].rc = 0
           /\ cli' \in [Clients -> RelayClients]
           /\ \A d \in Clients : d # sess[s].rc => cli'[d] = cli[d]
           /\ \A d \in Clients : d = sess[s].rc => ~ cli'[d].open
           /\ sender' \in [Sessions -> Clients \cup {0}]
           /\ \A t \in Sessions : t # s => sender'[t] = sender[t]
           /\ sess[s].closes \in Sessions /\ chan' = chan \cup {sess[s].closes}
           /\ open' = open \ sess[s].held
           /\ SessionSame /\ UNCHANGED <<engine, bind, svc, relayCli, relays, er, faults>>
<1>1. /\ sess[s].pc = "closing" /\ cli' = closeClient(sess[s].rc) /\ open' = open \ sess[s].held
      /\ ended(s)
      /\ SessionSame /\ UNCHANGED <<engine, bind, svc, relayCli, relays, er, faults>>
    BY Zenon DEF SessionEnd, SessionSame, NoFault
<1>2. sess[s].rc \in Clients \cup {0}
    BY Zenon DEF SessionTypes, TypeOK, Goroutines
<1>3. /\ cli' \in [Clients -> RelayClients]
      /\ \A d \in Clients : d # sess[s].rc => cli'[d] = cli[d]
      /\ \A d \in Clients : d = sess[s].rc => ~ cli'[d].open
    BY <1>1, <1>2, Closing, Zenon DEF SessionTypes, TypeOK
<1> QED  BY <1>1, <1>3, EndedEffect, Zenon

LEMMA SessionStepTypes ==
    ASSUME SessionTypes, NEW s \in Sessions, SessionStep(s) \/ NetMap(s)
    PROVE  SessionTypes'
<1>1. CASE SessionBegin(s)
    <2>1. TypeOK'
        BY <1>1, SessionBeginEffect, Zenon DEF SessionTypes, TypeOK, SessionSame
    <2>2. Named'
        BY <1>1, SessionBeginEffect, Zenon DEF SessionTypes, Named, Live, OnlySession, SessionSame
    <2> QED  BY <2>1, <2>2, Zenon DEF SessionTypes
<1>2. CASE SessionEngine(s)
    <2>1. TypeOK'
        BY <1>2, SessionEngineEffect, Zenon DEF SessionTypes, TypeOK, SessionSame
    <2>2. Named'
        BY <1>2, SessionEngineEffect, Zenon DEF SessionTypes, Named, Live, OnlySession, SessionSame, RestOf
    <2> QED  BY <2>1, <2>2, Zenon DEF SessionTypes
<1>3. CASE NetMapServices(s) \/ NetMapApplied(s)
    <2>1. TypeOK'
        BY <1>3, ApplyEffect, Zenon DEF SessionTypes, TypeOK, SessionSame
    <2>2. Named'
        BY <1>3, ApplyEffect, ZenonT(30) DEF SessionTypes, Named, Live, OnlySession, SessionSame, RestOf
    <2> QED  BY <2>1, <2>2, Zenon DEF SessionTypes
<1>4. CASE SessionClose(s)
    <2>1. TypeOK'
        BY <1>4, SessionCloseEffect, Zenon DEF SessionTypes, TypeOK, SessionSame
    <2>2. Named'
        BY <1>4, SessionCloseEffect, Zenon DEF SessionTypes, Named, Live, OnlySession, SessionSame
    <2> QED  BY <2>1, <2>2, Zenon DEF SessionTypes
<1>5. CASE SessionEnd(s)
    <2>1. TypeOK'
        BY <1>5, SessionEndEffect, Zenon DEF SessionTypes, TypeOK, SessionSame
    <2>2. Named'
        BY <1>5, SessionEndEffect, Zenon DEF SessionTypes, Named, Live, OnlySession, SessionSame
    <2> QED  BY <2>1, <2>2, Zenon DEF SessionTypes
<1>6. CASE NetMap(s)
    <2>1. TypeOK'
        BY <1>6, NetMapEffect, Zenon DEF SessionTypes, TypeOK, SessionSame
    <2>2. Named'
        BY <1>6, NetMapEffect DEF SessionTypes, Named, Live, OnlySession, SessionSame, RestOf
    <2> QED  BY <2>1, <2>2, Zenon DEF SessionTypes
<1> QED  BY <1>1, <1>2, <1>3, <1>4, <1>5, <1>6, Zenon DEF SessionStep

-----------------------------------------------------------------------------
LEMMA InitTypes == Init => SessionTypes
<1> SUFFICES ASSUME Init PROVE SessionTypes
    BY Zenon
<1>1. disk \in States /\ mem \in States /\ faults \in 0 .. MaxFaults
    BY Pools, SessionAssumption DEF Init, States
<1>2. /\ sess \in [Sessions -> Goroutines] /\ cli \in [Clients -> RelayClients]
      /\ sender \in [Sessions -> Clients \cup {0}]
      /\ er \in [Actors -> RelayCalls] /\ req \in [Requests -> ControlRequests]
    BY Defaults, Zenon DEF Init
<1>3. TypeOK
    BY <1>1, <1>2, Zenon DEF Init, TypeOK
<1>4. Named
    BY Defaults, Zenon DEF Init, Named, Live
<1> QED  BY <1>3, <1>4, Zenon DEF SessionTypes

LEMMA NextTypes == SessionTypes /\ [Next]_vars => SessionTypes'
<1> SUFFICES ASSUME SessionTypes, [Next]_vars PROVE SessionTypes'
    BY Zenon
<1>1. CASE MaybeAutoUp
    <2>1. boot' = FALSE /\ wasUp' = FALSE /\ UNCHANGED <<svcVars, relayVars, req>>
        BY <1>1, Zenon DEF MaybeAutoUp
    <2>2. CASE doUp
        BY <2>1, <2>2, UpTypes, Zenon
    <2>3. CASE (Fault("reject") \/ NoFault) /\ UNCHANGED <<disk, mem, server, daemonVars, lost>>
        <3>1. faults' \in 0 .. MaxFaults
            BY <2>3, FaultTypes, Zenon DEF SessionTypes
        <3> QED  BY <2>1, <2>3, <3>1, Zenon DEF SessionTypes, TypeOK, Named, Live, daemonVars, svcVars, relayVars
    <2> QED  BY <1>1, <2>2, <2>3, Zenon DEF MaybeAutoUp
<1>2. CASE Crash
    <2>1. faults' \in 0 .. MaxFaults
        BY <1>2, FaultTypes, Zenon DEF Crash, SessionTypes
    <2>2. (cancel # 0 \/ (boot /\ wasUp)) \in BOOLEAN
        BY Zenon
    <2> QED  BY <1>2, <2>1, <2>2, FreshTypes, Zenon DEF Crash, SessionTypes, TypeOK
<1>3. ASSUME NEW r \in Requests, Up(r) PROVE SessionTypes'
    BY <1>3, UpTypes, Zenon DEF Up, SessionTypes, TypeOK
<1>4. ASSUME NEW r \in Requests, NEW x \in BOOLEAN, DownBegin(r, x) PROVE SessionTypes'
    BY <1>4, DownBeginTypes, Zenon
<1>5. ASSUME NEW r \in Requests, DownEnd(r) PROVE SessionTypes'
    BY <1>5, DownEndTypes, Zenon
<1>6. ASSUME NEW r \in Requests, RotateBegin(r) \/ RotateStep(r) PROVE SessionTypes'
    BY <1>6, RotateBeginTypes, RotateFailsTypes, RotateRegisteredTypes, RotateCommitTypes, RotateRelayTypes, Zenon
       DEF RotateStep
<1>7. ASSUME NEW a \in Actors, EnsureRelayStep(a) PROVE SessionTypes'
    BY <1>7, EnsureRelayTypes, Zenon
<1>8. ASSUME NEW s \in Sessions, NetMap(s) \/ SessionStep(s) PROVE SessionTypes'
    BY <1>8, SessionStepTypes, Zenon
<1>9. CASE UNCHANGED vars
    BY <1>9, Zenon DEF SessionTypes, TypeOK, Named, Live, vars, daemonVars, svcVars, relayVars
<1> QED  BY <1>1, <1>2, <1>3, <1>4, <1>5, <1>6, <1>7, <1>8, <1>9, Zenon DEF Next

\* Every variable keeps its type, whatever overlaps, fails or crashes: what a
\* goroutine names is a session, key or client of its pool.
THEOREM TypeCorrect == Spec => []TypeOK
<1>1. SessionTypes => TypeOK
    BY Zenon DEF SessionTypes
<1> QED  BY <1>1, InitTypes, NextTypes, PTL DEF Spec

-----------------------------------------------------------------------------
(* LifeInv is inductive when control requests do not overlap.              *)


LEMMA FreshLife ==
    ASSUME NEW up \in BOOLEAN, Fresh(up)
    PROVE  LifeInv'
<1>1. /\ cancel' = 0 /\ stopped' = 0 /\ engine' = 0
      /\ \A s \in Sessions : sess'[s].pc = "none"
      /\ \A a \in Actors : er'[a].pc = "idle"
      /\ \A r \in Requests : req'[r].pc = "idle"
    BY FreshEffect, Zenon
<1> QED  BY <1>1, ActorSorts, Zenon DEF LifeInv, OneSession, Live, Stopping, AtRest, Booting, Engines, Running,
                                 Calls, Recorded

\* Without requests and without a session: Up may start one.
LEMMA UpLife ==
    ASSUME SessionTypes, LifeInv, \A r \in Requests : req[r].pc = "idle" /\ er[r].pc = "idle",
           doUp, UNCHANGED <<svcVars, relayVars, req>>, boot' = FALSE
    PROVE  LifeInv'
<1>1. /\ cancel = 0 /\ UNCHANGED <<engine, bind, er, req>>
    BY UpEffect, Zenon DEF relayVars
<1>2. /\ engine = 0 /\ (\A s \in Sessions : ~ Live(s))
      /\ \A a \in Actors : er[a].pc = "idle"
    <2>1. engine = 0 /\ \A s \in Sessions : ~ Live(s)
        BY <1>1, Zenon DEF LifeInv, AtRest
    <2>2. \A s \in Sessions : er[s].pc = "idle"
        BY <2>1, Zenon DEF LifeInv, Calls, Live
    <2> QED  BY <2>1, <2>2, Zenon DEF Actors
<1>3. CASE UNCHANGED <<cancel, stopped, chan, sess, disk>>
    BY <1>1, <1>2, <1>3, Zenon DEF LifeInv, OneSession, Live, Stopping, AtRest, Booting, Engines, Calls, Recorded
<1>4. ASSUME NEW s \in Sessions, spawn(s), disk' = mem', mem'.desired
      PROVE  LifeInv'
    <2>1. /\ cancel' = s /\ stopped' = s /\ chan' = chan \ {s} /\ OnlySession(s)
          /\ sess'[s].pc = "spawned" /\ sess'[s].cancelled = FALSE
        BY <1>4, SpawnEffect, Zenon
    <2>2. s # 0 /\ \A t \in Sessions : t # s => sess'[t].pc \in {"none", "ended"}
        BY <1>2, <2>1, Pools, Zenon DEF OnlySession, Live
    <2>3. OneSession' /\ Stopping' /\ AtRest' /\ Booting'
        BY <1>1, <2>1, <2>2, Zenon DEF OneSession, Live, Stopping, AtRest, Booting
    <2>4. Engines'
        BY <1>1, <1>2, <2>1, <2>2, Zenon DEF Engines, Running
    <2>5. Calls' /\ Recorded'
        BY <1>1, <1>2, <1>4, ActorSorts, Zenon DEF Calls, Recorded
    <2> QED  BY <2>3, <2>4, <2>5, Zenon DEF LifeInv
<1> QED  BY <1>3, <1>4, UpEffect, Zenon DEF FreeSessions

\* What a control request finds when it can be taken.
LEMMA ReadyAlone ==
    ASSUME Serial, NEW r \in Requests, Ready(r)
    PROVE  ~ boot /\ \A q \in Requests : req[q].pc = "idle" /\ er[q].pc = "idle"
BY Zenon DEF Serial, Ready

LEMMA DownBeginLife ==
    ASSUME SessionTypes, LifeInv, Serial, NEW r \in Requests, NEW x \in BOOLEAN, DownBegin(r, x)
    PROVE  LifeInv'
<1>1. /\ Ready(r) /\ cancel \in Sessions /\ cancel' = 0 /\ OnlySession(cancel)
      /\ sess'[cancel].cancelled = TRUE /\ sess'[cancel].pc = sess[cancel].pc
      /\ sess'[cancel].closes = sess[cancel].closes
      /\ OnlyRequest(r) /\ req'[r].pc = "down" /\ req'[r].s = stopped
      /\ UNCHANGED <<boot, stopped, chan, engine, bind, er>>
    BY DownBeginEffect, Zenon
<1>2. ~ boot /\ (\A q \in Requests : req[q].pc = "idle" /\ er[q].pc = "idle")
    BY <1>1, ReadyAlone, Zenon
<1>3. cancel = stopped /\ cancel # 0
    BY <1>1, Pools, Zenon DEF LifeInv, Stopping
<1>4. \A t \in Sessions : sess'[t].pc = sess[t].pc /\ sess'[t].closes = sess[t].closes
    BY <1>1, Zenon DEF OnlySession
<1>5. \A q \in Requests : q = r
    BY Zenon DEF Serial
<1>6. OneSession'
    BY <1>1, <1>3, <1>4, Zenon DEF LifeInv, OneSession, Live
<1>7. Stopping' /\ AtRest' /\ Booting' /\ Recorded'
    BY <1>1, <1>2, <1>3, <1>5, Zenon DEF Stopping, AtRest, Booting, Recorded
<1>8. Engines'
    BY <1>1, <1>4, Zenon DEF LifeInv, Engines
<1>9. Calls'
    BY <1>1, <1>2, <1>4, <1>5, Zenon DEF LifeInv, Calls
<1> QED  BY <1>6, <1>7, <1>8, <1>9, Zenon DEF LifeInv

LEMMA DownEndLife ==
    ASSUME SessionTypes, LifeInv, Serial, NEW r \in Requests, DownEnd(r)
    PROVE  LifeInv'
<1>1. CASE Fresh(TRUE)
    BY <1>1, FreshLife, Zenon
<1>2. CASE ~ Fresh(TRUE)
    <2>1. /\ req[r].pc = "down" /\ req[r].s \in chan
          /\ engine' = 0 /\ req'[r].pc = "idle"
          /\ UNCHANGED <<boot, cancel, stopped, chan, sess, bind, er>>
        BY <1>2, DownEndEffect, Zenon
    <2>2. \A q \in Requests : q = r
        BY Zenon DEF Serial
    <2>3. cancel = 0 /\ stopped \in chan
        BY <2>1, Zenon DEF LifeInv, Stopping
    <2>4. \A s \in Sessions : ~ Live(s)
        BY <2>3, Zenon DEF LifeInv, OneSession
    <2>5. ~ boot /\ er[r].pc = "idle" /\ \A s \in Sessions : er[s].pc = "idle"
        BY <2>1, <2>3, <2>4, Zenon DEF LifeInv, Booting, Calls, Live
    <2>6. OneSession' /\ Stopping' /\ AtRest' /\ Booting' /\ Recorded'
        BY <2>1, <2>2, <2>3, <2>4, <2>5, Zenon DEF OneSession, Live, Stopping, AtRest, Booting, Recorded
    <2>7. Engines' /\ Calls'
        BY <2>1, <2>2, <2>4, <2>5, Zenon DEF Engines, Calls, Live, Running
    <2> QED  BY <2>6, <2>7, Zenon DEF LifeInv
<1> QED  BY <1>1, <1>2, Zenon

\* The steps of ensureRelay.
LEMMA EnsureRelayLife ==
    ASSUME SessionTypes, LifeInv, NEW a \in Actors, EnsureRelayStep(a)
    PROVE  LifeInv'
<1>1. /\ er[a].pc # "idle" /\ OnlyCall(a) /\ DaemonSame /\ UNCHANGED req
    BY RelayKeptEffect, NewRelayEffect, DropRelayEffect, SetRelayEffect, Zenon DEF EnsureRelayStep
<1>2. \A b \in Actors : er'[b].pc # "idle" => er[b].pc # "idle"
    BY <1>1, Zenon DEF OnlyCall
<1>3. ~ boot
    BY <1>1, Zenon DEF LifeInv, Booting
<1>4. OneSession' /\ Stopping' /\ AtRest' /\ Booting' /\ Recorded' /\ Engines'
    BY <1>1, <1>3, Zenon DEF LifeInv, OneSession, Live, Stopping, AtRest, Booting, Recorded, Engines, DaemonSame
<1>5. Calls'
    BY <1>1, <1>2, ActorSorts, Zenon DEF LifeInv, Calls, DaemonSame
<1> QED  BY <1>4, <1>5, Zenon DEF LifeInv

\* A rotation has a running session and leaves it running.
LEMMA RotationLife ==
    ASSUME SessionTypes, LifeInv, NEW r \in Requests, cancel # 0, engine = cancel,
           \A t \in Sessions : /\ sess'[t].pc = sess[t].pc /\ sess'[t].closes = sess[t].closes
                               /\ sess'[t].cancelled = sess[t].cancelled,
           OnlyRequest(r), req'[r].pc # "down",
           \A s \in Sessions : er'[s] = er[s],
           mem'.desired = mem.desired, disk'.desired \in {disk.desired, mem.desired},
           UNCHANGED <<boot, cancel, stopped, chan, engine, bind>>
    PROVE  LifeInv'
<1>1. ~ boot
    BY Zenon DEF LifeInv, Booting
<1>2. OneSession'
    BY Zenon DEF LifeInv, OneSession, Live
<1>3. Stopping'
    BY Zenon DEF LifeInv, Stopping, OnlyRequest
<1>4. AtRest' /\ Booting'
    BY <1>1, Zenon DEF AtRest, Booting
<1>5. Engines'
    <2>1. stopped \in Sessions
        BY Zenon DEF SessionTypes, TypeOK, LifeInv, Stopping
    <2> QED  BY <2>1, Zenon DEF LifeInv, Engines
<1>6. Calls' /\ Recorded'
    BY Zenon DEF LifeInv, Calls, Recorded
<1> QED  BY <1>2, <1>3, <1>4, <1>5, <1>6, Zenon DEF LifeInv

LEMMA RotateLife ==
    ASSUME SessionTypes, LifeInv, NEW r \in Requests, RotateBegin(r) \/ RotateStep(r)
    PROVE  LifeInv'
<1>1. CASE RotateBegin(r)
    <2>1. PICK k \in Keys :
             /\ cancel # 0 /\ engine \in Sessions /\ OnlySession(engine)
             /\ sess'[engine].pc = sess[engine].pc /\ sess'[engine].closes = sess[engine].closes
             /\ sess'[engine].cancelled = sess[engine].cancelled
             /\ OnlyRequest(r) /\ req'[r].pc = "register"
             /\ UNCHANGED <<disk, mem, boot, cancel, stopped, chan, engine, bind, er>>
        BY <1>1, RotateBeginEffect, Zenon
    <2>2. engine = cancel
        BY <2>1, Pools, Zenon DEF LifeInv, Engines, Stopping
    <2>3. \A t \in Sessions : /\ sess'[t].pc = sess[t].pc /\ sess'[t].closes = sess[t].closes
                              /\ sess'[t].cancelled = sess[t].cancelled
        BY <2>1, Zenon DEF OnlySession
    <2> QED  BY <2>1, <2>2, <2>3, RotationLife, Zenon
<1>2. CASE req[r].pc \in {"register", "commit", "relay"}
    <2>1. cancel # 0 /\ engine = cancel
        BY <1>2, Zenon DEF LifeInv, Calls
    <2>2. CASE RotateFails(r)
        <3>1. /\ OnlySession(req[r].s)
              /\ sess'[req[r].s].pc = sess[req[r].s].pc /\ sess'[req[r].s].closes = sess[req[r].s].closes
              /\ sess'[req[r].s].cancelled = sess[req[r].s].cancelled
              /\ OnlyRequest(r) /\ req'[r].pc = "idle"
              /\ UNCHANGED <<disk, mem, boot, cancel, stopped, chan, engine, bind, er>>
            BY <2>2, RotateFailsEffect, Zenon
        <3>2. \A t \in Sessions : /\ sess'[t].pc = sess[t].pc /\ sess'[t].closes = sess[t].closes
                                  /\ sess'[t].cancelled = sess[t].cancelled
            BY <3>1, Zenon DEF OnlySession
        <3> QED  BY <2>1, <3>1, <3>2, RotationLife, Zenon
    <2>3. CASE RotateRegistered(r)
        <3>1. /\ OnlyRequest(r) /\ req'[r].pc = "commit"
              /\ UNCHANGED <<disk, mem, boot, cancel, stopped, chan, sess, engine, bind, er>>
            BY <2>3, RotateRegisteredEffect, Zenon
        <3> QED  BY <2>1, <3>1, RotationLife, Zenon
    <2>4. CASE RotateCommit(r)
        <3>1. /\ OnlyRequest(r) /\ req'[r].pc \in {"idle", "relay"}
              /\ mem'.desired = mem.desired /\ (disk' = mem' \/ disk' = disk)
              /\ UNCHANGED <<boot, cancel, stopped, chan, sess, engine, bind, er>>
            BY <2>4, RotateCommitEffect, Zenon
        <3> QED  BY <2>1, <3>1, RotationLife, Zenon
    <2>5. CASE RotateRelay(r)
        <3>1. OnlyRequest(r) /\ req'[r].pc = "idle" /\ OnlyCall(r) /\ DaemonSame
            BY <2>5, RotateRelayEffect, Zenon
        <3>2. \A s \in Sessions : er'[s] = er[s]
            BY <3>1, ActorSorts, Zenon DEF OnlyCall
        <3> QED  BY <2>1, <3>1, <3>2, RotationLife, Zenon DEF DaemonSame
    <2> QED  BY <1>1, <2>2, <2>3, <2>4, <2>5, Zenon DEF RotateStep
<1> QED  BY <1>1, <1>2, Zenon DEF RotateStep, RotateFails, RotateRegistered, RotateCommit, RotateRelay

\* The goroutine's own steps are those of the last session.
LEMMA OwnStep ==
    ASSUME SessionTypes, LifeInv, NEW s \in Sessions, Live(s)
    PROVE  /\ s = stopped /\ s # 0 /\ s \notin chan /\ sess[s].cancelled = (cancel = 0)
           /\ sess[s].pc # "spawned" => sess[s].closes = s
           /\ \A t \in Sessions : t # s => ~ Live(t)
           /\ cancel = 0 => \E r \in Requests : req[r].pc = "down"
           /\ ~ boot
<1>1. /\ s = stopped /\ s # 0 /\ s \notin chan /\ sess[s].cancelled = (cancel = 0)
      /\ sess[s].pc # "spawned" => sess[s].closes = s
      /\ \A t \in Sessions : t # s => ~ Live(t)
    BY Pools, Zenon DEF LifeInv, OneSession
<1>2. cancel = 0 => \E r \in Requests : req[r].pc = "down"
    BY Zenon DEF LifeInv, AtRest
<1>3. ~ boot
    BY <1>2, Zenon DEF LifeInv, Booting
<1> QED  BY <1>1, <1>2, <1>3, Zenon

\* The session goes on, at a point of its loop or before it.
LEMMA MoveLife ==
    ASSUME SessionTypes, LifeInv, NEW s \in Sessions, Live(s), OnlySession(s),
           sess'[s].pc \notin {"none", "ended", "spawned"}, sess'[s].closes = s,
           sess'[s].cancelled = sess[s].cancelled,
           SessionSame, UNCHANGED chan,
           \/ engine' = s /\ bind' = s /\ sess'[s].pc = "loop"
           \/ /\ UNCHANGED <<engine, bind>>
              /\ sess[s].pc \in Running => sess'[s].pc \in Running \/ (sess'[s].pc = "closing" /\ cancel = 0)
              /\ sess[s].pc \notin Running => sess'[s].pc \notin Running \cup {"closing"}
              /\ engine # 0 /\ cancel # 0 => sess[s].pc \in Running,
           \A r \in Requests : er'[r] = er[r],
           \A t \in Sessions : er'[t].pc # "idle" => t = s /\ sess'[s].pc = "netmap",
           \A r \in Requests : req[r].pc \in {"register", "commit", "relay"} \/ er[r].pc # "idle"
               => engine' = engine
    PROVE  LifeInv'
<1>1. /\ s = stopped /\ s # 0 /\ s \notin chan /\ sess[s].cancelled = (cancel = 0)
      /\ \A t \in Sessions : t # s => ~ Live(t)
      /\ cancel = 0 => \E r \in Requests : req[r].pc = "down"
      /\ ~ boot
    BY OwnStep, Zenon
<1>2. \A t \in Sessions : t # s => sess'[t] = sess[t] /\ sess'[t].pc \in {"none", "ended"}
    BY <1>1, Zenon DEF OnlySession, Live
<1>3. UNCHANGED <<disk, mem, boot, cancel, stopped, req>>
    BY Zenon DEF SessionSame
<1>4. OneSession'
    BY <1>1, <1>2, <1>3, Zenon DEF OneSession, Live
<1>5. Stopping' /\ AtRest' /\ Booting' /\ Recorded'
    BY <1>1, <1>3, Zenon DEF LifeInv, Stopping, AtRest, Booting, Recorded
<1>6. Engines'
    BY <1>1, <1>2, <1>3, Zenon DEF LifeInv, Engines, Running
<1>7. Calls'
    BY <1>1, <1>3 DEF LifeInv, Calls
<1> QED  BY <1>4, <1>5, <1>6, <1>7, Zenon DEF LifeInv

\* The session ends: nothing of it is live.
LEMMA EndLife ==
    ASSUME SessionTypes, LifeInv, NEW s \in Sessions, sess[s].pc \in {"begun", "closing"},
           OnlySession(s), sess'[s].pc = "ended", chan' = chan \cup {sess[s].closes},
           SessionSame, UNCHANGED <<engine, bind, er>>
    PROVE  LifeInv'
<1>1. /\ s = stopped /\ s # 0 /\ s \notin chan
      /\ \A t \in Sessions : t # s => ~ Live(t)
      /\ cancel = 0 => \E r \in Requests : req[r].pc = "down"
      /\ ~ boot
    BY OwnStep, Zenon DEF Live
<1>2. \A t \in Sessions : sess'[t].pc \in {"none", "ended"}
    BY <1>1, Zenon DEF OnlySession, Live
<1>3. UNCHANGED <<disk, mem, boot, cancel, stopped, req>>
    BY Zenon DEF SessionSame
<1>4. OneSession'
    BY <1>2, Zenon DEF OneSession, Live
<1>5. Stopping' /\ AtRest' /\ Booting' /\ Recorded'
    BY <1>1, <1>3, Zenon DEF LifeInv, Stopping, AtRest, Booting, Recorded
<1>6. engine = 0 \/ cancel = 0
    BY <1>1, Zenon DEF LifeInv, Engines, Running
<1>7. Engines'
    BY <1>2, <1>3, <1>6, Zenon DEF LifeInv, Engines, Running
<1>8. Calls'
    BY <1>1, <1>2, <1>3, <1>6, Zenon DEF LifeInv, Calls, Live
<1> QED  BY <1>4, <1>5, <1>7, <1>8, Zenon DEF LifeInv

LEMMA SessionLife ==
    ASSUME SessionTypes, LifeInv, NEW s \in Sessions, SessionStep(s) \/ NetMap(s)
    PROVE  LifeInv'
<1>1. \A t \in Sessions : er[t].pc # "idle" => t = s /\ sess[s].pc = "netmap"
    <2>1. Live(s)
        BY Zenon DEF SessionStep, SessionBegin, SessionEngine, NetMapServices, NetMapApplied, SessionClose,
               SessionEnd, NetMap, Live
    <2>2. \A t \in Sessions : t # s => ~ Live(t)
        BY <2>1, OwnStep, Zenon
    <2> QED  BY <2>2, Zenon DEF LifeInv, Calls, Live
<1>2. CASE SessionBegin(s)
    <2>1. /\ sess[s].pc = "spawned" /\ OnlySession(s)
          /\ sess'[s].pc = "begun" /\ sess'[s].closes = stopped /\ sess'[s].cancelled = sess[s].cancelled
          /\ SessionSame /\ UNCHANGED <<chan, engine, bind, er>>
        BY <1>2, SessionBeginEffect, Zenon
    <2>2. Live(s) /\ s = stopped /\ s # 0
        BY <2>1, OwnStep, Zenon DEF Live
    <2>3. ~ (engine # 0 /\ cancel # 0)
        BY <2>1, <2>2, Zenon DEF LifeInv, Engines, Running
    <2> QED  BY <1>1, <2>1, <2>2, <2>3, MoveLife, Zenon DEF Running
<1>3. CASE SessionEngine(s)
    <2>1. /\ sess[s].pc = "begun" /\ OnlySession(s)
          /\ \/ /\ sess'[s].pc = "loop" /\ RestOf(s) /\ engine' = s /\ bind' = s /\ UNCHANGED chan
             \/ /\ sess'[s].pc = "ended" /\ chan' = chan \cup {sess[s].closes} /\ UNCHANGED <<engine, bind>>
          /\ SessionSame /\ UNCHANGED er
        BY <1>3, SessionEngineEffect, Zenon
    <2>2. Live(s) /\ s = stopped /\ s # 0 /\ sess[s].closes = s
        BY <2>1, OwnStep, Zenon DEF Live
    <2>3. \A r \in Requests : req[r].pc \notin {"register", "commit", "relay"} /\ er[r].pc = "idle"
        BY <2>1, <2>2, Zenon DEF LifeInv, Calls, Engines, Running
    <2>4. CASE sess'[s].pc = "loop"
        BY <1>1, <2>1, <2>2, <2>3, <2>4, MoveLife, Zenon DEF RestOf
    <2>5. CASE sess'[s].pc = "ended"
        BY <2>1, <2>5, EndLife, Zenon
    <2> QED  BY <2>1, <2>4, <2>5, Zenon
<1>4. CASE NetMapServices(s) \/ NetMapApplied(s)
    <2>1. /\ \/ sess[s].pc = "netmap" /\ er[s].pc = "idle" /\ sess'[s].pc \in {"loop", "drop"}
             \/ sess[s].pc = "drop" /\ sess'[s].pc = "loop"
          /\ OnlySession(s) /\ RestOf(s)
          /\ SessionSame /\ UNCHANGED <<chan, engine, bind, er>>
        BY <1>4, ApplyEffect, Zenon
    <2>2. Live(s) /\ sess[s].closes = s
        BY <2>1, OwnStep, Zenon DEF Live
    <2> QED  BY <1>1, <2>1, <2>2, MoveLife, Zenon DEF Running, RestOf
<1>5. CASE SessionClose(s)
    <2>1. /\ sess[s].pc = "loop" /\ sess[s].cancelled /\ OnlySession(s)
          /\ sess'[s].pc = "closing" /\ sess'[s].cancelled = sess[s].cancelled
          /\ sess'[s].closes = sess[s].closes
          /\ SessionSame /\ UNCHANGED <<chan, engine, bind, er>>
        BY <1>5, SessionCloseEffect, Zenon
    <2>2. Live(s) /\ sess[s].closes = s /\ cancel = 0
        BY <2>1, OwnStep, Zenon DEF Live
    <2> QED  BY <1>1, <2>1, <2>2, MoveLife, Zenon DEF Running
<1>6. CASE SessionEnd(s)
    <2>1. /\ sess[s].pc = "closing" /\ OnlySession(s)
          /\ sess'[s].pc = "ended" /\ chan' = chan \cup {sess[s].closes}
          /\ SessionSame /\ UNCHANGED <<engine, bind, er>>
        BY <1>6, SessionEndEffect, Zenon
    <2> QED  BY <2>1, EndLife, Zenon
<1>7. CASE NetMap(s)
    <2>1. /\ sess[s].pc = "loop" /\ OnlySession(s)
          /\ sess'[s].pc = "netmap" /\ RestOf(s) /\ OnlyCall(s)
          /\ SessionSame /\ UNCHANGED <<chan, engine, bind>>
        BY <1>7, NetMapEffect, Zenon
    <2>2. Live(s) /\ sess[s].closes = s
        BY <2>1, OwnStep, Zenon DEF Live
    <2>3. /\ \A r \in Requests : er'[r] = er[r]
          /\ \A t \in Sessions : t # s => er'[t] = er[t]
        BY <2>1, ActorSorts, Zenon DEF OnlyCall
    <2> QED  BY <1>1, <2>1, <2>2, <2>3, MoveLife, Zenon DEF Running, RestOf
<1> QED  BY <1>2, <1>3, <1>4, <1>5, <1>6, <1>7, Zenon DEF SessionStep

LEMMA InitLife == Init => LifeInv
BY Defaults, ActorSorts, Zenon DEF Init, LifeInv, OneSession, Live, Stopping, AtRest, Booting, Engines, Running,
                            Calls, Recorded

LEMMA NextLife == Serial /\ SessionTypes /\ LifeInv /\ [Next]_vars => LifeInv'
<1> SUFFICES ASSUME Serial, SessionTypes, LifeInv, [Next]_vars PROVE LifeInv'
    BY Zenon
<1>1. CASE MaybeAutoUp
    <2>1. boot /\ boot' = FALSE /\ UNCHANGED <<svcVars, relayVars, req>>
        BY <1>1, Zenon DEF MaybeAutoUp
    <2>2. cancel = 0 /\ \A r \in Requests : req[r].pc = "idle" /\ er[r].pc = "idle"
        BY <2>1, ActorSorts, Zenon DEF LifeInv, Booting
    <2>3. CASE doUp
        BY <2>1, <2>2, <2>3, UpLife, Zenon
    <2>4. CASE UNCHANGED <<disk, mem, server, daemonVars, lost>>
        BY <2>1, <2>4, Zenon DEF LifeInv, OneSession, Live, Stopping, AtRest, Booting, Engines, Calls, Recorded,
                          daemonVars, relayVars
    <2> QED  BY <1>1, <2>3, <2>4, Zenon DEF MaybeAutoUp
<1>2. CASE Crash
    <2>1. (cancel # 0 \/ (boot /\ wasUp)) \in BOOLEAN
        BY Zenon
    <2> QED  BY <1>2, <2>1, FreshLife, Zenon DEF Crash
<1>3. ASSUME NEW r \in Requests, Up(r) PROVE LifeInv'
    <2>1. Ready(r) /\ doUp /\ UNCHANGED <<boot, svcVars, relayVars, req>>
        BY <1>3, Zenon DEF Up
    <2>2. ~ boot /\ \A q \in Requests : req[q].pc = "idle" /\ er[q].pc = "idle"
        BY <2>1, ReadyAlone, Zenon
    <2>3. boot' = FALSE
        BY <2>1, <2>2, Zenon DEF SessionTypes, TypeOK
    <2> QED  BY <2>1, <2>2, <2>3, UpLife, Zenon
<1>4. ASSUME NEW r \in Requests, NEW x \in BOOLEAN, DownBegin(r, x) PROVE LifeInv'
    BY <1>4, DownBeginLife, Zenon
<1>5. ASSUME NEW r \in Requests, DownEnd(r) PROVE LifeInv'
    BY <1>5, DownEndLife, Zenon
<1>6. ASSUME NEW r \in Requests, RotateBegin(r) \/ RotateStep(r) PROVE LifeInv'
    BY <1>6, RotateLife, Zenon
<1>7. ASSUME NEW a \in Actors, EnsureRelayStep(a) PROVE LifeInv'
    BY <1>7, EnsureRelayLife, Zenon
<1>8. ASSUME NEW s \in Sessions, NetMap(s) \/ SessionStep(s) PROVE LifeInv'
    BY <1>8, SessionLife, Zenon
<1>9. CASE UNCHANGED vars
    BY <1>9, Zenon DEF LifeInv, OneSession, Live, Stopping, AtRest, Booting, Engines, Calls, Recorded,
                vars, daemonVars, relayVars
<1> QED  BY <1>1, <1>2, <1>3, <1>4, <1>5, <1>6, <1>7, <1>8, <1>9, Zenon DEF Next

-----------------------------------------------------------------------------
(* SvcInv: Down finds the resolver, its OS entry and the receiver.         *)

LEMMA SvcKept ==
    ASSUME SessionTypes, SvcInv, UNCHANGED <<svc, open, stopped>>,
           \A t \in Sessions : sess'[t].pc = sess[t].pc /\ sess'[t].held = sess[t].held
    PROVE  SvcInv'
<1>1. stopped # 0 => stopped \in Sessions
    BY Zenon DEF SessionTypes, TypeOK
<1> QED  BY <1>1, Zenon DEF SvcInv

LEMMA FreshSvc ==
    ASSUME NEW up \in BOOLEAN, Fresh(up)
    PROVE  SvcInv'
<1>1. svc' = {} /\ open' = {}
    BY FreshEffect, Zenon
<1> QED  BY <1>1, Zenon DEF SvcInv

LEMMA UpSvc ==
    ASSUME SessionTypes, LifeInv, SvcInv, \A r \in Requests : req[r].pc = "idle", doUp, UNCHANGED svcVars
    PROVE  SvcInv'
<1>1. UNCHANGED <<svc, open>> /\ cancel = 0
    BY UpEffect, Zenon DEF svcVars
<1>2. \A s \in Sessions : ~ Live(s)
    BY <1>1, Zenon DEF LifeInv, AtRest
<1>3. svc = {} /\ open = {}
    <2>1. stopped # 0 => stopped \in Sessions
        BY Zenon DEF SessionTypes, TypeOK
    <2>2. svc = {}
        BY <1>2, <2>1, Zenon DEF SvcInv, Live, Running
    <2> QED  BY <1>2, <2>2, Zenon DEF SvcInv, Live
<1> QED  BY <1>1, <1>3, Zenon DEF SvcInv

LEMMA SessionSvc ==
    ASSUME SessionTypes, LifeInv, SvcInv, NEW s \in Sessions, SessionStep(s) \/ NetMap(s)
    PROVE  SvcInv'
<1>1. Live(s)
    BY Zenon DEF SessionStep, SessionBegin, SessionEngine, NetMapServices, NetMapApplied, SessionClose,
           SessionEnd, NetMap, Live
<1>2. s = stopped /\ s # 0 /\ (\A t \in Sessions : t # s => sess[t].pc \in {"none", "ended"})
    BY <1>1, OwnStep, Zenon DEF Live
<1>3. CASE sess[s].pc \in {"spawned", "begun"} /\ (SessionBegin(s) \/ SessionEngine(s))
    <2>1. OnlySession(s) /\ sess'[s].pc \in {"begun", "loop", "ended"} /\ UNCHANGED <<svc, open, stopped>>
        BY <1>3, SessionBeginEffect, SessionEngineEffect, Zenon DEF SessionSame
    <2>2. svc = {} /\ open \subseteq svc
        BY <1>2, <1>3, Zenon DEF SvcInv, Running
    <2> QED  BY <1>2, <2>1, <2>2, Zenon DEF SvcInv, OnlySession
<1>4. CASE NetMapServices(s) \/ NetMapApplied(s)
    <2>1. /\ sess[s].pc \in {"netmap", "drop"} /\ sess'[s].pc \in Running /\ OnlySession(s)
          /\ open \subseteq svc => open' \subseteq svc'
          /\ UNCHANGED stopped
        BY <1>4, ApplyEffect, Zenon DEF SessionSame, Running
    <2>2. open \subseteq svc
        BY <1>2, <2>1, Zenon DEF SvcInv
    <2> QED  BY <1>2, <2>1, <2>2, Zenon DEF SvcInv, OnlySession, Running
<1>5. CASE SessionClose(s)
    <2>1. /\ sess[s].pc = "loop" /\ sess'[s].pc = "closing" /\ sess'[s].held = svc /\ svc' = {}
          /\ OnlySession(s) /\ UNCHANGED <<open, stopped>>
        BY <1>5, SessionCloseEffect, Zenon DEF SessionSame
    <2>2. open \subseteq svc
        BY <1>2, <2>1, Zenon DEF SvcInv
    <2> QED  BY <1>2, <2>1, <2>2, Zenon DEF SvcInv, OnlySession
<1>6. CASE SessionEnd(s)
    <2>1. /\ sess[s].pc = "closing" /\ sess'[s].pc = "ended" /\ open' = open \ sess[s].held
          /\ OnlySession(s) /\ UNCHANGED <<svc, stopped>>
        BY <1>6, SessionEndEffect, Zenon DEF SessionSame
    <2>2. svc = {} /\ open' = {}
        BY <1>2, <2>1, Zenon DEF SvcInv, Running
    <2> QED  BY <1>2, <2>1, <2>2, Zenon DEF SvcInv, OnlySession
<1>7. CASE NetMap(s)
    <2>1. /\ sess[s].pc = "loop" /\ sess'[s].pc = "netmap"
          /\ OnlySession(s) /\ UNCHANGED <<svc, open, stopped>>
        BY <1>7, NetMapEffect, Zenon DEF SessionSame
    <2>2. open \subseteq svc
        BY <1>2, <2>1, Zenon DEF SvcInv
    <2> QED  BY <1>2, <2>1, <2>2, Zenon DEF SvcInv, OnlySession, Running
<1> QED  BY <1>3, <1>4, <1>5, <1>6, <1>7, Zenon DEF SessionStep, SessionBegin, SessionEngine

LEMMA InitSvc == Init => SvcInv
BY Zenon DEF Init, SvcInv

LEMMA NextSvc == Serial /\ SessionTypes /\ LifeInv /\ SvcInv /\ [Next]_vars => SvcInv'
<1> SUFFICES ASSUME Serial, SessionTypes, LifeInv, SvcInv, [Next]_vars PROVE SvcInv'
    BY Zenon
<1>1. CASE MaybeAutoUp
    <2>1. boot /\ UNCHANGED svcVars
        BY <1>1, Zenon DEF MaybeAutoUp
    <2>2. \A r \in Requests : req[r].pc = "idle"
        BY <2>1, Zenon DEF LifeInv, Booting
    <2>3. CASE doUp
        BY <2>1, <2>2, <2>3, UpSvc, Zenon
    <2>4. CASE UNCHANGED <<disk, mem, server, daemonVars, lost>>
        BY <2>1, <2>4, SvcKept, Zenon DEF daemonVars, svcVars
    <2> QED  BY <1>1, <2>3, <2>4, Zenon DEF MaybeAutoUp
<1>2. CASE Crash
    <2>1. (cancel # 0 \/ (boot /\ wasUp)) \in BOOLEAN
        BY Zenon
    <2> QED  BY <1>2, <2>1, FreshSvc, Zenon DEF Crash
<1>3. ASSUME NEW r \in Requests, Up(r) PROVE SvcInv'
    <2>1. Ready(r) /\ doUp /\ UNCHANGED svcVars
        BY <1>3, Zenon DEF Up
    <2> QED  BY <2>1, ReadyAlone, UpSvc, Zenon
<1>4. ASSUME NEW r \in Requests, NEW x \in BOOLEAN, DownBegin(r, x) PROVE SvcInv'
    <2>1. /\ OnlySession(cancel) /\ UNCHANGED <<svc, open, stopped>>
          /\ sess'[cancel].pc = sess[cancel].pc /\ sess'[cancel].held = sess[cancel].held
        BY <1>4, DownBeginEffect, Zenon
    <2> QED  BY <2>1, SvcKept, Zenon DEF OnlySession
<1>5. ASSUME NEW r \in Requests, DownEnd(r) PROVE SvcInv'
    <2>1. Fresh(TRUE) \/ UNCHANGED <<svc, open, stopped, sess>>
        BY <1>5, DownEndEffect, Zenon
    <2> QED  BY <2>1, FreshSvc, SvcKept, Zenon
<1>6. ASSUME NEW r \in Requests, RotateBegin(r) \/ RotateStep(r) PROVE SvcInv'
    <2>1. CASE RotateBegin(r)
        <3>1. /\ OnlySession(engine) /\ UNCHANGED <<svc, open, stopped>>
              /\ sess'[engine].pc = sess[engine].pc /\ sess'[engine].held = sess[engine].held
            BY <2>1, RotateBeginEffect, Zenon
        <3> QED  BY <3>1, SvcKept, Zenon DEF OnlySession
    <2>2. CASE RotateFails(r)
        <3>1. /\ OnlySession(req[r].s) /\ UNCHANGED <<svc, open, stopped>>
              /\ sess'[req[r].s].pc = sess[req[r].s].pc /\ sess'[req[r].s].held = sess[req[r].s].held
            BY <2>2, RotateFailsEffect, Zenon
        <3> QED  BY <3>1, SvcKept, Zenon DEF OnlySession
    <2>3. CASE RotateRegistered(r) \/ RotateCommit(r) \/ RotateRelay(r)
        <3>1. UNCHANGED <<svc, open, stopped, sess>>
            BY <2>3, RotateRegisteredEffect, RotateCommitEffect, RotateRelayEffect, Zenon DEF DaemonSame
        <3> QED  BY <3>1, SvcKept, Zenon
    <2> QED  BY <1>6, <2>1, <2>2, <2>3, Zenon DEF RotateStep
<1>7. ASSUME NEW a \in Actors, EnsureRelayStep(a) PROVE SvcInv'
    <2>1. DaemonSame
        BY <1>7, RelayKeptEffect, NewRelayEffect, DropRelayEffect, SetRelayEffect, Zenon DEF EnsureRelayStep
    <2> QED  BY <2>1, SvcKept, Zenon DEF DaemonSame
<1>8. ASSUME NEW s \in Sessions, NetMap(s) \/ SessionStep(s) PROVE SvcInv'
    BY <1>8, SessionSvc, Zenon
<1>9. CASE UNCHANGED vars
    BY <1>9, SvcKept, Zenon DEF vars, daemonVars, svcVars
<1> QED  BY <1>1, <1>2, <1>3, <1>4, <1>5, <1>6, <1>7, <1>8, <1>9, Zenon DEF Next

-----------------------------------------------------------------------------
(* KeysInv, when the state file of a rotation can be written.              *)

NoRotateFault == "rotsave" \notin Faults

\* A session that runs is the one cancel stops, unless Down has taken cancel.
LEMMA RunningSession ==
    ASSUME SessionTypes, LifeInv
    PROVE  /\ \A s \in Sessions : sess[s].pc \in Running => s = stopped /\ cancel \in {0, s}
           /\ \A r \in Requests : Rotating(r) => /\ cancel # 0 /\ cancel = stopped /\ cancel \in Sessions
                                                 /\ engine = cancel /\ sess[cancel].pc \in Running
<1>1. \A s \in Sessions : sess[s].pc \in Running => s = stopped /\ cancel \in {0, s}
    BY Zenon DEF LifeInv, OneSession, Stopping, Live, Running
<1>2. ASSUME NEW r \in Requests, Rotating(r)
      PROVE  /\ cancel # 0 /\ cancel = stopped /\ cancel \in Sessions
             /\ engine = cancel /\ sess[cancel].pc \in Running
    <2>1. cancel # 0 /\ engine = cancel
        BY <1>2, Zenon DEF LifeInv, Calls, Rotating
    <2> QED  BY <2>1, Zenon DEF LifeInv, Engines, SessionTypes, TypeOK
<1> QED  BY <1>1, <1>2, Zenon

\* The steps that change neither keys nor rotations.
LEMMA KeysKept ==
    ASSUME SessionTypes, LifeInv, KeysInv,
           mem'.key = mem.key, disk'.key = disk.key, UNCHANGED <<server, cancel, lost>>,
           \A r \in Requests : /\ Rotating(r)' => Rotating(r) /\ req'[r] = req[r]
                               /\ Rotating(r) => Rotating(r)' /\ req'[r] = req[r],
           \A t \in Sessions : sess'[t].pc \in Running => sess[t].pc \in Running /\ sess'[t].key = sess[t].key,
           \A r \in Requests : Rotating(r) => sess'[cancel].key = sess[cancel].key
    PROVE  KeysInv'
<1>1. \A r \in Requests : req[r].pc = "commit" => Rotating(r)
    BY Zenon DEF Rotating
<1>2. \A r \in Requests : req'[r].pc = "commit" => Rotating(r)'
    BY Zenon DEF Rotating
<1>3. \A r \in Requests : Rotating(r)' =>
         /\ req'[r].s = cancel' /\ req'[r].old = mem'.key /\ req'[r].new \in Keys
         /\ sess'[cancel'].key = req'[r].new
         /\ req'[r].pc = "commit" => server' = req'[r].new
    BY Zenon DEF KeysInv
<1>4. (\A r \in Requests : ~ Rotating(r)') =>
         \A s \in Sessions : sess'[s].pc \in Running => sess'[s].key = mem'.key
    BY Zenon DEF KeysInv
<1>5. (cancel' # 0 /\ \A r \in Requests : req'[r].pc # "commit") => lost' \/ server' = mem'.key
    BY <1>1, <1>2, Zenon DEF KeysInv
<1> QED  BY <1>3, <1>4, <1>5, Zenon DEF KeysInv, Rotating

\* Without a session up and without a rotation only the state file matters.
LEMMA KeysDown ==
    ASSUME mem'.key = disk'.key, cancel' = 0, \A r \in Requests : ~ Rotating(r)',
           \A t \in Sessions : sess'[t].pc \in Running => sess'[t].key = mem'.key
    PROVE  KeysInv'
BY Zenon DEF KeysInv, Rotating

LEMMA FreshKeys ==
    ASSUME NEW up \in BOOLEAN, Fresh(up), mem' = disk'
    PROVE  KeysInv'
<1>1. /\ cancel' = 0 /\ \A r \in Requests : req'[r].pc = "idle"
      /\ \A s \in Sessions : sess'[s].pc = "none"
    BY FreshEffect, Zenon
<1> QED  BY <1>1, KeysDown, Zenon DEF Rotating, Running

LEMMA UpKeys ==
    ASSUME SessionTypes, LifeInv, KeysInv, \A r \in Requests : req[r].pc = "idle", doUp, UNCHANGED req
    PROVE  KeysInv'
<1>1. cancel = 0 /\ server' = mem.key /\ mem'.key = mem.key /\ disk'.key = mem.key
    BY UpEffect, Zenon DEF KeysInv
<1>2. \A t \in Sessions : ~ Live(t)
    BY <1>1, Zenon DEF LifeInv, AtRest
<1>3. \A r \in Requests : ~ Rotating(r)'
    BY Zenon DEF Rotating
<1>4. \A t \in Sessions : sess'[t].pc \notin Running
    <2>1. CASE UNCHANGED sess
        BY <1>2, <2>1, Zenon DEF Live, Running
    <2>2. ASSUME NEW s \in Sessions, spawn(s)
          PROVE  \A t \in Sessions : sess'[t].pc \notin Running
        <3>1. OnlySession(s) /\ sess'[s].pc = "spawned"
            BY <2>2, SpawnEffect, Zenon
        <3> QED  BY <1>2, <3>1, Zenon DEF OnlySession, Live, Running
    <2> QED  BY <2>1, <2>2, UpEffect, Zenon DEF FreeSessions
<1> QED  BY <1>1, <1>3, <1>4, Zenon DEF KeysInv, Rotating

LEMMA DownKeys ==
    ASSUME Serial, SessionTypes, LifeInv, KeysInv, NEW r \in Requests,
           DownEnd(r) \/ \E x \in BOOLEAN : DownBegin(r, x)
    PROVE  KeysInv'
<1>1. \A q \in Requests : q = r
    BY Zenon DEF Serial
<1>2. CASE DownEnd(r)
    <2>1. CASE Fresh(TRUE) /\ mem' = disk'
        BY <2>1, FreshKeys, Zenon
    <2>2. CASE ~ (Fresh(TRUE) /\ mem' = disk')
        <3>1. /\ req[r].pc = "down" /\ disk'.key \in {disk.key, mem.key}
              /\ mem'.key = mem.key /\ req'[r].pc = "idle" /\ UNCHANGED <<cancel, sess>>
            BY <1>2, <2>2, DownEndEffect, Zenon
        <3>2. cancel' = 0
            BY <3>1, Zenon DEF LifeInv, Stopping
        <3>3. (\A q \in Requests : ~ Rotating(q)) /\ (\A q \in Requests : ~ Rotating(q)')
            BY <1>1, <3>1, Zenon DEF Rotating
        <3>4. mem'.key = disk'.key /\ \A t \in Sessions : sess'[t].pc \in Running => sess'[t].key = mem'.key
            BY <3>1, <3>3, Zenon DEF KeysInv
        <3> QED  BY <3>2, <3>3, <3>4, KeysDown, Zenon
    <2> QED  BY <2>1, <2>2, Zenon
<1>3. ASSUME NEW x \in BOOLEAN, DownBegin(r, x) PROVE KeysInv'
    <2>1. /\ Ready(r) /\ cancel' = 0 /\ OnlySession(cancel) /\ req'[r].pc = "down"
          /\ sess'[cancel].pc = sess[cancel].pc /\ sess'[cancel].key = sess[cancel].key
          /\ UNCHANGED <<disk, mem>>
        BY <1>3, DownBeginEffect, Zenon
    <2>2. (\A q \in Requests : ~ Rotating(q)) /\ (\A q \in Requests : ~ Rotating(q)')
        BY <1>1, <2>1, Zenon DEF Ready, Rotating
    <2>3. mem'.key = disk'.key /\ \A t \in Sessions : sess'[t].pc \in Running => sess'[t].key = mem'.key
        BY <2>1, <2>2, Zenon DEF KeysInv, OnlySession
    <2> QED  BY <2>1, <2>2, <2>3, KeysDown, Zenon
<1> QED  BY <1>2, <1>3, Zenon

LEMMA RotateKeys ==
    ASSUME Serial, NoRotateFault, SessionTypes, LifeInv, KeysInv, NEW r \in Requests,
           RotateBegin(r) \/ RotateStep(r)
    PROVE  KeysInv'
<1>1. \A q \in Requests : q = r
    BY Zenon DEF Serial
<1>2. CASE RotateBegin(r)
    <2>1. PICK k \in Keys :
             /\ Ready(r) /\ cancel # 0 /\ engine \in Sessions /\ sess'[engine].key = k
             /\ req'[r].pc = "register" /\ req'[r].s = engine
             /\ req'[r].old = mem.key /\ req'[r].new = k
             /\ UNCHANGED <<disk, mem, server, cancel, lost>>
        BY <1>2, RotateBeginEffect, Zenon
    <2>2. engine = cancel
        BY <2>1, Pools, Zenon DEF LifeInv, Engines, Stopping
    <2>3. \A q \in Requests : req[q].pc # "commit"
        BY <1>1, <2>1, Zenon DEF Ready
    <2> QED  BY <1>1, <2>1, <2>2, <2>3, Zenon DEF KeysInv, Rotating
<1>3. CASE RotateFails(r)
    <2>1. /\ req[r].pc = "register" /\ OnlySession(req[r].s)
          /\ sess'[req[r].s].key = IF sess[req[r].s].key = 0 THEN 0 ELSE req[r].old
          /\ sess'[req[r].s].pc = sess[req[r].s].pc
          /\ req'[r].pc = "idle"
          /\ UNCHANGED <<server, lost>> \/ lost' = TRUE
          /\ UNCHANGED <<disk, mem, cancel>>
        BY <1>3, RotateFailsEffect, Zenon
    <2>2. Rotating(r) /\ cancel # 0 /\ \A q \in Requests : req[q].pc # "commit"
        BY <1>1, <2>1, RunningSession, Zenon DEF Rotating
    <2>3. req[r].s = cancel /\ req[r].old = mem.key /\ sess[cancel].key # 0
        BY <2>2, Pools, Zenon DEF KeysInv
    <2>4. \A s \in Sessions : sess[s].pc \in Running => s = cancel
        BY <2>2, RunningSession, Zenon
    <2>5. \A s \in Sessions : sess'[s].pc \in Running => sess'[s].key = mem'.key
        BY <2>1, <2>3, <2>4, Zenon DEF OnlySession
    <2> QED  BY <1>1, <2>1, <2>2, <2>5 DEF KeysInv, Rotating
<1>4. CASE RotateRegistered(r)
    <2>1. /\ req[r].pc = "register" /\ server' = req[r].new
          /\ req'[r].pc = "commit" /\ req'[r].s = req[r].s
          /\ req'[r].old = req[r].old /\ req'[r].new = req[r].new
          /\ UNCHANGED <<disk, mem, cancel, sess>>
        BY <1>4, RotateRegisteredEffect, Zenon
    <2> QED  BY <1>1, <2>1, Zenon DEF KeysInv, Rotating
<1>5. CASE RotateCommit(r)
    <2>1. /\ req[r].pc = "commit" /\ mem'.key = req[r].new /\ disk' = mem'
          /\ req'[r].pc \in {"idle", "relay"}
          /\ UNCHANGED <<server, cancel, sess>>
        BY <1>5, RotateCommitEffect, Zenon DEF NoRotateFault
    <2>2. Rotating(r) /\ cancel # 0
        BY <2>1, RunningSession, Zenon DEF Rotating
    <2>3. server' = mem'.key /\ sess[cancel].key = mem'.key
        BY <2>1, <2>2, Zenon DEF KeysInv
    <2>4. \A s \in Sessions : sess[s].pc \in Running => s = cancel
        BY <2>2, RunningSession, Zenon
    <2> QED  BY <1>1, <2>1, <2>3, <2>4, Zenon DEF KeysInv, Rotating
<1>6. CASE RotateRelay(r)
    <2>1. req[r].pc = "relay" /\ req'[r].pc = "idle" /\ DaemonSame
        BY <1>6, RotateRelayEffect, Zenon
    <2> QED  BY <1>1, <2>1, KeysKept, Zenon DEF DaemonSame, Rotating
<1> QED  BY <1>2, <1>3, <1>4, <1>5, <1>6, Zenon DEF RotateStep

LEMMA SessionKeys ==
    ASSUME SessionTypes, LifeInv, KeysInv, NEW s \in Sessions, SessionStep(s) \/ NetMap(s)
    PROVE  KeysInv'
<1>1. SessionSame /\ OnlySession(s)
    BY SessionBeginEffect, SessionEngineEffect, ApplyEffect, SessionCloseEffect, SessionEndEffect, Zenon,
       NetMapEffect DEF SessionStep
<1>2. CASE NetMap(s) \/ NetMapServices(s) \/ NetMapApplied(s)
    <2>1. sess'[s].key = sess[s].key /\ sess[s].pc \in Running
        BY <1>2, NetMapEffect, ApplyEffect, Zenon DEF Running
    <2>2. \A t \in Sessions : sess'[t].key = sess[t].key /\ (t # s => sess'[t] = sess[t])
        BY <1>1, <2>1, Zenon DEF OnlySession
    <2>3. \A r \in Requests : Rotating(r) => sess'[cancel].key = sess[cancel].key
        BY <2>2, RunningSession, Zenon
    <2> QED  BY <1>1, <2>1, <2>2, <2>3, KeysKept, Zenon DEF SessionSame, Rotating
<1>3. CASE SessionBegin(s) \/ SessionClose(s) \/ SessionEnd(s)
    <2>1. sess'[s].pc \notin Running /\ sess[s].pc \in {"spawned", "loop", "closing"}
        BY <1>3, SessionBeginEffect, SessionCloseEffect, SessionEndEffect, Zenon DEF Running
    <2>2. \A r \in Requests : ~ Rotating(r)
        <3>1. Live(s)
            BY <2>1, Zenon DEF Live
        <3>2. s = stopped /\ sess[s].cancelled = (cancel = 0)
            BY <3>1, OwnStep, Zenon
        <3>3. sess[s].pc \notin Running \/ sess[s].cancelled
            BY <1>3, Zenon DEF SessionBegin, SessionClose, SessionEnd, Running
        <3> QED  BY <3>2, <3>3, RunningSession, Zenon
    <2> QED  BY <1>1, <2>1, <2>2, KeysKept, Zenon DEF SessionSame, OnlySession, Rotating
<1>4. CASE SessionEngine(s)
    <2>1. /\ sess[s].pc = "begun"
          /\ sess'[s].pc = "ended" \/ (sess'[s].pc = "loop" /\ sess'[s].key = mem.key)
        BY <1>4, SessionEngineEffect, Zenon
    <2>2. s = stopped
        BY <2>1, OwnStep, Zenon DEF Live
    <2>3. \A r \in Requests : ~ Rotating(r)
        BY <2>1, <2>2, RunningSession, Zenon DEF Running
    <2>4. \A t \in Sessions : sess'[t].pc \in Running => sess'[t].key = mem.key
        BY <1>1, <2>1, <2>3, Zenon DEF KeysInv, OnlySession, Running
    <2> QED  BY <1>1, <2>3, <2>4, Zenon DEF KeysInv, Rotating, SessionSame
<1> QED  BY <1>2, <1>3, <1>4, Zenon DEF SessionStep

LEMMA InitKeys == Init => KeysInv
BY Defaults, Zenon DEF Init, KeysInv, Rotating, Running

LEMMA NextKeys ==
    Serial /\ NoRotateFault /\ SessionTypes /\ LifeInv /\ KeysInv /\ [Next]_vars => KeysInv'
<1> SUFFICES ASSUME Serial, NoRotateFault, SessionTypes, LifeInv, KeysInv, [Next]_vars PROVE KeysInv'
    BY Zenon
<1>1. CASE MaybeAutoUp
    <2>1. boot /\ UNCHANGED req
        BY <1>1, Zenon DEF MaybeAutoUp
    <2>2. \A r \in Requests : req[r].pc = "idle"
        BY <2>1, Zenon DEF LifeInv, Booting
    <2>3. CASE doUp
        BY <2>1, <2>2, <2>3, UpKeys, Zenon
    <2>4. CASE UNCHANGED <<disk, mem, server, daemonVars, lost>>
        BY <2>1, <2>4, KeysKept, Zenon DEF daemonVars, Rotating
    <2> QED  BY <1>1, <2>3, <2>4, Zenon DEF MaybeAutoUp
<1>2. CASE Crash
    <2>1. (cancel # 0 \/ (boot /\ wasUp)) \in BOOLEAN
        BY Zenon
    <2> QED  BY <1>2, <2>1, FreshKeys, Zenon DEF Crash
<1>3. ASSUME NEW r \in Requests, Up(r) PROVE KeysInv'
    <2>1. Ready(r) /\ doUp /\ UNCHANGED req
        BY <1>3, Zenon DEF Up
    <2> QED  BY <2>1, ReadyAlone, UpKeys, Zenon
<1>4. ASSUME NEW r \in Requests, DownEnd(r) \/ \E x \in BOOLEAN : DownBegin(r, x) PROVE KeysInv'
    BY <1>4, DownKeys, Zenon
<1>5. ASSUME NEW r \in Requests, RotateBegin(r) \/ RotateStep(r) PROVE KeysInv'
    BY <1>5, RotateKeys, Zenon
<1>6. ASSUME NEW a \in Actors, EnsureRelayStep(a) PROVE KeysInv'
    <2>1. DaemonSame /\ UNCHANGED req
        BY <1>6, RelayKeptEffect, NewRelayEffect, DropRelayEffect, SetRelayEffect, Zenon DEF EnsureRelayStep
    <2> QED  BY <2>1, KeysKept, Zenon DEF DaemonSame, Rotating
<1>7. ASSUME NEW s \in Sessions, NetMap(s) \/ SessionStep(s) PROVE KeysInv'
    BY <1>7, SessionKeys, Zenon
<1>8. CASE UNCHANGED vars
    BY <1>8, KeysKept, Zenon DEF vars, daemonVars, Rotating
<1> QED  BY <1>1, <1>2, <1>3, <1>4, <1>5, <1>6, <1>7, <1>8, Zenon DEF Next

-----------------------------------------------------------------------------
(* RelayInv, when ensureRelay does not run during a rotation's relay swap. *)

\* One ensureRelay call at a time.
LEMMA OneInCall ==
    ASSUME Serial, SessionTypes, LifeInv, RelayInv, NEW a \in Actors, er[a].pc # "idle"
    PROVE  \A b \in Actors : b # a => er[b].pc = "idle"
<1> SUFFICES ASSUME NEW b \in Actors, b # a, er[b].pc # "idle" PROVE FALSE
    BY Zenon
<1>1. ~ (a \in Requests /\ b \in Requests)
    BY Zenon DEF Serial
<1>2. ~ (a \in Sessions /\ b \in Sessions)
    BY Zenon DEF LifeInv, Calls, OneSession, Live
<1>3. ~ (a \in Sessions /\ b \in Requests) /\ ~ (a \in Requests /\ b \in Sessions)
    BY Zenon DEF RelayInv, OneCall, RotationInRelay, NetMapInRelay
<1> QED  BY <1>1, <1>2, <1>3, Zenon DEF Actors

\* While ensureRelay runs, the session it is for runs too.
LEMMA CallRuns ==
    ASSUME SessionTypes, LifeInv, NEW a \in Actors,
           er[a].pc # "idle" \/ (a \in Requests /\ req[a].pc = "relay")
    PROVE  stopped \in Sessions /\ stopped # 0 /\ bind = stopped /\ sess[stopped].pc \in Running
<1>1. CASE a \in Sessions /\ er[a].pc # "idle"
    <2>1. sess[a].pc = "netmap"
        BY <1>1, Zenon DEF LifeInv, Calls
    <2>2. a = stopped /\ engine = a /\ a # 0
        BY <1>1, <2>1, Pools, Zenon DEF LifeInv, OneSession, Live, Engines, Running
    <2> QED  BY <1>1, <2>1, <2>2, Zenon DEF LifeInv, Engines, Running
<1>2. CASE a \in Requests
    <2>1. cancel # 0 /\ engine = cancel
        BY <1>2, Zenon DEF LifeInv, Calls
    <2> QED  BY <2>1, Zenon DEF LifeInv, Engines, SessionTypes, TypeOK
<1> QED  BY <1>1, <1>2, ActorSorts, Zenon DEF Actors

\* Steps that have nothing to do with the relay.
LEMMA RelayKeptInv ==
    ASSUME SessionTypes, LifeInv, RelayInv,
           mem'.key = mem.key, UNCHANGED <<stopped, relayCli, relays, cli, sender, er>>,
           \A r \in Requests : req'[r].rc = req[r].rc /\ (req'[r].pc = "relay" <=> req[r].pc = "relay"),
           \A r \in Requests : req[r].pc = "relay" => req'[r] = req[r],
           \A r \in Requests : er[r].pc # "idle" => req'[r].pc = "idle",
           \A t \in Sessions : /\ sess'[t].rc = sess[t].rc
                               /\ sess[t].pc = "closing" => sess'[t].pc = "closing"
                               /\ sess[t].pc \in Running => sess'[t].pc \in Running
    PROVE  RelayInv'
<1>1. stopped # 0 => stopped \in Sessions
    BY Zenon DEF SessionTypes, TypeOK
<1>2. Holders'
    BY <1>1, ZenonT(30) DEF RelayInv, Holders
<1>3. OneCall'
    BY Zenon DEF RelayInv, OneCall, RotationInRelay, NetMapInRelay
<1>4. OneRelayClient'
    BY DEF RelayInv, OneRelayClient
<1>5. \A a \in Actors : er'[a].pc # "idle" => InCall(a)'
    BY Zenon DEF RelayInv, InCall, InUse
<1>6. \A r \in Requests : req'[r].pc = "relay" => relayCli' = 0 /\ req'[r].url = relays'
    BY Zenon DEF RelayInv
<1>7. (relayCli' # 0 /\ \A a \in Actors : er'[a].pc = "idle") => InUse(relayCli)' /\ cli'[relayCli'].url = relays'
    BY Zenon DEF RelayInv, InUse
<1> QED  BY <1>2, <1>3, <1>4, <1>5, <1>6, <1>7, Zenon DEF RelayInv

\* A daemon with nothing of the relay in it.
LEMMA RelayIdle ==
    ASSUME relayCli' = 0, \A a \in Actors : er'[a].pc = "idle" /\ er'[a].new = 0,
           \A r \in Requests : req'[r].pc # "relay" /\ req'[r].rc = 0,
           \A s \in Sessions : sess'[s].rc # 0 => sess'[s].pc = "closing",
           OneRelayClient'
    PROVE  RelayInv'
<1>1. Holders'
    BY Zenon DEF Holders
<1>2. OneCall'
    BY ActorSorts, Zenon DEF OneCall, RotationInRelay
<1> QED  BY <1>1, <1>2, Zenon DEF RelayInv

LEMMA FreshRelay ==
    ASSUME NEW up \in BOOLEAN, Fresh(up)
    PROVE  RelayInv'
<1>1. /\ relayCli' = 0
      /\ \A s \in Sessions : sess'[s].rc = 0
      /\ \A c \in Clients : ~ cli'[c].open
      /\ \A a \in Actors : er'[a].pc = "idle" /\ er'[a].new = 0
      /\ \A r \in Requests : req'[r].pc = "idle" /\ req'[r].rc = 0
    BY FreshEffect, Zenon
<1>2. OneRelayClient'
    BY <1>1, Zenon DEF OneRelayClient
<1> QED  BY <1>1, <1>2, RelayIdle, Zenon

\* Nobody but Daemon.relayCli holds a client between calls.
LEMMA HoldersIdle ==
    ASSUME SessionTypes, RelayInv
    PROVE  /\ \A a \in Actors : er[a].pc # "made" => er[a].new = 0
           /\ \A r \in Requests : req[r].pc # "relay" => req[r].rc = 0
           /\ \A s \in Sessions : sess[s].pc # "closing" => sess[s].rc = 0
           /\ relayCli # 0 => stopped \in Sessions /\ sess[stopped].pc \in Running
BY Zenon DEF RelayInv, Holders, SessionTypes, TypeOK

LEMMA UpRelay ==
    ASSUME SessionTypes, LifeInv, RelayInv, \A r \in Requests : req[r].pc = "idle" /\ er[r].pc = "idle",
           doUp, UNCHANGED <<relayVars, req>>
    PROVE  RelayInv'
<1>1. cancel = 0 /\ UNCHANGED <<relayCli, cli, er, req>>
    BY UpEffect, Zenon DEF relayVars
<1>2. \A s \in Sessions : ~ Live(s)
    BY <1>1, Zenon DEF LifeInv, AtRest
<1>3. \A a \in Actors : er[a].pc = "idle" /\ er[a].new = 0
    BY <1>2, HoldersIdle, Zenon DEF LifeInv, Calls, Live, Actors
<1>4. /\ relayCli = 0 /\ (\A s \in Sessions : sess[s].rc = 0)
      /\ \A r \in Requests : req[r].rc = 0
    BY <1>2, HoldersIdle, Zenon DEF Live, Running
<1>5. \A c \in Clients : ~ cli[c].open
    BY <1>3, <1>4, Pools, Zenon DEF RelayInv, OneRelayClient
<1>6. \A s \in Sessions : sess'[s].rc = 0
    <2>1. CASE UNCHANGED sess
        BY <1>4, <2>1, Zenon
    <2>2. ASSUME NEW s \in Sessions, spawn(s)
          PROVE  \A t \in Sessions : sess'[t].rc = 0
        <3>1. OnlySession(s) /\ sess'[s].rc = 0
            BY <2>2, SpawnEffect, Zenon
        <3> QED  BY <1>4, <3>1, Zenon DEF OnlySession
    <2> QED  BY <2>1, <2>2, UpEffect, Zenon DEF FreeSessions
<1>7. OneRelayClient'
    BY <1>1, <1>5, Zenon DEF OneRelayClient
<1> QED  BY <1>1, <1>3, <1>4, <1>6, <1>7, RelayIdle, Zenon

LEMMA DownRelay ==
    ASSUME Serial, SessionTypes, LifeInv, RelayInv, NEW r \in Requests,
           DownEnd(r) \/ \E x \in BOOLEAN : DownBegin(r, x)
    PROVE  RelayInv'
<1>1. \A q \in Requests : q = r
    BY Zenon DEF Serial
<1>2. CASE DownEnd(r)
    <2>1. CASE Fresh(TRUE)
        BY <2>1, FreshRelay, Zenon
    <2>2. CASE ~ Fresh(TRUE)
        <3>1. /\ req[r].pc = "down" /\ mem'.key = mem.key /\ req'[r].pc = "idle" /\ req'[r].rc = 0
              /\ UNCHANGED <<stopped, sess, relayCli, relays, cli, sender, er>>
            BY <1>2, <2>2, DownEndEffect, Zenon
        <3>2. req[r].rc = 0
            BY <3>1, HoldersIdle, Zenon
        <3> QED  BY <1>1, <3>1, <3>2, RelayKeptInv, Zenon
    <2> QED  BY <2>1, <2>2, Zenon
<1>3. ASSUME NEW x \in BOOLEAN, DownBegin(r, x) PROVE RelayInv'
    <2>1. /\ Ready(r) /\ cancel \in Sessions /\ OnlySession(cancel)
          /\ req'[r].pc = "down" /\ req'[r].rc = 0
          /\ sess'[cancel].pc = sess[cancel].pc /\ sess'[cancel].rc = sess[cancel].rc
          /\ UNCHANGED <<mem, stopped, relayCli, relays, cli, sender, er>>
        BY <1>3, DownBeginEffect, Zenon
    <2>2. req[r].pc = "idle" /\ req[r].rc = 0 /\ er[r].pc = "idle"
        BY <2>1, HoldersIdle, Zenon DEF Ready
    <2>3. \A t \in Sessions : sess'[t].pc = sess[t].pc /\ sess'[t].rc = sess[t].rc
        BY <2>1, Zenon DEF OnlySession
    <2> QED  BY <1>1, <2>1, <2>2, <2>3, RelayKeptInv, Zenon
<1> QED  BY <1>2, <1>3, Zenon

LEMMA RotateRelays ==
    ASSUME Serial, NoRotateFault, ~ RelayRaces, SessionTypes, LifeInv, RelayInv, NEW r \in Requests,
           RotateBegin(r) \/ RotateStep(r)
    PROVE  RelayInv'
<1>1. \A q \in Requests : q = r
    BY Zenon DEF Serial
<1>2. CASE RotateBegin(r) \/ RotateFails(r) \/ RotateRegistered(r)
    <2>1. /\ req[r].pc \in {"idle", "register"} /\ er[r].pc = "idle"
          /\ req'[r].pc \in {"idle", "register", "commit"} /\ req'[r].rc \in {0, req[r].rc}
          /\ UNCHANGED <<mem, stopped, relayCli, relays, cli, sender, er>>
        <3>1. CASE RotateBegin(r)
            BY <3>1, RotateBeginEffect, Zenon DEF Ready
        <3>2. CASE RotateFails(r) \/ RotateRegistered(r)
            <4>1. req[r].pc = "register"
                BY <3>2, Zenon DEF RotateFails, RotateRegistered
            <4>2. er[r].pc = "idle"
                BY <4>1, Zenon DEF RelayInv, OneCall
            <4> QED  BY <3>2, <4>1, <4>2, RotateFailsEffect, RotateRegisteredEffect, Zenon
        <3> QED  BY <1>2, <3>1, <3>2, Zenon
    <2>2. req[r].rc = 0
        BY <2>1, HoldersIdle, Zenon
    <2>3. \A t \in Sessions : sess'[t].pc = sess[t].pc /\ sess'[t].rc = sess[t].rc
        BY <1>2, RotateBeginEffect, RotateFailsEffect, RotateRegisteredEffect, Zenon DEF OnlySession
    <2> QED  BY <1>1, <2>1, <2>2, <2>3, RelayKeptInv, Zenon
<1>3. CASE RotateCommit(r)
    <2>1. /\ req[r].pc = "commit" /\ ~ NetMapInRelay /\ relayCli' = 0
          /\ \/ req'[r].pc = "idle" /\ req'[r].rc = 0 /\ relayCli = 0
             \/ req'[r].pc = "relay" /\ req'[r].rc = relayCli /\ req'[r].url = relays
          /\ UNCHANGED <<sess, stopped, relays, cli, sender, er>>
        BY <1>3, RotateCommitEffect, Zenon DEF NoRotateFault
    <2>2. \A a \in Actors : er[a].pc = "idle" /\ er[a].new = 0
        BY <1>1, <2>1, HoldersIdle, Zenon DEF RelayInv, OneCall, NetMapInRelay, Actors
    <2>3. req[r].rc = 0
        BY <2>1, HoldersIdle, Zenon
    <2>4. OneRelayClient'
        BY <1>1, <2>1, <2>2, <2>3, Pools, Zenon DEF RelayInv, OneRelayClient
    <2>5. Holders'
        BY <1>1, <2>1, <2>2, Zenon DEF RelayInv, Holders
    <2>6. OneCall'
        BY <2>1, <2>2, ActorSorts, Zenon DEF OneCall, NetMapInRelay
    <2> QED  BY <1>1, <2>1, <2>2, <2>4, <2>5, <2>6, Zenon DEF RelayInv
<1>4. CASE RotateRelay(r)
    <2>1. /\ req[r].pc = "relay"
          /\ \A d \in Clients : d # req[r].rc => cli'[d] = cli[d]
          /\ \A d \in Clients : d = req[r].rc => ~ cli'[d].open
          /\ relays' = req[r].url /\ OnlyCall(r)
          /\ er'[r].pc = "decided" /\ er'[r].cur = relayCli /\ er'[r].bind = bind
          /\ er'[r].url = req[r].url /\ er'[r].new = 0
          /\ req'[r].pc = "idle" /\ req'[r].rc = 0
          /\ UNCHANGED <<sess, stopped, relayCli>>
        BY <1>4, RotateRelayEffect, Zenon DEF DaemonSame
    <2>2. relayCli = 0 /\ bind = stopped /\ r \in Actors
        BY <2>1, CallRuns, ActorSorts, Zenon DEF RelayInv
    <2>3. \A a \in Actors : er[a].pc = "idle" /\ er[a].new = 0
        BY <1>1, <2>1, HoldersIdle, Zenon DEF RelayInv, OneCall, RotationInRelay, NetMapInRelay, Actors
    <2>4. \A a \in Actors : a # r => er'[a].pc = "idle" /\ er'[a].new = 0
        BY <2>1, <2>3, Zenon DEF OnlyCall
    <2>5. OneRelayClient'
        BY <1>1, <2>1, <2>2, <2>3, Pools, Zenon DEF RelayInv, OneRelayClient
    <2>6. Holders'
        BY <1>1, <2>1, <2>2, <2>4, Zenon DEF RelayInv, Holders
    <2>7. OneCall'
        BY <1>1, <2>1, <2>4, ActorSorts, Zenon DEF OneCall, NetMapInRelay
    <2>8. InCall(r)'
        BY <2>1, <2>2, Zenon DEF InCall
    <2> QED  BY <1>1, <2>1, <2>2, <2>4, <2>5, <2>6, <2>7, <2>8, Zenon DEF RelayInv
<1> QED  BY <1>2, <1>3, <1>4, Zenon DEF RotateStep

\* ensureRelay itself.
LEMMA EnsureRelayRelays ==
    ASSUME Serial, SessionTypes, LifeInv, RelayInv, NEW a \in Actors, EnsureRelayStep(a)
    PROVE  RelayInv'
<1>1. er[a].pc # "idle" /\ DaemonSame /\ UNCHANGED <<relays, req>> /\ OnlyCall(a)
    BY RelayKeptEffect, NewRelayEffect, DropRelayEffect, SetRelayEffect, Zenon DEF EnsureRelayStep
<1>2. \A b \in Actors : b # a => er[b].pc = "idle" /\ er'[b] = er[b] /\ er[b].new = 0
    BY <1>1, OneInCall, HoldersIdle, Zenon DEF OnlyCall
<1>3. stopped \in Sessions /\ stopped # 0 /\ sess[stopped].pc \in Running
    BY <1>1, CallRuns, Zenon
<1>4. InCall(a) /\ er[a].cur = relayCli /\ er[a].bind = stopped /\ er[a].url = relays
    BY <1>1, Zenon DEF RelayInv, InCall
<1>5. \A r \in Requests : req[r].pc # "relay"
    BY <1>1, ActorSorts, Zenon DEF RelayInv, OneCall, RotationInRelay, NetMapInRelay, Actors, Serial
<1>6. UNCHANGED <<mem, sess, stopped>>
    BY <1>1, Zenon DEF DaemonSame
<1>7. OneCall'
    <2>1. \A b \in Actors : er'[b].pc # "idle" => er[b].pc # "idle"
        BY <1>1, <1>2, Zenon
    <2> QED  BY <1>1, <2>1, ActorSorts, Zenon DEF RelayInv, OneCall, RotationInRelay, NetMapInRelay
<1>8. CASE RelayKept(a)
    <2>1. /\ er[a].pc = "decided" /\ (Kept(a) \/ (Unwanted(a) /\ er[a].cur = 0))
          /\ er'[a].pc = "idle" /\ er'[a].new = 0 /\ UNCHANGED <<relayCli, cli, sender>>
        BY <1>8, RelayKeptEffect, Zenon
    <2>2. er[a].new = 0
        BY <2>1, HoldersIdle, Zenon
    <2>3. relayCli # 0 => InUse(relayCli) /\ cli[relayCli].url = relays
        BY <1>4, <2>1, Zenon DEF InCall, Kept
    <2>4. Holders'
        BY <1>1, <1>2, <1>6, <2>1, Zenon DEF RelayInv, Holders
    <2>5. OneRelayClient'
        BY <1>1, <1>2, <1>6, <2>1, <2>2, Zenon DEF RelayInv, OneRelayClient
    <2>6. relayCli' # 0 => InUse(relayCli)' /\ cli'[relayCli'].url = relays'
        BY <1>1, <1>6, <2>1, <2>3, Zenon DEF InUse
    <2> QED  BY <1>1, <1>2, <1>5, <1>7, <2>1, <2>4, <2>5, <2>6, Zenon DEF RelayInv
<1>9. CASE NewRelay(a)
    <2>1. PICK c \in FreeClients :
             /\ er[a].pc = "decided"
             /\ er'[a].pc = "made" /\ er'[a].new = c
             /\ er'[a].cur = er[a].cur /\ er'[a].bind = er[a].bind /\ er'[a].url = er[a].url
             /\ cli'[c].open /\ cli'[c].key = mem.key /\ cli'[c].url = er[a].url
             /\ \A d \in Clients : d # c /\ d # er[a].cur => cli'[d] = cli[d]
             /\ er[a].cur # 0 => ~ cli'[er[a].cur].open
             /\ \A t \in Sessions : sender'[t] = IF t = er[a].bind THEN c ELSE sender[t]
             /\ UNCHANGED relayCli
        BY <1>9, NewRelayEffect, ZenonT(30)
    <2>2. c \in Clients /\ er[a].new = 0
        BY <2>1, HoldersIdle, Zenon DEF FreeClients
    <2>3. Holders'
        BY <1>1, <1>2, <1>6, <2>1 DEF RelayInv, Holders
    <2>4. OneRelayClient'
        <3> SUFFICES ASSUME NEW d \in Clients, cli'[d].open, d # c
                     PROVE  \/ \E b \in Actors : d = er'[b].new
                            \/ \E s \in Sessions : d = sess'[s].rc
                            \/ \E r \in Requests : d = req'[r].rc
            BY <2>1, Zenon DEF OneRelayClient
        <3>1. d # er[a].cur /\ cli[d].open
            BY <2>1, Pools, Zenon
        <3>2. d # 0 /\ d # relayCli
            BY <1>4, <3>1, Pools, Zenon
        <3> QED  BY <1>1, <1>2, <1>6, <2>2, <3>1, <3>2, Zenon DEF RelayInv, OneRelayClient
    <2>5. InCall(a)'
        BY <1>1, <1>3, <1>4, <1>6, <2>1, Zenon DEF InCall, InUse
    <2> QED  BY <1>1, <1>2, <1>5, <1>7, <2>1, <2>3, <2>4, <2>5, Zenon DEF RelayInv
<1>10. CASE DropRelay(a)
    <2>1. /\ er[a].pc = "decided"
          /\ er'[a].pc = "made" /\ er'[a].new = er[a].new
          /\ er'[a].cur = er[a].cur /\ er'[a].bind = er[a].bind /\ er'[a].url = er[a].url
          /\ \A d \in Clients : d # er[a].cur => cli'[d] = cli[d]
          /\ er[a].cur # 0 => ~ cli'[er[a].cur].open
          /\ UNCHANGED relayCli
        BY <1>10, DropRelayEffect, Zenon
    <2>2. er[a].new = 0
        BY <2>1, HoldersIdle, Zenon
    <2>3. Holders'
        BY <1>1, <1>2, <1>6, <2>1, Zenon DEF RelayInv, Holders
    <2>4. OneRelayClient'
        <3> SUFFICES ASSUME NEW d \in Clients, cli'[d].open
                     PROVE  \/ \E s \in Sessions : d = sess'[s].rc
                            \/ \E r \in Requests : d = req'[r].rc
            BY Zenon DEF OneRelayClient
        <3>1. d # er[a].cur /\ cli[d].open
            BY <2>1, Pools, Zenon
        <3>2. d # 0 /\ d # relayCli
            BY <1>4, <3>1, Pools, Zenon
        <3>3. \A b \in Actors : er[b].new = 0
            BY <1>2, <2>2, Zenon
        <3> QED  BY <1>1, <1>6, <3>1, <3>2, <3>3, Zenon DEF RelayInv, OneRelayClient
    <2>5. InCall(a)'
        BY <1>1, <1>4, <1>6, <2>1, <2>2, Zenon DEF InCall
    <2> QED  BY <1>1, <1>2, <1>5, <1>7, <2>1, <2>3, <2>4, <2>5, Zenon DEF RelayInv
<1>11. CASE SetRelay(a)
    <2>1. /\ er[a].pc = "made" /\ relayCli' = er[a].new
          /\ er'[a].pc = "idle" /\ er'[a].new = 0 /\ UNCHANGED <<cli, sender>>
        BY <1>11, SetRelayEffect, Zenon
    <2>2. /\ relayCli # 0 => ~ cli[relayCli].open
          /\ er[a].new # 0 => InUse(er[a].new) /\ cli[er[a].new].url = relays
        BY <1>4, <2>1, Zenon DEF InCall
    <2>3. Holders'
        BY <1>1, <1>2, <1>3, <1>6, <2>1, Zenon DEF RelayInv, Holders
    <2>4. OneRelayClient'
        <3> SUFFICES ASSUME NEW d \in Clients, cli[d].open, d # er[a].new
                     PROVE  \/ \E s \in Sessions : d = sess[s].rc
                            \/ \E r \in Requests : d = req[r].rc
            BY <1>1, <1>6, <2>1, Zenon DEF OneRelayClient
        <3>1. d # relayCli /\ \A b \in Actors : d # er[b].new
            BY <1>2, <2>2, Pools, Zenon
        <3> QED  BY <3>1, Zenon DEF RelayInv, OneRelayClient
    <2>5. relayCli' # 0 => InUse(relayCli)' /\ cli'[relayCli'].url = relays'
        BY <1>1, <1>6, <2>1, <2>2, Zenon DEF InUse
    <2> QED  BY <1>1, <1>2, <1>5, <1>7, <2>1, <2>3, <2>4, <2>5, Zenon DEF RelayInv
<1> QED  BY <1>8, <1>9, <1>10, <1>11, Zenon DEF EnsureRelayStep

\* A session that is not in its loop, or is about to leave it, is in no call.
LEMMA Uncalled ==
    ASSUME SessionTypes, LifeInv, NEW s \in Sessions, Live(s),
           sess[s].pc \notin Running \/ (sess[s].pc = "loop" /\ cancel = 0)
    PROVE  /\ \A a \in Actors : er[a].pc = "idle"
           /\ \A r \in Requests : req[r].pc # "relay"
<1>1. s = stopped
    BY Zenon DEF LifeInv, OneSession
<1>2. CASE sess[s].pc \notin Running
    BY <1>1, <1>2, CallRuns, ActorSorts, Zenon
<1>3. CASE sess[s].pc = "loop" /\ cancel = 0
    <2>1. \A r \in Requests : req[r].pc # "relay" /\ er[r].pc = "idle"
        BY <1>3, Zenon DEF LifeInv, Calls
    <2>2. \A t \in Sessions : er[t].pc = "idle"
        <3> SUFFICES ASSUME NEW t \in Sessions, er[t].pc # "idle" PROVE FALSE
            BY Zenon
        <3>1. sess[t].pc = "netmap"
            BY Zenon DEF LifeInv, Calls
        <3> QED  BY <1>1, <1>3, <3>1, Zenon DEF LifeInv, OneSession, Live
    <2> QED  BY <2>1, <2>2, Zenon DEF Actors
<1> QED  BY <1>2, <1>3, Zenon

\* The steps of the session's goroutine.
LEMMA SessionRelays ==
    ASSUME Serial, ~ RelayRaces, SessionTypes, LifeInv, RelayInv, NEW s \in Sessions,
           SessionStep(s) \/ NetMap(s)
    PROVE  RelayInv'
<1>1. SessionSame /\ OnlySession(s)
    BY SessionBeginEffect, SessionEngineEffect, ApplyEffect, SessionCloseEffect, SessionEndEffect, Zenon,
       NetMapEffect DEF SessionStep
<1>2. UNCHANGED <<mem, stopped, req, cancel>> /\ \A t \in Sessions : t # s => sess'[t] = sess[t]
    BY <1>1, Zenon DEF SessionSame, OnlySession
<1>3. \A r \in Requests : er[r].pc # "idle" => req[r].pc = "idle"
    BY Zenon DEF RelayInv, OneCall
<1>4. CASE SessionBegin(s) \/ NetMapServices(s) \/ NetMapApplied(s)
    <2>1. /\ sess'[s].rc = sess[s].rc /\ sess[s].pc # "closing"
          /\ sess[s].pc \in Running => sess'[s].pc \in Running
          /\ UNCHANGED <<relayCli, relays, cli, sender, er>>
        BY <1>4, SessionBeginEffect, ApplyEffect, Zenon DEF Running, RestOf
    <2>2. \A t \in Sessions : /\ sess'[t].rc = sess[t].rc
                              /\ sess[t].pc = "closing" => sess'[t].pc = "closing"
                              /\ sess[t].pc \in Running => sess'[t].pc \in Running
        BY <1>2, <2>1, Zenon
    <2> QED  BY <1>2, <1>3, <2>1, <2>2, RelayKeptInv, Zenon
<1>5. CASE SessionEngine(s)
    <2>1. sess[s].pc = "begun" /\ UNCHANGED <<relayCli, cli, er>>
        BY <1>5, SessionEngineEffect, Zenon
    <2>2. Live(s) /\ s = stopped /\ sess[s].pc \notin Running
        BY <2>1, Zenon DEF Live, LifeInv, OneSession, Running
    <2>3. (\A a \in Actors : er[a].pc = "idle") /\ \A r \in Requests : req[r].pc # "relay"
        BY <2>2, Uncalled, Zenon
    <2>4. relayCli = 0 /\ sess[s].rc = 0
        BY <2>1, <2>2, HoldersIdle, Zenon
    <2>5. sess'[s].rc = 0
        BY <1>5, <2>4, SessionEngineEffect, Zenon DEF RestOf
    <2>6. \A t \in Sessions : sess'[t].rc = sess[t].rc /\ (sess'[t].rc # 0 => sess'[t].pc = "closing")
        BY <1>2, <2>4, <2>5, HoldersIdle, Zenon
    <2>7. OneRelayClient'
        BY <1>2, <2>1, <2>6 DEF RelayInv, OneRelayClient
    <2> QED  BY <1>2, <2>1, <2>3, <2>4, <2>6, <2>7, HoldersIdle, RelayIdle, Zenon
<1>6. CASE NetMap(s)
    <2>1. /\ sess[s].pc = "loop" /\ ~ RotationInRelay
          /\ sess'[s].pc = "netmap" /\ sess'[s].rc = sess[s].rc
          /\ er'[s].pc = "decided" /\ er'[s].cur = relayCli /\ er'[s].bind = bind
          /\ er'[s].url = relays' /\ er'[s].new = 0
          /\ \A b \in Actors : b # s => er'[b] = er[b]
          /\ UNCHANGED <<relayCli, cli, sender>>
        BY <1>6, NetMapEffect, Zenon DEF RestOf, OnlyCall
    <2>2. s = stopped /\ bind = stopped
        BY <2>1, Pools, Zenon DEF LifeInv, OneSession, Engines, Live, Running
    <2>3. \A r \in Requests : er[r].pc = "idle" /\ req[r].pc # "relay"
        BY <2>1, Zenon DEF RotationInRelay
    <2>4. \A t \in Sessions : er[t].pc = "idle"
        <3> SUFFICES ASSUME NEW t \in Sessions, er[t].pc # "idle" PROVE FALSE
            BY Zenon
        <3>1. sess[t].pc = "netmap"
            BY Zenon DEF LifeInv, Calls
        <3> QED  BY <2>1, <2>2, <3>1, Zenon DEF LifeInv, OneSession, Live
    <2>5. (\A a \in Actors : er[a].pc = "idle") /\ er[s].new = 0
        BY <2>3, <2>4, HoldersIdle, ActorSorts, Zenon DEF Actors
    <2>6. relayCli # 0 => InUse(relayCli)
        BY <2>5, Zenon DEF RelayInv
    <2>7. InCall(s)'
        BY <1>2, <2>1, <2>2, <2>6, Zenon DEF InCall, InUse
    <2>8. Holders'
        BY <1>2, <2>1, <2>2, ZenonT(30) DEF RelayInv, Holders, Running
    <2>9. OneRelayClient'
        <3>1. (\A b \in Actors : er'[b].new = er[b].new) /\ \A t \in Sessions : sess'[t].rc = sess[t].rc
            BY <1>2, <2>1, <2>5, Zenon
        <3> QED  BY <1>2, <2>1, <3>1 DEF RelayInv, OneRelayClient
    <2>10. \A r \in Requests : er'[r].pc = "idle"
        BY <2>1, <2>3, ActorSorts, Zenon
    <2>11. OneCall'
        BY <1>2, <2>3, <2>10, Zenon DEF OneCall, RotationInRelay
    <2>12. s \in Actors /\ er'[s].pc # "idle"
        BY <2>1, ActorSorts, Zenon
    <2>13. \A a \in Actors : er'[a].pc # "idle" => a = s
        BY <2>1, <2>5, Zenon
    <2> QED  BY <1>2, <2>3, <2>7, <2>8, <2>9, <2>11, <2>12, <2>13, Zenon DEF RelayInv
<1>7. CASE SessionClose(s)
    <2>1. /\ sess[s].pc = "loop" /\ sess[s].cancelled
          /\ sess'[s].pc = "closing" /\ sess'[s].rc = relayCli /\ relayCli' = 0
          /\ UNCHANGED <<cli, er>>
        BY <1>7, SessionCloseEffect, Zenon
    <2>2. Live(s) /\ cancel = 0
        BY <2>1, Zenon DEF Live, LifeInv, OneSession
    <2>3. (\A a \in Actors : er[a].pc = "idle") /\ \A r \in Requests : req[r].pc # "relay"
        BY <2>1, <2>2, Uncalled, Zenon
    <2>4. \A t \in Sessions : sess'[t].rc # 0 => sess'[t].pc = "closing"
        BY <1>2, <2>1, HoldersIdle, Zenon
    <2>5. sess[s].rc = 0
        BY <2>1, HoldersIdle, Zenon
    <2>6. OneRelayClient'
        BY <1>2, <2>1, <2>5, Pools DEF RelayInv, OneRelayClient
    <2> QED  BY <1>2, <2>1, <2>3, <2>4, <2>6, HoldersIdle, RelayIdle, Zenon
<1>8. CASE SessionEnd(s)
    <2>1. /\ sess[s].pc = "closing" /\ sess'[s].rc = 0
          /\ \A d \in Clients : d # sess[s].rc => cli'[d] = cli[d]
          /\ \A d \in Clients : d = sess[s].rc => ~ cli'[d].open
          /\ UNCHANGED <<relayCli, er>>
        BY <1>8, SessionEndEffect, Zenon
    <2>2. Live(s) /\ s = stopped /\ sess[s].pc \notin Running
        BY <2>1, Zenon DEF Live, LifeInv, OneSession, Running
    <2>3. (\A a \in Actors : er[a].pc = "idle") /\ \A r \in Requests : req[r].pc # "relay"
        BY <2>2, Uncalled, Zenon
    <2>4. relayCli = 0
        BY <2>2, HoldersIdle, Zenon
    <2>5. \A t \in Sessions : sess'[t].rc # 0 => sess'[t].pc = "closing"
        BY <1>2, <2>1, HoldersIdle, Zenon
    <2>6. OneRelayClient'
        <3> SUFFICES ASSUME NEW d \in Clients, cli'[d].open
                     PROVE  \E t \in Sessions : d = sess'[t].rc
            BY Zenon DEF OneRelayClient
        <3>1. d # sess[s].rc /\ cli[d].open
            BY <2>1, Zenon
        <3>2. d # relayCli /\ (\A a \in Actors : d # er[a].new) /\ \A r \in Requests : d # req[r].rc
            BY <2>3, <2>4, HoldersIdle, Pools, Zenon
        <3>3. PICK t \in Sessions : d = sess[t].rc
            BY <3>1, <3>2, Zenon DEF RelayInv, OneRelayClient
        <3> QED  BY <1>2, <3>1, <3>3, Zenon
    <2> QED  BY <1>2, <2>1, <2>3, <2>4, <2>5, <2>6, HoldersIdle, RelayIdle, Zenon
<1> QED  BY <1>4, <1>5, <1>6, <1>7, <1>8, Zenon DEF SessionStep

LEMMA InitRelay == Init => RelayInv
<1> SUFFICES ASSUME Init PROVE RelayInv
    BY Zenon
<1>1. /\ relayCli = 0 /\ \A a \in Actors : er[a].pc = "idle" /\ er[a].new = 0
      /\ \A r \in Requests : req[r].pc = "idle" /\ req[r].rc = 0
      /\ \A s \in Sessions : sess[s].rc = 0
      /\ \A c \in Clients : ~ cli[c].open
    BY Defaults, Zenon DEF Init
<1> QED  BY <1>1, ActorSorts, Zenon DEF RelayInv, Holders, OneCall, OneRelayClient, RotationInRelay

LEMMA NextRelay ==
    Serial /\ NoRotateFault /\ ~ RelayRaces /\ SessionTypes /\ LifeInv /\ RelayInv /\ [Next]_vars
        => RelayInv'
<1> SUFFICES ASSUME Serial, NoRotateFault, ~ RelayRaces, SessionTypes, LifeInv, RelayInv, [Next]_vars
             PROVE  RelayInv'
    BY Zenon
<1> DEFINE Same == UNCHANGED <<mem, stopped, sess, req, relayCli, relays, cli, sender, er>>
<1>0. ASSUME Same PROVE RelayInv'
    <2>1. \A r \in Requests : er[r].pc # "idle" => req[r].pc = "idle"
        BY Zenon DEF RelayInv, OneCall
    <2> QED  BY <1>0, <2>1, RelayKeptInv, Zenon
<1>1. CASE MaybeAutoUp
    <2>1. boot /\ UNCHANGED <<relayVars, req>>
        BY <1>1, Zenon DEF MaybeAutoUp
    <2>2. \A r \in Requests : req[r].pc = "idle" /\ er[r].pc = "idle"
        BY <2>1, ActorSorts, Zenon DEF LifeInv, Booting
    <2>3. CASE doUp
        BY <2>1, <2>2, <2>3, UpRelay, Zenon
    <2>4. CASE UNCHANGED <<disk, mem, server, daemonVars, lost>>
        BY <1>0, <2>1, <2>4, Zenon DEF daemonVars, relayVars
    <2> QED  BY <1>1, <2>3, <2>4, Zenon DEF MaybeAutoUp
<1>2. CASE Crash
    <2>1. (cancel # 0 \/ (boot /\ wasUp)) \in BOOLEAN
        BY Zenon
    <2> QED  BY <1>2, <2>1, FreshRelay, Zenon DEF Crash
<1>3. ASSUME NEW r \in Requests, Up(r) PROVE RelayInv'
    <2>1. Ready(r) /\ doUp /\ UNCHANGED <<relayVars, req>>
        BY <1>3, Zenon DEF Up
    <2> QED  BY <2>1, ReadyAlone, UpRelay, Zenon
<1>4. ASSUME NEW r \in Requests, DownEnd(r) \/ \E x \in BOOLEAN : DownBegin(r, x) PROVE RelayInv'
    BY <1>4, DownRelay, Zenon
<1>5. ASSUME NEW r \in Requests, RotateBegin(r) \/ RotateStep(r) PROVE RelayInv'
    BY <1>5, RotateRelays, Zenon
<1>6. ASSUME NEW a \in Actors, EnsureRelayStep(a) PROVE RelayInv'
    BY <1>6, EnsureRelayRelays, Zenon
<1>7. ASSUME NEW s \in Sessions, NetMap(s) \/ SessionStep(s) PROVE RelayInv'
    BY <1>7, SessionRelays, Zenon
<1>8. CASE UNCHANGED vars
    BY <1>0, <1>8, Zenon DEF vars, daemonVars, relayVars
<1> QED  BY <1>1, <1>2, <1>3, <1>4, <1>5, <1>6, <1>7, <1>8, Zenon DEF Next

-----------------------------------------------------------------------------
(* The theorems.                                                           *)

\* doUp saves DesiredUp before the session starts and Down clears it after: as
\* long as control requests do not overlap, a session that is up is in the
\* state file in every state a crash can find.
THEOREM UpIsRecorded == Serial /\ Spec => []UpSurvives
<1>1. SUFFICES ASSUME Serial PROVE Spec => []UpSurvives
    BY Zenon
<1>2. LifeInv => UpSurvives
    BY Zenon DEF LifeInv, Recorded, UpSurvives
<1>3. SessionTypes /\ LifeInv /\ [Next]_vars => LifeInv'
    BY <1>1, NextLife, Zenon
<1> QED  BY <1>2, <1>3, InitTypes, NextTypes, InitLife, PTL DEF Spec

\* RotateNodeKey leaves the device, the daemon, the state file and the
\* coordinator with one key, or undoes what it did, as long as control requests
\* do not overlap and the state file can be written.
THEOREM RotationIsAtomic == Serial /\ NoRotateFault /\ Spec => []KeysAgree
<1>1. SUFFICES ASSUME Serial, NoRotateFault PROVE Spec => []KeysAgree
    BY Zenon
<1>2. SessionTypes /\ LifeInv /\ KeysInv => KeysAgree
    <2> SUFFICES ASSUME SessionTypes, LifeInv, KeysInv, Quiet, cancel # 0, sess[cancel].pc = "loop"
                 PROVE  /\ sess[cancel].key = mem.key /\ mem.key = disk.key
                        /\ lost \/ server = mem.key
        BY Zenon DEF KeysAgree
    <2>1. cancel \in Sessions /\ \A r \in Requests : req[r].pc = "idle"
        BY Zenon DEF SessionTypes, TypeOK, Quiet
    <2> QED  BY <2>1, Zenon DEF KeysInv, Rotating, Running
<1>3. SessionTypes /\ LifeInv /\ [Next]_vars => LifeInv'
    BY <1>1, NextLife, Zenon
<1>4. SessionTypes /\ LifeInv /\ KeysInv /\ [Next]_vars => KeysInv'
    BY <1>1, NextKeys, Zenon
<1> QED  BY <1>2, <1>3, <1>4, InitTypes, NextTypes, InitLife, InitKeys, PTL DEF Spec

\* When besides ensureRelay does not run during a rotation's relay swap, no
\* relay client is left connected without an owner that closes or installs it.
THEOREM RelayClientsOwned == Serial /\ NoRotateFault /\ ~ RelayRaces /\ Spec => []OneRelayClient
<1>1. SUFFICES ASSUME Serial, NoRotateFault, ~ RelayRaces PROVE Spec => []OneRelayClient
    BY Zenon
<1>2. RelayInv => OneRelayClient
    BY Zenon DEF RelayInv
<1>3. SessionTypes /\ LifeInv /\ [Next]_vars => LifeInv'
    BY <1>1, NextLife, Zenon
<1>4. SessionTypes /\ LifeInv /\ RelayInv /\ [Next]_vars => RelayInv'
    BY <1>1, NextRelay, Zenon
<1> QED  BY <1>2, <1>3, <1>4, InitTypes, NextTypes, InitLife, InitRelay, PTL DEF Spec

\* Then the client in use is open, for the last netmap's relay, with the key the
\* daemon has now, and is the one the session's socket sends through.
THEOREM RelayFollowsRotation == Serial /\ NoRotateFault /\ ~ RelayRaces /\ Spec => []RelayCurrent
<1>1. SUFFICES ASSUME Serial, NoRotateFault, ~ RelayRaces PROVE Spec => []RelayCurrent
    BY Zenon
<1>2. SessionTypes /\ LifeInv /\ RelayInv => RelayCurrent
    <2> SUFFICES ASSUME SessionTypes, LifeInv, RelayInv, Quiet, cancel # 0, relayCli # 0
                 PROVE  /\ cli[relayCli] = [open |-> TRUE, key |-> mem.key, url |-> relays]
                        /\ sender[cancel] = relayCli
        BY Zenon DEF RelayCurrent
    <2>1. InUse(relayCli) /\ cli[relayCli].url = relays
        BY Zenon DEF RelayInv, Quiet
    <2>2. cancel = stopped
        BY Zenon DEF LifeInv, Stopping
    <2>3. cli[relayCli] \in RelayClients
        BY Zenon DEF SessionTypes, TypeOK
    <2>4. cli[relayCli] = [open |-> TRUE, key |-> mem.key, url |-> relays]
        BY <2>1, <2>3, Zenon DEF InUse, RelayClients
    <2> QED  BY <2>1, <2>2, <2>4, Zenon DEF InUse
<1>3. SessionTypes /\ LifeInv /\ [Next]_vars => LifeInv'
    BY <1>1, NextLife, Zenon
<1>4. SessionTypes /\ LifeInv /\ RelayInv /\ [Next]_vars => RelayInv'
    BY <1>1, NextRelay, Zenon
<1> QED  BY <1>2, <1>3, <1>4, InitTypes, NextTypes, InitLife, InitRelay, PTL DEF Spec

\* And after Down nothing is left of the session: no goroutine, engine, service
\* or connected relay client.
THEOREM DownLeavesNothing == Serial /\ NoRotateFault /\ ~ RelayRaces /\ Spec => []DownReleases
<1>1. SUFFICES ASSUME Serial, NoRotateFault, ~ RelayRaces PROVE Spec => []DownReleases
    BY Zenon
<1>2. SessionTypes /\ LifeInv /\ SvcInv /\ RelayInv => DownReleases
    <2> SUFFICES ASSUME SessionTypes, LifeInv, SvcInv, RelayInv, Quiet, cancel = 0
                 PROVE  /\ \A s \in Sessions : sess[s].pc \in {"none", "ended"}
                        /\ engine = 0
                        /\ open = {} /\ svc = {}
                        /\ \A c \in Clients : ~ cli[c].open
        BY Zenon DEF DownReleases
    <2>1. (\A r \in Requests : req[r].pc = "idle") /\ \A a \in Actors : er[a].pc = "idle"
        BY Zenon DEF Quiet
    <2>2. engine = 0 /\ \A s \in Sessions : sess[s].pc \in {"none", "ended"}
        BY <2>1, Zenon DEF LifeInv, AtRest, Live
    <2>3. (\A s \in Sessions : sess[s].pc # "closing") /\ (stopped \in Sessions => sess[stopped].pc \notin Running)
        BY <2>2, Zenon DEF Running
    <2>4. stopped \in Sessions \cup {0}
        BY Zenon DEF SessionTypes, TypeOK
    <2>5. svc = {} /\ open = {}
        BY <2>3, <2>4, Zenon DEF SvcInv
    <2>6. relayCli = 0 /\ (\A a \in Actors : er[a].new = 0) /\ (\A r \in Requests : req[r].rc = 0)
          /\ \A s \in Sessions : sess[s].rc = 0
        BY <2>1, <2>3, HoldersIdle, Zenon
    <2>7. \A c \in Clients : ~ cli[c].open
        BY <2>6, Pools, Zenon DEF RelayInv, OneRelayClient
    <2> QED  BY <2>2, <2>5, <2>7, Zenon
<1>3. SessionTypes /\ LifeInv /\ [Next]_vars => LifeInv'
    BY <1>1, NextLife, Zenon
<1>4. SessionTypes /\ LifeInv /\ SvcInv /\ [Next]_vars => SvcInv'
    BY <1>1, NextSvc, Zenon
<1>5. SessionTypes /\ LifeInv /\ RelayInv /\ [Next]_vars => RelayInv'
    BY <1>1, NextRelay, Zenon
<1> QED  BY <1>2, <1>3, <1>4, <1>5, InitTypes, NextTypes, InitLife, InitSvc, InitRelay, PTL DEF Spec
=============================================================================
