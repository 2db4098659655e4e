--------------------------- MODULE ConnMgrProofs ---------------------------
(***************************************************************************)
(* Proofs about path negotiation, for any number of session epochs and     *)
(* faults: every variable keeps its type, no ICE agent is leaked, and a    *)
(* candidate never meets the agent of another session.                     *)
(***************************************************************************)
EXTENDS ConnMgr, SequenceTheorems, TLAPS

\* Where a negotiation has not sent its offer or answer.
Early == {"none", "start", "attach", "exchange"}

\* What holds of a peerConn p, the negotiation l of session s and its agent a on
\* one device: an open agent is attached or about to be; a negotiation that has
\* not begun, or has given up, has none open; the agent in the peerConn has been
\* attached, is closed when it is that of another session, and is that of the
\* session while the session's negotiation goes on.
Slot(p, s, l, a) ==
    /\ IsOpen(a) => p.agent = s \/ l = "attach"
    /\ l = "none" => a.st = "none" /\ ~ a.local /\ a.owes = {}
    /\ l = "start" => a.st = "none"
    /\ l \in {"sleep", "done"} => ~ IsOpen(a)
    /\ p.agent = s => l \notin {"none", "start", "attach"}
    /\ p.agent = s /\ p.session # s => ~ IsOpen(a)
    /\ p.session = s /\ l \in {"exchange", "wait", "dial"} => p.agent = s

Slots == \A n \in Nodes, s \in Sessions : Slot(peer[n], s, run[n][s], agent[n][s])

\* The session epochs in use were taken from the clock.
Epochs ==
    /\ \A n \in Nodes : peer[n].session <= clock
    /\ \A n \in Nodes, s \in Sessions : s > clock => run[n][s] = "none"

\* The responder never retries, so its peerConn never holds an older agent.
Responder ==
    /\ peer[2].agent \in {0, peer[2].session}
    /\ \A s \in Sessions : run[2][s] # "sleep"

\* The initiator sent the offer of session s, having attached the session's agent.
Backed(s) == run[1][s] \notin Early /\ (peer[1].session = s => peer[1].agent = s)

\* What the responder negotiates was offered.
Offered == \A s \in Sessions : run[2][s] # "none" => Backed(s)

\* What may be on its way to the initiator, and to the responder.
ToInitiator(m) ==
    /\ m.kind # "offer" /\ m.session <= clock
    /\ m.kind = "candidate" => run[2][m.session] # "none"
ToResponder(m) ==
    /\ m.session <= clock
    /\ m.kind = "offer" => run[2][m.session] = "none" /\ Backed(m.session)

\* ... and an offer is there at most once.
Signals ==
    /\ \A i \in 1 .. Len(sig[1]) : ToInitiator(sig[1][i])
    /\ \A i \in 1 .. Len(sig[2]) : ToResponder(sig[2][i])
    /\ \A i, j \in 1 .. Len(sig[2]) :
          i # j /\ sig[2][i].kind = "offer" /\ sig[2][j].kind = "offer"
              => sig[2][i].session # sig[2][j].session

NegotiationInv == TypeOK /\ Slots /\ Epochs /\ Responder /\ Offered /\ Signals

-----------------------------------------------------------------------------
(* Types.                                                                  *)

\* Replacing what a device holds for one session.
LEMMA Update ==
    ASSUME NEW T, NEW f \in [Nodes -> [Sessions -> T]],
           NEW n \in Nodes, NEW s \in Sessions, NEW v \in T
    PROVE  /\ [f EXCEPT ![n][s] = v] \in [Nodes -> [Sessions -> T]]
           /\ \A m \in Nodes, t \in Sessions :
                 [f EXCEPT ![n][s] = v][m][t] = IF m = n /\ t = s THEN v ELSE f[m][t]
BY Zenon

\* What Shut and teardown return are agents again.
LEMMA ShutType ==
    ASSUME NEW a \in Agents
    PROVE  Shut(a) \in Agents
BY Zenon DEF Shut, Agents

\* So is an agent one of whose marks has been set.
LEMMA RemoteType ==
    ASSUME NEW a \in Agents, NEW b \in BOOLEAN
    PROVE  [a EXCEPT !.remote = b] \in Agents
BY Zenon DEF Agents

\* The peerConns the handlers make.
LEMMA PeerTypes ==
    /\ NoPeer \in PeerConns
    /\ \A s \in Sessions : [NoPeer EXCEPT !.session = s] \in PeerConns
    /\ \A p \in PeerConns : \A b \in BOOLEAN : [p EXCEPT !.pending = b] \in PeerConns
<1> USE ConnMgrAssumption
<1>1. Sessions \cup {0} \subseteq 0 .. MaxSession
    BY DEF Sessions
<1>2. NoPeer \in PeerConns
    BY <1>1, FALSE \in BOOLEAN, Zenon DEF NoPeer, PeerConns
<1>3. ASSUME NEW s \in Sessions PROVE [NoPeer EXCEPT !.session = s] \in PeerConns
    BY <1>1, <1>2, Zenon DEF PeerConns
<1>4. ASSUME NEW p \in PeerConns, NEW b \in BOOLEAN PROVE [p EXCEPT !.pending = b] \in PeerConns
    BY Zenon DEF PeerConns
<1> QED  BY <1>2, <1>3, <1>4, Zenon

LEMMA TeardownType ==
    ASSUME TypeOK, NEW n \in Nodes
    PROVE  teardown(n, agent) \in [Nodes -> [Sessions -> Agents]]
<1>1. CASE peer[n].agent = 0
    BY <1>1, Zenon DEF teardown, TypeOK
<1>2. CASE peer[n].agent # 0
    <2>1. peer[n].agent \in Sessions
        BY <1>2, ConnMgrAssumption DEF TypeOK, PeerConns, Sessions
    <2>2. Shut(agent[n][peer[n].agent]) \in Agents
        BY <2>1, ShutType, Zenon DEF TypeOK
    <2> QED  BY <1>2, <2>1, <2>2, Zenon DEF teardown, TypeOK
<1> QED  BY <1>1, <1>2, Zenon

LEMMA FaultType ==
    ASSUME TypeOK, NEW kind, Fault(kind) \/ NoFault
    PROVE  faults' \in 0 .. MaxFaults
BY ConnMgrAssumption DEF Fault, NoFault, TypeOK

LEMMA StartType ==
    ASSUME TypeOK, NEW n \in Nodes, NEW s, startInitiator(n, s)
    PROVE  /\ clock' \in 0 .. MaxSession
           /\ peer' \in [Nodes -> PeerConns]
           /\ run' \in [Nodes -> [Sessions -> Labels]]
<1>1. s \in 0 .. MaxSession
    BY ConnMgrAssumption DEF startInitiator, Sessions
<1>2. [NoPeer EXCEPT !.session = s] \in PeerConns
    BY PeerTypes, Zenon DEF startInitiator
<1> QED  BY <1>1, <1>2, Zenon DEF startInitiator, TypeOK, Labels

\* Every step keeps the types.
LEMMA TypeStep == TypeOK /\ [Next]_vars => TypeOK'
<1> SUFFICES ASSUME TypeOK, [Next]_vars PROVE TypeOK'
    BY Zenon
<1> USE ConnMgrAssumption
<1>1. ASSUME NEW n \in Nodes, NEW view \in {"absent", "offline", "online"}, SetPeers(n, view)
      PROVE  TypeOK'
    <2>1. agent' \in [Nodes -> [Sessions -> Agents]]
        BY <1>1, TeardownType, Zenon DEF SetPeers, TypeOK
    <2>2. faults' \in 0 .. MaxFaults
        BY <1>1, FaultType, Zenon DEF SetPeers
    <2>3. /\ clock' \in 0 .. MaxSession
          /\ peer' \in [Nodes -> PeerConns]
          /\ run' \in [Nodes -> [Sessions -> Labels]]
        <3>1. CASE startInitiator(n, clock + 1)
            BY <3>1, StartType, Zenon
        <3>2. CASE /\ peer' \in {peer, [peer EXCEPT ![n] = NoPeer]}
                   /\ UNCHANGED <<clock, run>>
            BY <3>2, PeerTypes, Zenon DEF TypeOK
        <3> QED  BY <1>1, <3>1, <3>2, Zenon DEF SetPeers
    <2>4. path' \in [Nodes -> {"unknown", "none", "connecting", "direct"}]
        BY <1>1, Zenon DEF SetPeers, TypeOK
    <2> QED  BY <1>1, <2>1, <2>2, <2>3, <2>4, Zenon DEF SetPeers, TypeOK
<1>2. ASSUME NEW n \in Nodes, watchRoaming(n)
      PROVE  TypeOK'
    <2>1. agent' \in [Nodes -> [Sessions -> Agents]]
        BY <1>2, TeardownType, Zenon DEF watchRoaming, Restart, TypeOK
    <2>2. faults' \in 0 .. MaxFaults
        BY <1>2, FaultType, Zenon DEF watchRoaming
    <2>3. /\ clock' \in 0 .. MaxSession
          /\ peer' \in [Nodes -> PeerConns]
          /\ run' \in [Nodes -> [Sessions -> Labels]]
        <3>1. CASE startInitiator(n, clock + 1)
            BY <3>1, StartType, Zenon
        <3>2. CASE peer' = [peer EXCEPT ![n] = NoPeer] /\ UNCHANGED <<clock, run>>
            BY <3>2, PeerTypes, Zenon DEF TypeOK
        <3> QED  BY <1>2, <3>1, <3>2, Zenon DEF watchRoaming, Restart
    <2>4. path' \in [Nodes -> {"unknown", "none", "connecting", "direct"}]
        BY <1>2, Zenon DEF watchRoaming, Restart, onPath, TypeOK
    <2> QED  BY <1>2, <2>1, <2>2, <2>3, <2>4, Zenon DEF watchRoaming, Restart, TypeOK
<1>3. ASSUME NEW n \in Nodes, Close(n)
      PROVE  TypeOK'
    <2>1. agent' \in [Nodes -> [Sessions -> Agents]] /\ faults' \in 0 .. MaxFaults
        BY <1>3, TeardownType, FaultType, Zenon DEF Close
    <2> QED  BY <1>3, <2>1, PeerTypes, Zenon DEF Close, TypeOK
<1>4. ASSUME NEW n \in Nodes, Crash(n)
      PROVE  TypeOK'
    <2>1. faults' \in 0 .. MaxFaults
        BY <1>4, FaultType, Zenon DEF Crash
    <2>2. \A s \in Sessions : [Shut(agent[n][s]) EXCEPT !.owes = {}] \in Agents
        <3> TAKE s \in Sessions
        <3>1. Shut(agent[n][s]) \in Agents
            BY ShutType, Zenon DEF TypeOK
        <3> QED  BY <3>1, Zenon DEF Agents
    <2>3. agent' \in [Nodes -> [Sessions -> Agents]]
        BY <1>4, <2>2, Zenon DEF Crash, TypeOK
    <2>4. run' \in [Nodes -> [Sessions -> Labels]]
        BY <1>4, Zenon DEF Crash, TypeOK, Labels
    <2> QED  BY <1>4, <2>1, <2>3, <2>4, PeerTypes, Zenon DEF Crash, TypeOK
<1>5. ASSUME NEW n \in Nodes, BindOpen(n) \/ BindClose(n)
      PROVE  TypeOK'
    <2>1. faults' \in 0 .. MaxFaults
        BY <1>5, FaultType, Zenon DEF BindOpen, BindClose, TypeOK
    <2> QED  BY <1>5, <2>1, Zenon DEF BindOpen, BindClose, TypeOK
<1>6. ASSUME NEW n \in Nodes, receiveSignals(n)
      PROVE  TypeOK'
    <2> DEFINE m == Head(sig[n])
    <2>1. m \in Envelopes /\ sig' \in [Nodes -> Seq(Envelopes)]
        <3>1. sig[n] \in Seq(Envelopes) /\ sig[n] # <<>>
            BY <1>6, Zenon DEF receiveSignals, TypeOK
        <3>2. m \in Envelopes /\ Tail(sig[n]) \in Seq(Envelopes)
            BY <3>1, HeadTailProperties, Zenon
        <3> QED  BY <1>6, <3>2, Zenon DEF receiveSignals, TypeOK
    <2>2. m.session \in Sessions
        BY <2>1, Zenon DEF Envelopes
    <2>3. HandleOffer(n, m.session) \/ HandleAnswer(n, m.session) \/ HandleCandidate(n, m.session)
        BY <1>6, Zenon DEF receiveSignals
    <2> HIDE DEF m
    <2>4. CASE HandleOffer(n, m.session)
        <3>1. agent' \in [Nodes -> [Sessions -> Agents]]
            BY <2>4, TeardownType, ZenonT(30) DEF HandleOffer, TypeOK
        <3>2. peer' \in [Nodes -> PeerConns] /\ run' \in [Nodes -> [Sessions -> Labels]]
            <4>1. [NoPeer EXCEPT !.session = m.session] \in PeerConns
                BY <2>2, PeerTypes, Zenon
            <4>2. "start" \in Labels
                BY Zenon DEF Labels
            <4>3. \/ UNCHANGED <<peer, run>>
                  \/ /\ peer' = [peer EXCEPT ![n] = [NoPeer EXCEPT !.session = m.session]]
                     /\ run' = [run EXCEPT ![n][m.session] = "start"]
                BY <2>4, Zenon DEF HandleOffer
            <4>4. [run EXCEPT ![n][m.session] = "start"] \in [Nodes -> [Sessions -> Labels]]
                BY <2>2, <4>2, Update, Zenon DEF TypeOK
            <4> QED  BY <4>1, <4>3, <4>4, ZenonT(30) DEF TypeOK
        <3>3. path' \in [Nodes -> {"unknown", "none", "connecting", "direct"}]
            BY <2>4, Zenon DEF HandleOffer, onPath, TypeOK
        <3> QED  BY <1>6, <2>1, <2>4, <3>1, <3>2, <3>3, Zenon DEF receiveSignals, HandleOffer, TypeOK
    <2>5. CASE HandleAnswer(n, m.session)
        BY <1>6, <2>1, <2>2, <2>5, Zenon DEF receiveSignals, HandleAnswer, TypeOK, Labels
    <2>6. CASE HandleCandidate(n, m.session)
        <3>1. peer' \in [Nodes -> PeerConns]
            <4>1. [peer[n] EXCEPT !.pending = TRUE] \in PeerConns
                BY PeerTypes, Zenon DEF TypeOK
            <4> QED  BY <2>6, <4>1, Zenon DEF HandleCandidate, TypeOK
        <3>2. agent' \in [Nodes -> [Sessions -> Agents]]
            <4>1. CASE UNCHANGED agent
                BY <4>1, Zenon DEF TypeOK
            <4>2. CASE /\ peer[n].agent # 0
                       /\ agent' = [agent EXCEPT ![n][peer[n].agent].remote = IsOpen(agent[n][peer[n].agent])]
                <5>1. peer[n].agent \in Sessions
                    BY <4>2 DEF TypeOK, PeerConns, Sessions
                <5>2. [agent[n][peer[n].agent] EXCEPT !.remote = IsOpen(agent[n][peer[n].agent])] \in Agents
                    <6>1. agent[n][peer[n].agent] \in Agents
                        BY <5>1, Zenon DEF TypeOK
                    <6>2. IsOpen(agent[n][peer[n].agent]) \in BOOLEAN
                        BY DEF IsOpen
                    <6> QED  BY <6>1, <6>2, RemoteType, Zenon
                <5> QED  BY <4>2, <5>1, <5>2, Zenon DEF TypeOK
            <4> QED  BY <2>6, <4>1, <4>2, Zenon DEF HandleCandidate
        <3> QED  BY <1>6, <2>1, <2>6, <3>1, <3>2, Zenon DEF receiveSignals, HandleCandidate, TypeOK
    <2> QED  BY <2>3, <2>4, <2>5, <2>6, Zenon
<1>7. ASSUME NEW n \in Nodes, NEW s \in Sessions, Step(n, s) \/ NoAgentYet(n, s)
      PROVE  TypeOK'
    <2>1. agent[n][s] \in Agents /\ peer[n] \in PeerConns /\ Retry(n) \in Labels
        BY Zenon DEF TypeOK, Retry, Labels
    <2>2. Shut(agent[n][s]) \in Agents
        BY <2>1, ShutType, Zenon
    <2>3. CASE NewAgent(n, s)
        <3>1. [agent[n][s] EXCEPT !.st = "open"] \in Agents
            BY <2>1, Zenon DEF Agents
        <3>2. agent' \in [Nodes -> [Sessions -> Agents]]
            BY <2>3, <3>1, Zenon DEF NewAgent, TypeOK
        <3> QED  BY <2>3, <3>2, Zenon DEF NewAgent, TypeOK, Labels
    <2>4. CASE NoAgentYet(n, s)
        BY <2>1, <2>4, FaultType, Zenon DEF NoAgentYet, TypeOK
    <2>5. CASE Attach(n, s)
        <3>1. [agent[n][s] EXCEPT !.remote = peer[n].pending] \in Agents
            BY <2>1, RemoteType, Zenon DEF PeerConns
        <3>2. agent' \in [Nodes -> [Sessions -> Agents]]
            <4>1. \E a \in Agents : agent' = [agent EXCEPT ![n][s] = a]
                BY <2>2, <2>5, <3>1, Zenon DEF Attach
            <4> QED  BY <4>1, Update DEF TypeOK
        <3>3. [peer[n] EXCEPT !.agent = s, !.pending = FALSE] \in PeerConns
            <4>1. s \in 0 .. MaxSession
                BY DEF Sessions
            <4> QED  BY <2>1, <4>1, Zenon DEF PeerConns
        <3>4. peer' \in [Nodes -> PeerConns]
            BY <2>5, <3>3, Zenon DEF Attach, TypeOK
        <3>5. run' \in [Nodes -> [Sessions -> Labels]]
            <4>1. \E l \in Labels : run' = [run EXCEPT ![n][s] = l]
                BY <2>5, "exchange" \in Labels, "done" \in Labels, Zenon DEF Attach, Labels
            <4> QED  BY <4>1, Update DEF TypeOK
        <3> QED  BY <2>5, <3>2, <3>4, <3>5, Zenon DEF Attach, TypeOK
    <2>6. CASE Exchange(n, s) \/ ExchangeFails(n, s) \/ OnCandidate(n, s)
        <3>1. Msg("candidate", s) \in Envelopes /\ Credentials(n, s) \in Envelopes /\ Peer(n) \in Nodes
            BY DEF Msg, Credentials, Envelopes, Peer, Nodes
        <3>2. \A m \in Envelopes : Send(n, m) => sig' \in [Nodes -> Seq(Envelopes)]
            <4> SUFFICES ASSUME NEW m \in Envelopes, Send(n, m) PROVE sig' \in [Nodes -> Seq(Envelopes)]
                BY Zenon
            <4>1. Append(sig[Peer(n)], m) \in Seq(Envelopes)
                BY <3>1, AppendProperties, Zenon DEF TypeOK
            <4> QED  BY <3>1, <4>1, Zenon DEF Send, TypeOK
        <3>3. sig' \in [Nodes -> Seq(Envelopes)]
            BY <2>6, <3>1, <3>2, Zenon DEF Exchange, ExchangeFails, OnCandidate, TypeOK
        <3>4. faults' \in 0 .. MaxFaults
            BY <2>6, FaultType, Zenon DEF Exchange, ExchangeFails, OnCandidate
        <3>5. \A b \in BOOLEAN : [agent[n][s] EXCEPT !.local = b] \in Agents
            BY <2>1, Zenon DEF Agents
        <3>6. agent' \in [Nodes -> [Sessions -> Agents]]
            <4>1. \E a \in Agents : agent' = [agent EXCEPT ![n][s] = a]
                BY <2>2, <2>6, <3>5, Zenon DEF Exchange, ExchangeFails, OnCandidate
            <4> QED  BY <4>1, Update DEF TypeOK
        <3>7. run' \in [Nodes -> [Sessions -> Labels]]
            <4>1. UNCHANGED run \/ \E l \in Labels : run' = [run EXCEPT ![n][s] = l]
                BY <2>1, <2>6, "wait" \in Labels, "dial" \in Labels, Zenon DEF Exchange, ExchangeFails, OnCandidate, Labels
            <4> QED  BY <4>1, Update DEF TypeOK
        <3> QED  BY <2>6, <3>3, <3>4, <3>6, <3>7, Zenon DEF Exchange, ExchangeFails, OnCandidate, TypeOK
    <2>7. CASE AnswerTimeout(n, s)
        <3>1. faults' \in 0 .. MaxFaults
            BY <2>7, FaultType, Zenon DEF AnswerTimeout
        <3> QED  BY <2>1, <2>2, <2>7, <3>1, Zenon DEF AnswerTimeout, TypeOK
    <2>8. CASE DialFails(n, s)
        <3>1. faults' \in 0 .. MaxFaults
            BY <2>8, FaultType, Zenon DEF DialFails
        <3>2. path' \in [Nodes -> {"unknown", "none", "connecting", "direct"}]
            BY <2>8, Zenon DEF DialFails, onPath, TypeOK
        <3> QED  BY <2>1, <2>2, <2>8, <3>1, <3>2, Zenon DEF DialFails, TypeOK
    <2>9. CASE runInitiator(n, s)
        <3>1. clock' \in 0 .. MaxSession
            BY <2>9 DEF runInitiator, TypeOK, Sessions
        <3>2. peer' \in [Nodes -> PeerConns]
            <4>1. ASSUME clock + 1 \in Sessions
                  PROVE  [peer[n] EXCEPT !.session = clock + 1, !.pending = FALSE] \in PeerConns
                <5>1. clock + 1 \in 0 .. MaxSession
                    BY <4>1 DEF Sessions, TypeOK
                <5>2. \A x \in 0 .. MaxSession : [peer[n] EXCEPT !.session = x, !.pending = FALSE] \in PeerConns
                    BY <2>1, Zenon DEF PeerConns
                <5> QED  BY <5>1, <5>2, Zenon
            <4> QED  BY <2>9, <4>1, Zenon DEF runInitiator, TypeOK
        <3>3. run' \in [Nodes -> [Sessions -> Labels]]
            <4>1. {"done", "start"} \subseteq Labels
                BY Zenon DEF Labels
            <4>2. [run EXCEPT ![n][s] = "done"] \in [Nodes -> [Sessions -> Labels]]
                BY <4>1, Update, Zenon DEF TypeOK
            <4>3. CASE clock + 1 \in Sessions /\ run' = [run EXCEPT ![n][s] = "done", ![n][clock + 1] = "start"]
                BY <4>1, <4>2, <4>3, Update, Zenon
            <4> QED  BY <2>9, <4>2, <4>3, Zenon DEF runInitiator
        <3> QED  BY <2>9, <3>1, <3>2, <3>3, Zenon DEF runInitiator, TypeOK
    <2>10. CASE DialReturns(n, s) \/ Connect(n, s) \/ Disconnect(n, s)
        <3>1. \A st \in {"open", "connected", "failed"}, c \in {"direct", "none"} :
                 Turned(agent[n][s], st, c) \in Agents
            BY <2>1, Zenon DEF Agents, Turned
        <3>2. [agent[n][s] EXCEPT !.owes = @ \cup {"direct"}] \in Agents
            BY <2>1, Zenon DEF Agents
        <3>3. agent' \in [Nodes -> [Sessions -> Agents]]
            <4>1. \E a \in Agents : agent' = [agent EXCEPT ![n][s] = a]
                <5>1. CASE DialReturns(n, s)
                    BY <5>1, <3>2, Zenon DEF DialReturns
                <5>2. CASE Connect(n, s)
                    BY <5>2, <3>1, Zenon DEF Connect
                <5>3. CASE Disconnect(n, s)
                    BY <5>3, <3>1, Zenon DEF Disconnect
                <5> QED  BY <2>10, <5>1, <5>2, <5>3, Zenon
            <4> QED  BY <4>1, Update DEF TypeOK
        <3>4. faults' \in 0 .. MaxFaults
            BY <2>10, FaultType, Zenon DEF DialReturns, Connect, Disconnect, TypeOK
        <3>5. run' \in [Nodes -> [Sessions -> Labels]]
            <4>1. UNCHANGED run \/ run' = [run EXCEPT ![n][s] = "ok"]
                BY <2>10, Zenon DEF DialReturns, Connect, Disconnect
            <4>2. "ok" \in Labels
                BY Zenon DEF Labels
            <4>3. [run EXCEPT ![n][s] = "ok"] \in [Nodes -> [Sessions -> Labels]]
                BY <4>2, Update, Zenon DEF TypeOK
            <4> QED  BY <4>1, <4>3, Zenon DEF TypeOK
        <3> QED  BY <2>10, <3>3, <3>4, <3>5, Zenon DEF DialReturns, Connect, Disconnect, TypeOK
    <2>11. ASSUME NEW state \in {"direct", "none"}, Report(n, s, state)
           PROVE  TypeOK'
        <3>1. [agent[n][s] EXCEPT !.owes = @ \ {state}] \in Agents
            BY <2>1, Zenon DEF Agents
        <3>2. path' \in [Nodes -> {"unknown", "none", "connecting", "direct"}]
            BY <2>11, Zenon DEF Report, onPath, TypeOK
        <3> QED  BY <2>11, <3>1, <3>2, Zenon DEF Report, TypeOK
    <2> QED  BY <1>7, <2>3, <2>4, <2>5, <2>6, <2>7, <2>8, <2>9, <2>10, <2>11, Zenon DEF Step
<1>8. CASE UNCHANGED vars
    BY <1>8, Zenon DEF vars, TypeOK
<1> QED  BY <1>1, <1>2, <1>3, <1>4, <1>5, <1>6, <1>7, <1>8, Zenon DEF Next

\* A closed agent is not open; one that never was stays so.
LEMMA ShutValue ==
    ASSUME NEW a \in Agents
    PROVE  /\ ~ IsOpen(Shut(a))
           /\ a.st = "none" => Shut(a) = a
<1>1. CASE a.st = "none"
    BY <1>1, Zenon DEF Shut, IsOpen
<1>2. CASE a.st # "none"
    <2>1. Shut(a).st = "closed"
        BY <1>2, Zenon DEF Shut, Agents
    <2> QED  BY <1>2, <2>1, Zenon DEF IsOpen
<1> QED  BY <1>1, <1>2, Zenon

\* teardown closes the agent of the peerConn and no other.
LEMMA TeardownValue ==
    ASSUME TypeOK, NEW n \in Nodes
    PROVE  \A m \in Nodes, t \in Sessions :
              teardown(n, agent)[m][t] = IF m = n /\ t = peer[n].agent THEN Shut(agent[m][t]) ELSE agent[m][t]
<1>1. CASE peer[n].agent = 0
    BY <1>1 DEF teardown, Sessions
<1>2. CASE peer[n].agent # 0
    <2>1. peer[n].agent \in Sessions
        BY <1>2, ConnMgrAssumption DEF TypeOK, PeerConns, Sessions
    <2>2. Shut(agent[n][peer[n].agent]) \in Agents
        BY <2>1, ShutType, Zenon DEF TypeOK
    <2> QED  BY <1>2, <2>1, <2>2, Update DEF teardown, TypeOK
<1> QED  BY <1>1, <1>2, Zenon
-----------------------------------------------------------------------------
(* How a step changes what a device holds.                                 *)

\* What a step does to the devices, apart from the envelopes.
Progress ==
    /\ clock <= clock'
    /\ Slots' /\ Epochs' /\ Responder'
    /\ \A s \in Sessions : s <= clock /\ Backed(s) => Backed(s)'

\* No offer is taken up.
NoneTaken == \A s \in Sessions : run'[2][s] = "none" <=> run[2][s] = "none"

\* A step of one negotiation that leaves the peerConns alone.
LEMMA OneSlot ==
    ASSUME NegotiationInv, NEW n \in Nodes, NEW s \in Sessions, NEW l, NEW a,
           UNCHANGED <<peer, clock>>,
           \A m \in Nodes, t \in Sessions : run'[m][t] = IF m = n /\ t = s THEN l ELSE run[m][t],
           \A m \in Nodes, t \in Sessions : agent'[m][t] = IF m = n /\ t = s THEN a ELSE agent[m][t],
           run[n][s] # "none", l # "none",
           run[n][s] \notin Early => l \notin Early,
           n = 2 => l # "sleep",
           Slot(peer[n], s, l, a)
    PROVE  Progress /\ NoneTaken
<1>1. Slots'
    BY ZenonT(30) DEF NegotiationInv, Slots
<1>2. Epochs'
    BY DEF NegotiationInv, Epochs
<1>3. Responder'
    BY Zenon DEF NegotiationInv, Responder, Nodes
<1>4. \A t \in Sessions : Backed(t) => Backed(t)'
    BY Zenon DEF Backed, Nodes
<1>5. NoneTaken
    BY Zenon DEF NoneTaken, Nodes
<1>6. clock <= clock'
    BY ConnMgrAssumption DEF NegotiationInv, TypeOK
<1> QED  BY <1>1, <1>2, <1>3, <1>4, <1>5, <1>6, Zenon DEF Progress

\* The peerConn is dropped, its agent closed.
LEMMA DropStep ==
    ASSUME NegotiationInv, NEW n \in Nodes,
           peer' = [peer EXCEPT ![n] = NoPeer],
           agent' = teardown(n, agent),
           UNCHANGED <<clock, run>>
    PROVE  Progress /\ NoneTaken
<1> USE ConnMgrAssumption
<1>1. \A m \in Nodes : peer'[m] = IF m = n THEN NoPeer ELSE peer[m]
    BY Zenon DEF NegotiationInv, TypeOK
<1>2. \A m \in Nodes, t \in Sessions :
         agent'[m][t] = IF m = n /\ t = peer[n].agent THEN Shut(agent[m][t]) ELSE agent[m][t]
    BY TeardownValue, ZenonT(30) DEF NegotiationInv
<1>3. ASSUME NEW m \in Nodes, NEW t \in Sessions
      PROVE  Slot(peer[m], t, run[m][t], agent[m][t])' 
    <2>1. Slot(peer[m], t, run[m][t], agent[m][t])
        BY Zenon DEF NegotiationInv, Slots
    <2>2. agent[m][t] \in Agents
        BY Zenon DEF NegotiationInv, TypeOK
    <2>3. CASE m # n
        BY <1>1, <1>2, <2>1, <2>3, Zenon DEF Slot
    <2>4. CASE m = n
        <3>1. peer'[m].agent = 0 /\ peer'[m].session = 0 /\ t # 0
            BY <1>1, <2>4 DEF NoPeer, Sessions
        <3>2. CASE t = peer[n].agent
            <4>1. agent'[m][t] = Shut(agent[m][t])
                BY <1>2, <2>4, <3>2, Zenon
            <4> QED  BY <2>1, <2>2, <2>4, <3>1, <3>2, <4>1, ShutValue, Zenon DEF Slot
        <3>3. CASE t # peer[n].agent
            <4>1. agent'[m][t] = agent[m][t]
                BY <1>2, <2>4, <3>3, Zenon
            <4> QED  BY <2>1, <2>4, <3>1, <3>3, <4>1, Zenon DEF Slot
        <3> QED  BY <3>2, <3>3, Zenon
    <2> QED  BY <2>3, <2>4, Zenon
<1>4. Slots'
    BY <1>3, Zenon DEF Slots
<1>5. Epochs'
    BY <1>1 DEF NegotiationInv, Epochs, NoPeer, TypeOK
<1>6. Responder'
    BY <1>1 DEF NegotiationInv, Responder, NoPeer, Nodes
<1>7. \A t \in Sessions : Backed(t) => Backed(t)'
    BY <1>1 DEF Backed, Nodes, NoPeer, Sessions
<1>8. clock <= clock' /\ NoneTaken
    BY DEF NegotiationInv, TypeOK, NoneTaken
<1> QED  BY <1>4, <1>5, <1>6, <1>7, <1>8, Zenon DEF Progress

\* A new session replaces what the peerConn held; its agent is closed.  The
\* session is one no negotiation of this device was for.
LEMMA NewSession ==
    ASSUME NegotiationInv, NEW n \in Nodes, NEW s \in Sessions,
           run[n][s] = "none",
           peer' = [peer EXCEPT ![n] = [NoPeer EXCEPT !.session = s]],
           run' = [run EXCEPT ![n][s] = "start"],
           agent' = teardown(n, agent)
    PROVE  /\ Slots'
           /\ \A m \in Nodes : peer'[m].session = IF m = n THEN s ELSE peer[m].session
           /\ \A m \in Nodes : peer'[m].agent = IF m = n THEN 0 ELSE peer[m].agent
           /\ \A m \in Nodes, t \in Sessions : run'[m][t] = IF m = n /\ t = s THEN "start" ELSE run[m][t]
<1> USE ConnMgrAssumption
<1>1. \A m \in Nodes : /\ peer'[m].session = IF m = n THEN s ELSE peer[m].session
                       /\ peer'[m].agent = IF m = n THEN 0 ELSE peer[m].agent
    <2> DEFINE p == [NoPeer EXCEPT !.session = s]
    <2>1. p.session = s /\ p.agent = 0
        BY Zenon DEF NoPeer
    <2>2. peer' = [peer EXCEPT ![n] = p]
        BY Zenon
    <2> HIDE DEF p
    <2> QED  BY <2>1, <2>2, Zenon DEF NegotiationInv, TypeOK
<1>2. \A m \in Nodes, t \in Sessions :
         agent'[m][t] = IF m = n /\ t = peer[n].agent THEN Shut(agent[m][t]) ELSE agent[m][t]
    BY TeardownValue, ZenonT(30) DEF NegotiationInv
<1>3. \A m \in Nodes, t \in Sessions : run'[m][t] = IF m = n /\ t = s THEN "start" ELSE run[m][t]
    BY Update, "start" \in Labels DEF NegotiationInv, TypeOK, Labels
<1>4. ASSUME NEW m \in Nodes, NEW t \in Sessions
      PROVE  Slot(peer[m], t, run[m][t], agent[m][t])'
    <2>1. Slot(peer[m], t, run[m][t], agent[m][t])
        BY Zenon DEF NegotiationInv, Slots
    <2>2. agent[m][t] \in Agents
        BY Zenon DEF NegotiationInv, TypeOK
    <2>3. CASE m # n
        BY <1>1, <1>2, <1>3, <2>1, <2>3 DEF Slot
    <2>4. CASE m = n
        <3>1. peer'[m].agent = 0 /\ peer'[m].session = s /\ t # 0
            BY <1>1, <2>4 DEF Sessions
        <3>2. agent'[m][t] = IF t = peer[n].agent THEN Shut(agent[m][t]) ELSE agent[m][t]
            BY <1>2, <2>4, Zenon
        <3>3. CASE t = s
            <4>1. run'[m][t] = "start" /\ agent[m][t].st = "none" /\ Shut(agent[m][t]) = agent[m][t]
                BY <1>3, <2>1, <2>2, <2>4, <3>3, ShutValue, Zenon DEF Slot
            <4>2. agent'[m][t] = agent[m][t]
                BY <3>2, <4>1, Zenon
            <4> QED  BY <3>1, <4>1, <4>2, Zenon DEF Slot, IsOpen
        <3>4. CASE t # s
            <4>1. run'[m][t] = run[m][t]
                BY <1>3, <3>4, ZenonT(30)
            <4> QED  BY <2>1, <2>2, <2>4, <3>1, <3>2, <3>4, <4>1, ShutValue, Zenon DEF Slot
        <3> QED  BY <3>3, <3>4, Zenon
    <2> QED  BY <2>3, <2>4, Zenon
<1> QED  BY <1>1, <1>3, <1>4, Zenon DEF Slots

\* startInitiator, by SetPeers or Restart.
LEMMA StartStep ==
    ASSUME NegotiationInv, NEW n \in Nodes, Initiates(n),
           startInitiator(n, clock + 1), agent' = teardown(n, agent)
    PROVE  Progress /\ NoneTaken
<1> USE ConnMgrAssumption
<1>1. n = 1 /\ clock \in Nat /\ clock + 1 \in Sessions /\ clock' = clock + 1
    BY DEF Initiates, Peer, Nodes, NegotiationInv, TypeOK, startInitiator
<1>2. \A m \in Nodes, t \in Sessions : t > clock => run[m][t] = "none"
    BY Zenon DEF NegotiationInv, Epochs
<1>3. run[n][clock + 1] = "none"
    BY <1>1, <1>2
<1>4. /\ Slots'
      /\ \A m \in Nodes : peer'[m].session = IF m = n THEN clock + 1 ELSE peer[m].session
      /\ \A m \in Nodes : peer'[m].agent = IF m = n THEN 0 ELSE peer[m].agent
      /\ \A m \in Nodes, t \in Sessions : run'[m][t] = IF m = n /\ t = clock + 1 THEN "start" ELSE run[m][t]
    BY <1>1, <1>3, NewSession, Zenon DEF startInitiator
<1>5. Epochs'
    <2>1. \A m \in Nodes : peer'[m].session <= clock + 1
        BY <1>1, <1>4 DEF NegotiationInv, Epochs, TypeOK, PeerConns
    <2>2. ASSUME NEW m \in Nodes, NEW t \in Sessions, t > clock + 1 PROVE run'[m][t] = "none"
        <3>1. t > clock /\ t # clock + 1
            BY <1>1, <2>2 DEF Sessions
        <3> QED  BY <1>2, <1>4, <3>1
    <2> QED  BY <1>1, <2>1, <2>2, Zenon DEF Epochs
<1>6. Responder' /\ NoneTaken
    BY <1>1, <1>4 DEF NegotiationInv, Responder, NoneTaken, Nodes
<1>7. \A t \in Sessions : t <= clock /\ Backed(t) => Backed(t)'
    BY <1>1, <1>4 DEF Backed, Nodes, Sessions
<1> QED  BY <1>1, <1>4, <1>5, <1>6, <1>7 DEF Progress

\* HandleOffer with an offer the responder takes up.
LEMMA OfferStep ==
    ASSUME NegotiationInv, NEW s \in Sessions,
           s <= clock, run[2][s] = "none",
           peer' = [peer EXCEPT ![2] = [NoPeer EXCEPT !.session = s]],
           run' = [run EXCEPT ![2][s] = "start"],
           agent' = teardown(2, agent), UNCHANGED clock
    PROVE  /\ Progress
           /\ \A t \in Sessions : run'[2][t] = IF t = s THEN "start" ELSE run[2][t]
<1> USE ConnMgrAssumption
<1>1. 2 \in Nodes /\ 1 \in Nodes
    BY Zenon DEF Nodes
<1>2. /\ Slots'
      /\ \A m \in Nodes : peer'[m].session = IF m = 2 THEN s ELSE peer[m].session
      /\ \A m \in Nodes : peer'[m].agent = IF m = 2 THEN 0 ELSE peer[m].agent
      /\ \A m \in Nodes, t \in Sessions : run'[m][t] = IF m = 2 /\ t = s THEN "start" ELSE run[m][t]
    BY <1>1, NewSession, Zenon
<1>3. Epochs'
    <2>1. \A m \in Nodes : peer'[m].session <= clock
        BY <1>2, ZenonT(30) DEF NegotiationInv, Epochs
    <2>2. \A m \in Nodes, t \in Sessions : t > clock => run'[m][t] = "none"
        <3> TAKE m \in Nodes, t \in Sessions
        <3> HAVE t > clock
        <3>1. t # s /\ run[m][t] = "none"
            BY DEF NegotiationInv, Epochs, TypeOK, Sessions
        <3> QED  BY <1>2, <3>1
    <2> QED  BY <2>1, <2>2, Zenon DEF Epochs
<1>4. Responder'
    BY <1>1, <1>2 DEF NegotiationInv, Responder
<1>5. \A t \in Sessions : Backed(t) => Backed(t)'
    BY <1>1, <1>2 DEF Backed
<1>6. clock <= clock'
    BY DEF NegotiationInv, TypeOK
<1> QED  BY <1>1, <1>2, <1>3, <1>4, <1>5, <1>6 DEF Progress

\* negotiate attaches its agent to the peerConn of its session.
LEMMA AttachStep ==
    ASSUME NegotiationInv, NEW n \in Nodes, NEW s \in Sessions, Attach(n, s)
    PROVE  Progress /\ NoneTaken
<1> USE ConnMgrAssumption
<1>1. Slot(peer[n], s, run[n][s], agent[n][s]) /\ agent[n][s] \in Agents /\ peer[n] \in PeerConns
    BY Zenon DEF NegotiationInv, Slots, TypeOK
<1>2. CASE peer[n].session # s
    <2>1. Shut(agent[n][s]) \in Agents /\ ~ IsOpen(Shut(agent[n][s]))
        BY <1>1, ShutType, ShutValue, Zenon
    <2>2. run[n][s] = "attach" /\ run' = [run EXCEPT ![n][s] = "done"]
          /\ agent' = [agent EXCEPT ![n][s] = Shut(agent[n][s])] /\ UNCHANGED <<peer, clock>>
        BY <1>2, Zenon DEF Attach
    <2>3. \A m \in Nodes, t \in Sessions : run'[m][t] = IF m = n /\ t = s THEN "done" ELSE run[m][t]
        BY <2>2, Update, "done" \in Labels DEF NegotiationInv, TypeOK, Labels
    <2>4. \A m \in Nodes, t \in Sessions :
             agent'[m][t] = IF m = n /\ t = s THEN Shut(agent[n][s]) ELSE agent[m][t]
        BY <2>1, <2>2, Update DEF NegotiationInv, TypeOK
    <2>5. Slot(peer[n], s, "done", Shut(agent[n][s]))
        BY <1>1, <2>1, <2>2, Zenon DEF Slot
    <2> QED  BY <2>2, <2>3, <2>4, <2>5, OneSlot DEF Early
<1>3. CASE peer[n].session = s
    <2> DEFINE a == [agent[n][s] EXCEPT !.remote = peer[n].pending]
    <2>1. a \in Agents
        BY <1>1, RemoteType, Zenon DEF PeerConns
    <2>2. run[n][s] = "attach" /\ run' = [run EXCEPT ![n][s] = "exchange"]
          /\ agent' = [agent EXCEPT ![n][s] = a] /\ UNCHANGED clock
          /\ peer' = [peer EXCEPT ![n] = [@ EXCEPT !.agent = s, !.pending = FALSE]]
        BY <1>3, Zenon DEF Attach
    <2> HIDE DEF a
    <2>3. \A m \in Nodes, t \in Sessions : run'[m][t] = IF m = n /\ t = s THEN "exchange" ELSE run[m][t]
        BY <2>2, Update, "exchange" \in Labels DEF NegotiationInv, TypeOK, Labels
    <2>4. \A m \in Nodes, t \in Sessions : agent'[m][t] = IF m = n /\ t = s THEN a ELSE agent[m][t]
        BY <2>1, <2>2, Update DEF NegotiationInv, TypeOK
    <2>5. \A m \in Nodes : /\ peer'[m].session = peer[m].session
                           /\ peer'[m].agent = IF m = n THEN s ELSE peer[m].agent
        BY <1>1, <2>2, Zenon DEF NegotiationInv, TypeOK, PeerConns
    <2>6. ASSUME NEW m \in Nodes, NEW t \in Sessions
          PROVE  Slot(peer[m], t, run[m][t], agent[m][t])'
        <3>1. Slot(peer[m], t, run[m][t], agent[m][t])
            BY Zenon DEF NegotiationInv, Slots
        <3>2. CASE m = n /\ t = s
            BY <1>3, <2>3, <2>4, <2>5, <3>2, Zenon DEF Slot
        <3>3. CASE m = n /\ t # s
            BY <1>3, <2>3, <2>4, <2>5, <3>1, <3>3, Zenon DEF Slot
        <3>4. CASE m # n
            BY <2>3, <2>4, <2>5, <3>1, <3>4, Zenon DEF Slot
        <3> QED  BY <3>2, <3>3, <3>4, Zenon
    <2>7. Epochs'
        BY <2>2, <2>3, <2>5 DEF NegotiationInv, Epochs
    <2>8. Responder' /\ NoneTaken
        BY <1>3, <2>2, <2>3, <2>5 DEF NegotiationInv, Responder, NoneTaken, Nodes
    <2>9. \A t \in Sessions : Backed(t) => Backed(t)'
        BY <1>3, <2>2, <2>3, <2>5, Zenon DEF Backed, Early, Nodes
    <2>10. clock <= clock'
        BY <2>2 DEF NegotiationInv, TypeOK
    <2> QED  BY <2>6, <2>7, <2>8, <2>9, <2>10, Zenon DEF Progress, Slots
<1> QED  BY <1>2, <1>3, Zenon

\* runInitiator takes a new session after its back-off, or finds itself stale.
LEMMA RetryStep ==
    ASSUME NegotiationInv, NEW n \in Nodes, NEW s \in Sessions, runInitiator(n, s)
    PROVE  Progress /\ NoneTaken
<1> USE ConnMgrAssumption
<1> DEFINE c == clock + 1
<1>1. /\ Slot(peer[n], s, run[n][s], agent[n][s]) /\ run[n][s] = "sleep"
      /\ peer[n] \in PeerConns /\ clock \in Nat
    BY DEF NegotiationInv, Slots, TypeOK, runInitiator
<1>2. n = 1
    BY <1>1, Zenon DEF NegotiationInv, Responder, Nodes
<1>3. CASE peer[n].session # s \/ closed[n]
    <2>1. run' = [run EXCEPT ![n][s] = "done"] /\ UNCHANGED <<peer, clock, agent>>
        BY <1>3, Zenon DEF runInitiator
    <2>2. \A m \in Nodes, t \in Sessions : run'[m][t] = IF m = n /\ t = s THEN "done" ELSE run[m][t]
        BY <2>1, Update, "done" \in Labels DEF NegotiationInv, TypeOK, Labels
    <2>3. \A m \in Nodes, t \in Sessions :
             agent'[m][t] = IF m = n /\ t = s THEN agent[n][s] ELSE agent[m][t]
        BY <2>1, Zenon
    <2>4. Slot(peer[n], s, "done", agent[n][s])
        BY <1>1, Zenon DEF Slot
    <2> QED  BY <1>1, <2>1, <2>2, <2>3, <2>4, OneSlot, SMTT(30) DEF Early
<1>4. CASE peer[n].session = s /\ ~ closed[n]
    <2>1. /\ c \in Sessions /\ clock' = c /\ UNCHANGED agent
          /\ run' = [run EXCEPT ![n][s] = "done", ![n][c] = "start"]
          /\ peer' = [peer EXCEPT ![n] = [@ EXCEPT !.session = c, !.pending = FALSE]]
        BY <1>4, Zenon DEF runInitiator
    <2>2. /\ \A m \in Nodes : peer[m].session <= clock
          /\ \A m \in Nodes, t \in Sessions : t > clock => run[m][t] = "none"
        BY Zenon DEF NegotiationInv, Epochs
    <2>3. s # c /\ run[n][c] = "none" /\ c > clock
        BY <1>1, <1>4, <2>1, <2>2 DEF Sessions
    <2>4. \A m \in Nodes : /\ peer'[m].session = IF m = n THEN c ELSE peer[m].session
                           /\ peer'[m].agent = peer[m].agent
        BY <1>1, <2>1, Zenon DEF NegotiationInv, TypeOK, PeerConns
    <2> HIDE DEF c
    <2>5. \A m \in Nodes, t \in Sessions :
             run'[m][t] = IF m = n /\ t = c THEN "start" ELSE IF m = n /\ t = s THEN "done" ELSE run[m][t]
        <3>1. {"done", "start"} \subseteq Labels
            BY Zenon DEF Labels
        <3> DEFINE f == [run EXCEPT ![n][s] = "done"]
        <3>2. /\ f \in [Nodes -> [Sessions -> Labels]]
              /\ \A m \in Nodes, t \in Sessions : f[m][t] = IF m = n /\ t = s THEN "done" ELSE run[m][t]
            BY <3>1, Update DEF NegotiationInv, TypeOK
        <3>3. run' = [f EXCEPT ![n][c] = "start"]
            BY <2>1, Zenon
        <3> HIDE DEF f
        <3>4. \A m \in Nodes, t \in Sessions : run'[m][t] = IF m = n /\ t = c THEN "start" ELSE f[m][t]
            <4>1. c \in Sessions /\ "start" \in Labels
                BY <2>1, <3>1, Zenon
            <4>2. f \in [Nodes -> [Sessions -> Labels]]
                BY <3>2, Zenon
            <4> QED  BY <3>3, <4>1, <4>2, Update
        <3> QED  BY <3>2, <3>4
    <2>6. ASSUME NEW m \in Nodes, NEW t \in Sessions
          PROVE  Slot(peer[m], t, run[m][t], agent[m][t])'
        <3>1. Slot(peer[m], t, run[m][t], agent[m][t]) /\ agent'[m][t] = agent[m][t]
            BY <2>1, Zenon DEF NegotiationInv, Slots
        <3>2. CASE m = n /\ t = c
            BY <2>3, <2>4, <2>5, <3>1, <3>2, Zenon DEF Slot, IsOpen
        <3>3. CASE m = n /\ t = s
            BY <1>1, <1>4, <2>3, <2>4, <2>5, <3>1, <3>3, Zenon DEF Slot
        <3>4. CASE m = n /\ t \notin {c, s}
            BY <1>4, <2>4, <2>5, <3>1, <3>4, Zenon DEF Slot
        <3>5. CASE m # n
            BY <2>4, <2>5, <3>1, <3>5, Zenon DEF Slot
        <3> QED  BY <3>2, <3>3, <3>4, <3>5, Zenon
    <2>7. Epochs'
        <3>1. clock' = clock + 1
            BY <2>1, Zenon DEF c
        <3>2. \A m \in Nodes : peer'[m].session <= clock'
            BY <1>1, <2>1, <2>2, <2>4, <3>1 DEF NegotiationInv, TypeOK, PeerConns
        <3>3. ASSUME NEW m \in Nodes, NEW t \in Sessions, t > clock' PROVE run'[m][t] = "none"
            <4>1. t > clock /\ t # c
                BY <1>1, <2>1, <3>1, <3>3 DEF Sessions
            <4>2. run[m][t] = "none"
                BY <2>2, <4>1, Zenon
            <4> QED  BY <1>1, <2>5, <4>1, <4>2, Zenon
        <3> QED  BY <3>2, <3>3, Zenon DEF Epochs
    <2>8. Responder' /\ NoneTaken
        BY <1>2, <2>4, <2>5 DEF NegotiationInv, Responder, NoneTaken, Nodes
    <2>9. \A t \in Sessions : t <= clock /\ Backed(t) => Backed(t)'
        BY <1>1, <1>2, <2>3, <2>4, <2>5, Zenon DEF Backed, Early, Nodes, Sessions
    <2>10. clock <= clock'
        BY <1>1, <2>1 DEF c
    <2> QED  BY <2>6, <2>7, <2>8, <2>9, <2>10, Zenon DEF Progress, Slots
<1> QED  BY <1>3, <1>4, Zenon

\* The process dies: its agents die with it, and it forgets its sessions.
LEMMA CrashStep ==
    ASSUME NegotiationInv, NEW n \in Nodes, Crash(n)
    PROVE  Progress /\ NoneTaken
<1> USE ConnMgrAssumption
<1>1. \A m \in Nodes : peer'[m] = IF m = n THEN NoPeer ELSE peer[m]
    BY Zenon DEF NegotiationInv, TypeOK, Crash
<1>2. \A m \in Nodes, t \in Sessions :
         run'[m][t] = IF m # n \/ run[m][t] = "none" THEN run[m][t] ELSE "done"
    BY Zenon DEF NegotiationInv, TypeOK, Crash
<1>3. \A m \in Nodes, t \in Sessions :
         agent'[m][t] = IF m # n THEN agent[m][t] ELSE [Shut(agent[m][t]) EXCEPT !.owes = {}]
    BY Zenon DEF NegotiationInv, TypeOK, Crash
<1>4. ASSUME NEW m \in Nodes, NEW t \in Sessions
      PROVE  Slot(peer[m], t, run[m][t], agent[m][t])'
    <2>1. Slot(peer[m], t, run[m][t], agent[m][t]) /\ agent[m][t] \in Agents
        BY Zenon DEF NegotiationInv, Slots, TypeOK
    <2>2. CASE m # n
        BY <1>1, <1>2, <1>3, <2>1, <2>2, Zenon DEF Slot
    <2>3. CASE m = n
        <3>1. peer'[m].agent = 0 /\ peer'[m].session = 0 /\ t # 0
            BY <1>1, <2>3 DEF NoPeer, Sessions
        <3>2. run'[m][t] = IF run[m][t] = "none" THEN "none" ELSE "done"
            BY <1>2, <2>3, Zenon
        <3> DEFINE a == Shut(agent[m][t])
        <3>3. a \in Agents /\ ~ IsOpen(a)
            BY <2>1, ShutType, ShutValue, Zenon
        <3>4. agent'[m][t] = [a EXCEPT !.owes = {}]
            BY <1>3, <2>3, Zenon
        <3>5. ASSUME run[m][t] = "none" PROVE a.st = "none" /\ ~ a.local
            BY <2>1, <3>5, ShutValue, Zenon DEF Slot
        <3> HIDE DEF a
        <3>6. ~ IsOpen(agent'[m][t])
            BY <3>3, <3>4, Zenon DEF IsOpen, Agents
        <3>7. /\ agent'[m][t].owes = {}
              /\ run[m][t] = "none" => agent'[m][t].st = "none" /\ ~ agent'[m][t].local
            BY <3>3, <3>4, <3>5, Zenon DEF Agents
        <3> QED  BY <3>1, <3>2, <3>6, <3>7, Zenon DEF Slot
    <2> QED  BY <2>2, <2>3, Zenon
<1>5. Epochs'
    BY <1>1, <1>2 DEF NegotiationInv, Epochs, NoPeer, TypeOK, Crash
<1>6. Responder' /\ NoneTaken
    BY <1>1, <1>2 DEF NegotiationInv, Responder, NoneTaken, NoPeer, Nodes
<1>7. \A t \in Sessions : Backed(t) => Backed(t)'
    BY <1>1, <1>2 DEF Backed, Early, Nodes, NoPeer, Sessions
<1>8. clock <= clock'
    BY DEF NegotiationInv, TypeOK, Crash
<1> QED  BY <1>4, <1>5, <1>6, <1>7, <1>8, Zenon DEF Progress, Slots

-----------------------------------------------------------------------------
(* The envelopes on their way.                                             *)

\* An envelope on its way stays in order while the devices go on.
LEMMA EnvelopeKept ==
    ASSUME NegotiationInv, TypeOK', Progress, NoneTaken, NEW m \in Envelopes
    PROVE  /\ ToInitiator(m) => ToInitiator(m)'
           /\ ToResponder(m) => ToResponder(m)'
<1>1. m.session \in Sessions /\ m.session \in Int /\ clock \in Int /\ clock' \in Int /\ clock <= clock'
    BY ConnMgrAssumption DEF Envelopes, NegotiationInv, TypeOK, Progress, Sessions
<1>2. m.session <= clock => m.session <= clock'
    BY <1>1
<1>3. run'[2][m.session] = "none" <=> run[2][m.session] = "none"
    BY <1>1, Zenon DEF NoneTaken
<1>4. m.session <= clock /\ Backed(m.session) => Backed(m.session)'
    BY <1>1, Zenon DEF Progress
<1> QED  BY <1>2, <1>3, <1>4, Zenon DEF ToInitiator, ToResponder

\* Who negotiates without an offer does so no more than before.
LEMMA OfferedKept ==
    ASSUME NegotiationInv, Progress, NoneTaken
    PROVE  Offered'
<1> SUFFICES ASSUME NEW s \in Sessions, run'[2][s] # "none" PROVE Backed(s)'
    BY Zenon DEF Offered
<1>1. run[2][s] # "none"
    BY Zenon DEF NoneTaken
<1>2. s <= clock
    BY <1>1 DEF NegotiationInv, Epochs, Nodes, TypeOK, Sessions
<1> QED  BY <1>1, <1>2, Zenon DEF NegotiationInv, Offered, Progress

LEMMA SignalTypes ==
    ASSUME TypeOK
    PROVE  /\ \A n \in Nodes : \A i \in 1 .. Len(sig[n]) : sig[n][i] \in Envelopes
           /\ sig[1] \in Seq(Envelopes) /\ sig[2] \in Seq(Envelopes)
BY ElementOfSeq, Zenon DEF TypeOK, Nodes

LEMMA SignalsKept ==
    ASSUME NegotiationInv, TypeOK', Progress, NoneTaken, UNCHANGED sig
    PROVE  NegotiationInv'
<1>1. \A n \in Nodes : \A i \in 1 .. Len(sig[n]) : sig[n][i] \in Envelopes
    BY SignalTypes, Zenon DEF NegotiationInv
<1>2. \A i \in 1 .. Len(sig[1]) : ToInitiator(sig[1][i])'
    <2> TAKE i \in 1 .. Len(sig[1])
    <2> DEFINE m == sig[1][i]
    <2>1. m \in Envelopes /\ ToInitiator(m) /\ m' = m
        BY <1>1, Zenon DEF NegotiationInv, Signals, Nodes
    <2> QED  BY <2>1, EnvelopeKept, Zenon DEF ToInitiator
<1>3. \A i \in 1 .. Len(sig[2]) : ToResponder(sig[2][i])'
    <2> TAKE i \in 1 .. Len(sig[2])
    <2> DEFINE m == sig[2][i]
    <2>1. m \in Envelopes /\ ToResponder(m) /\ m' = m
        BY <1>1, Zenon DEF NegotiationInv, Signals, Nodes
    <2> QED  BY <2>1, EnvelopeKept, Zenon DEF ToResponder, Backed
<1>4. Signals'
    BY <1>2, <1>3, Zenon DEF NegotiationInv, Signals
<1> QED  BY <1>4, OfferedKept, Zenon DEF NegotiationInv, Progress

\* An envelope is sent: an offer by an initiator that backs it, for the first
\* time; a candidate or an answer by a responder that negotiates.
LEMMA SignalsSent ==
    ASSUME NegotiationInv, TypeOK', Progress, NoneTaken,
           NEW n \in Nodes, NEW m \in Envelopes, Send(n, m),
           n = 1 => /\ ToResponder(m)'
                    /\ \A i \in 1 .. Len(sig[2]) :
                          m.kind = "offer" /\ sig[2][i].kind = "offer" => sig[2][i].session # m.session,
           n = 2 => ToInitiator(m)'
    PROVE  NegotiationInv'
<1>1. /\ \A k \in Nodes : \A i \in 1 .. Len(sig[k]) : sig[k][i] \in Envelopes
      /\ sig[1] \in Seq(Envelopes) /\ sig[2] \in Seq(Envelopes)
    BY SignalTypes, Zenon DEF NegotiationInv
<1>2. sig' = [sig EXCEPT ![3 - n] = Append(@, m)] /\ n \in {1, 2}
    BY Zenon DEF Send, Peer, Nodes
<1>3. sig \in [{1, 2} -> Seq(Envelopes)]
    BY Zenon DEF NegotiationInv, TypeOK, Nodes
<1>4. \A i \in 1 .. Len(sig'[1]) : ToInitiator(sig[1][i])'
    <2> TAKE i \in 1 .. Len(sig'[1])
    <2>1. PICK e : e = sig'[1][i]
        BY Zenon
    <2>2. \/ e \in Envelopes /\ ToInitiator(e)
          \/ n = 2 /\ e = m
        <3>1. CASE n = 1
            <4>1. sig'[1] = sig[1]
                BY <1>2, <1>3, <3>1
            <4> QED  BY <1>1, <2>1, <4>1, Zenon DEF NegotiationInv, Signals, Nodes
        <3>2. CASE n = 2
            <4>1. sig'[1] = Append(sig[1], m)
                BY <1>2, <1>3, <3>2
            <4>2. e = IF i <= Len(sig[1]) THEN sig[1][i] ELSE m
                BY <1>1, <2>1, <4>1
            <4>3. i <= Len(sig[1]) => i \in 1 .. Len(sig[1])
                BY <1>1
            <4> QED  BY <1>1, <3>2, <4>2, <4>3, Zenon DEF NegotiationInv, Signals, Nodes
        <3> QED  BY <1>2, <3>1, <3>2, Zenon
    <2>3. ToInitiator(e)'
        BY <2>2, EnvelopeKept, Zenon
    <2> QED  BY <2>1, <2>3, Zenon DEF ToInitiator
<1>5. \A i \in 1 .. Len(sig'[2]) : ToResponder(sig[2][i])'
    <2> TAKE i \in 1 .. Len(sig'[2])
    <2>1. PICK e : e = sig'[2][i]
        BY Zenon
    <2>2. \/ e \in Envelopes /\ ToResponder(e)
          \/ n = 1 /\ e = m
        <3>1. CASE n = 2
            <4>1. sig'[2] = sig[2]
                BY <1>2, <1>3, <3>1
            <4> QED  BY <1>1, <2>1, <4>1, Zenon DEF NegotiationInv, Signals, Nodes
        <3>2. CASE n = 1
            <4>1. sig'[2] = Append(sig[2], m)
                BY <1>2, <1>3, <3>2
            <4>2. e = IF i <= Len(sig[2]) THEN sig[2][i] ELSE m
                BY <1>1, <2>1, <4>1
            <4>3. i <= Len(sig[2]) => i \in 1 .. Len(sig[2])
                BY <1>1
            <4> QED  BY <1>1, <3>2, <4>2, <4>3, Zenon DEF NegotiationInv, Signals, Nodes
        <3> QED  BY <1>2, <3>1, <3>2, Zenon
    <2>3. ToResponder(e)'
        BY <2>2, EnvelopeKept, Zenon
    <2> QED  BY <2>1, <2>3, Zenon DEF ToResponder, Backed
<1>6. ASSUME NEW i \in 1 .. Len(sig'[2]), NEW j \in 1 .. Len(sig'[2]), i # j,
             sig'[2][i].kind = "offer", sig'[2][j].kind = "offer"
      PROVE  sig'[2][i].session # sig'[2][j].session
    <2>1. \A k, l \in 1 .. Len(sig[2]) :
             k # l /\ sig[2][k].kind = "offer" /\ sig[2][l].kind = "offer" => sig[2][k].session # sig[2][l].session
        BY Zenon DEF NegotiationInv, Signals
    <2>2. CASE n = 2
        <3>1. sig'[2] = sig[2]
            BY <1>2, <1>3, <2>2
        <3> QED  BY <1>6, <2>1, <3>1, Zenon
    <2>3. CASE n = 1
        <3>1. sig'[2] = Append(sig[2], m)
            BY <1>2, <1>3, <2>3
        <3>2. Len(sig'[2]) = Len(sig[2]) + 1 /\ Len(sig[2]) \in Nat
            BY <1>1, <3>1
        <3>3. \A k \in 1 .. Len(sig'[2]) : k \in 1 .. Len(sig[2]) \/ k = Len(sig[2]) + 1
            BY <3>2
        <3>4. \A k \in 1 .. Len(sig'[2]) : sig'[2][k] = IF k <= Len(sig[2]) THEN sig[2][k] ELSE m
            BY <1>1, <3>1
        <3>5. \A k \in 1 .. Len(sig[2]) :
                 m.kind = "offer" /\ sig[2][k].kind = "offer" => sig[2][k].session # m.session
            BY <2>3, Zenon
        <3>6. CASE i \in 1 .. Len(sig[2]) /\ j \in 1 .. Len(sig[2])
            <4>1. sig'[2][i] = sig[2][i] /\ sig'[2][j] = sig[2][j]
                BY <3>2, <3>4, <3>6
            <4> QED  BY <1>6, <2>1, <3>6, <4>1, Zenon
        <3>7. CASE i \in 1 .. Len(sig[2]) /\ j = Len(sig[2]) + 1
            <4>1. sig'[2][i] = sig[2][i] /\ sig'[2][j] = m
                BY <3>2, <3>4, <3>7
            <4> QED  BY <1>6, <3>5, <3>7, <4>1, Zenon
        <3>8. CASE j \in 1 .. Len(sig[2]) /\ i = Len(sig[2]) + 1
            <4>1. sig'[2][i] = m /\ sig'[2][j] = sig[2][j]
                BY <3>2, <3>4, <3>8
            <4> QED  BY <1>6, <3>5, <3>8, <4>1, Zenon
        <3> QED  BY <1>6, <3>3, <3>6, <3>7, <3>8, Zenon
    <2> QED  BY <1>2, <2>2, <2>3, Zenon
<1>7. Signals'
    BY <1>4, <1>5, <1>6, Zenon DEF Signals
<1> QED  BY <1>7, OfferedKept, Zenon DEF NegotiationInv, Progress

\* An envelope is taken from the stream.
LEMMA SignalsRead ==
    ASSUME NegotiationInv, TypeOK', Progress, NoneTaken, NEW n \in Nodes,
           sig[n] # <<>>, sig' = [sig EXCEPT ![n] = Tail(@)]
    PROVE  NegotiationInv'
<1>1. /\ \A k \in Nodes : \A i \in 1 .. Len(sig[k]) : sig[k][i] \in Envelopes
      /\ sig[1] \in Seq(Envelopes) /\ sig[2] \in Seq(Envelopes)
    BY SignalTypes, Zenon DEF NegotiationInv
<1>2. sig \in [{1, 2} -> Seq(Envelopes)] /\ n \in {1, 2}
    BY Zenon DEF NegotiationInv, TypeOK, Nodes
<1>3. PICK d \in [{1, 2} -> {0, 1}] :
         \A k \in {1, 2} : /\ \A i \in 1 .. Len(sig'[k]) : i + d[k] \in 1 .. Len(sig[k])
                           /\ \A i \in 1 .. Len(sig'[k]) : sig'[k][i] = sig[k][i + d[k]]
    <2> DEFINE d == [k \in {1, 2} |-> IF k = n THEN 1 ELSE 0]
    <2>1. ASSUME NEW k \in {1, 2}, NEW i \in 1 .. Len(sig'[k])
          PROVE  i + d[k] \in 1 .. Len(sig[k]) /\ sig'[k][i] = sig[k][i + d[k]]
        <3>1. sig[k] \in Seq(Envelopes)
            BY <1>2, Zenon
        <3>2. CASE k = n
            <4>1. sig'[k] = Tail(sig[k]) /\ sig[k] # <<>>
                BY <1>2, <3>2, Zenon
            <4>2. Len(sig'[k]) = Len(sig[k]) - 1
                BY <3>1, <4>1, HeadTailProperties, Zenon
            <4>3. sig'[k][i] = sig[k][i + 1]
                BY <3>1, <4>1, <4>2, HeadTailProperties, ZenonT(30)
            <4> QED  BY <3>1, <3>2, <4>2, <4>3
        <3>3. CASE k # n
            <4>1. sig'[k] = sig[k]
                BY <1>2, <3>3, Zenon
            <4> QED  BY <3>1, <3>3, <4>1
        <3> QED  BY <3>2, <3>3, Zenon
    <2> QED  BY <2>1, Zenon
<1>4. \A i \in 1 .. Len(sig'[1]) : ToInitiator(sig[1][i])'
    <2> TAKE i \in 1 .. Len(sig'[1])
    <2>1. PICK e : e = sig'[1][i]
        BY Zenon
    <2>2. e \in Envelopes /\ ToInitiator(e)
        BY <1>1, <1>3, <2>1, Zenon DEF NegotiationInv, Signals, Nodes
    <2> QED  BY <2>1, <2>2, EnvelopeKept, Zenon DEF ToInitiator
<1>5. \A i \in 1 .. Len(sig'[2]) : ToResponder(sig[2][i])'
    <2> TAKE i \in 1 .. Len(sig'[2])
    <2>1. PICK e : e = sig'[2][i]
        BY Zenon
    <2>2. e \in Envelopes /\ ToResponder(e)
        BY <1>1, <1>3, <2>1, Zenon DEF NegotiationInv, Signals, Nodes
    <2> QED  BY <2>1, <2>2, EnvelopeKept, Zenon DEF ToResponder, Backed
<1>6. ASSUME NEW i \in 1 .. Len(sig'[2]), NEW j \in 1 .. Len(sig'[2]), i # j,
             sig'[2][i].kind = "offer", sig'[2][j].kind = "offer"
      PROVE  sig'[2][i].session # sig'[2][j].session
    <2>1. i + d[2] # j + d[2]
        BY <1>3, <1>6
    <2>2. /\ i + d[2] \in 1 .. Len(sig[2]) /\ j + d[2] \in 1 .. Len(sig[2])
          /\ sig'[2][i] = sig[2][i + d[2]] /\ sig'[2][j] = sig[2][j + d[2]]
        BY <1>3, <1>6, Zenon
    <2>3. \A k, l \in 1 .. Len(sig[2]) :
             k # l /\ sig[2][k].kind = "offer" /\ sig[2][l].kind = "offer"
                 => sig[2][k].session # sig[2][l].session
        BY Zenon DEF NegotiationInv, Signals
    <2> QED  BY <1>6, <2>1, <2>2, <2>3, Zenon
<1>7. Signals'
    BY <1>4, <1>5, <1>6, Zenon DEF Signals
<1> QED  BY <1>7, OfferedKept, Zenon DEF NegotiationInv, Progress

\* The responder takes up an offer, which is then no longer on its way.
LEMMA OfferTaken ==
    ASSUME NegotiationInv, TypeOK', NEW s \in Sessions,
           sig[2] # <<>>, Head(sig[2]).kind = "offer", Head(sig[2]).session = s,
           sig' = [sig EXCEPT ![2] = Tail(@)],
           peer' = [peer EXCEPT ![2] = [NoPeer EXCEPT !.session = s]],
           run' = [run EXCEPT ![2][s] = "start"],
           agent' = teardown(2, agent), UNCHANGED clock
    PROVE  NegotiationInv'
<1>1. /\ \A k \in Nodes : \A i \in 1 .. Len(sig[k]) : sig[k][i] \in Envelopes
      /\ sig[1] \in Seq(Envelopes) /\ sig[2] \in Seq(Envelopes)
    BY SignalTypes, Zenon DEF NegotiationInv
<1>2. Head(sig[2]) = sig[2][1] /\ 1 \in 1 .. Len(sig[2])
    BY <1>1
<1>3. s <= clock /\ run[2][s] = "none" /\ Backed(s)
    BY <1>2, Zenon DEF NegotiationInv, Signals, ToResponder
<1>4. Progress /\ \A t \in Sessions : run'[2][t] = IF t = s THEN "start" ELSE run[2][t]
    BY <1>3, OfferStep, Zenon
<1>5. sig'[1] = sig[1] /\ sig'[2] = Tail(sig[2])
    BY DEF NegotiationInv, TypeOK, Nodes
<1>6. /\ \A i \in 1 .. Len(sig'[2]) : i + 1 \in 1 .. Len(sig[2]) /\ i + 1 # 1
      /\ \A i \in 1 .. Len(sig'[2]) : sig'[2][i] = sig[2][i + 1]
    <2>1. Len(sig'[2]) = Len(sig[2]) - 1
        BY <1>1, <1>5, HeadTailProperties, Zenon
    <2>2. \A i \in 1 .. Len(sig'[2]) : sig'[2][i] = sig[2][i + 1]
        <3>1. sig[2] \in Seq(Envelopes) /\ sig[2] # <<>>
            BY <1>1, Zenon
        <3>2. \A i \in 1 .. Len(Tail(sig[2])) : Tail(sig[2])[i] = sig[2][i + 1]
            BY <3>1, HeadTailProperties, Zenon
        <3> QED  BY <1>5, <3>2, Zenon
    <2> QED  BY <1>1, <2>1, <2>2
<1>7. \A t \in Sessions : t <= clock /\ Backed(t) => Backed(t)'
    BY <1>4, Zenon DEF Progress
<1>8. \A i \in 1 .. Len(sig'[1]) : ToInitiator(sig[1][i])'
    <2> TAKE i \in 1 .. Len(sig'[1])
    <2>1. PICK e : e = sig'[1][i]
        BY Zenon
    <2>2. e \in Envelopes /\ ToInitiator(e)
        BY <1>1, <1>5, <2>1, Zenon DEF NegotiationInv, Signals, Nodes
    <2>3. e.session \in Sessions
        BY <2>2, Zenon DEF Envelopes
    <2> QED  BY <1>4, <2>1, <2>2, <2>3 DEF ToInitiator
<1>9. \A i \in 1 .. Len(sig'[2]) : ToResponder(sig[2][i])'
    <2> TAKE i \in 1 .. Len(sig'[2])
    <2>1. PICK e : e = sig'[2][i]
        BY Zenon
    <2>2. e \in Envelopes /\ ToResponder(e) /\ e.session \in Sessions
        BY <1>1, <1>6, <2>1, Zenon DEF NegotiationInv, Signals, Nodes, Envelopes
    <2>3. e.kind = "offer" => e.session # s
        <3>1. i + 1 \in 1 .. Len(sig[2]) /\ i + 1 # 1 /\ e = sig[2][i + 1]
            BY <1>6, <2>1, Zenon
        <3>2. e.kind = "offer" => e.session # sig[2][1].session
            BY <1>2, <3>1, Zenon DEF NegotiationInv, Signals
        <3> QED  BY <1>2, <3>2, Zenon
    <2>4. e.kind = "offer" => Backed(e.session)'
        BY <1>7, <2>2, Zenon DEF ToResponder
    <2>5. ToResponder(e)'
        BY <1>4, <2>2, <2>3, <2>4, Zenon DEF ToResponder
    <2> QED  BY <2>1, <2>5, Zenon DEF ToResponder, Backed
<1>10. \A i, j \in 1 .. Len(sig'[2]) :
          i # j /\ sig'[2][i].kind = "offer" /\ sig'[2][j].kind = "offer" => sig'[2][i].session # sig'[2][j].session
    <2> TAKE i, j \in 1 .. Len(sig'[2])
    <2>1. i # j => i + 1 # j + 1
        OBVIOUS
    <2>2. /\ i + 1 \in 1 .. Len(sig[2]) /\ j + 1 \in 1 .. Len(sig[2])
          /\ sig'[2][i] = sig[2][i + 1] /\ sig'[2][j] = sig[2][j + 1]
        BY <1>6, Zenon
    <2> QED  BY <2>1, <2>2, Zenon DEF NegotiationInv, Signals
<1>11. Signals'
    BY <1>8, <1>9, <1>10, Zenon DEF Signals
<1>12. Offered'
    <2> SUFFICES ASSUME NEW t \in Sessions, run'[2][t] # "none" PROVE Backed(t)'
        BY Zenon DEF Offered
    <2>1. CASE t = s
        BY <1>3, <1>7, <2>1, Zenon
    <2>2. CASE t # s
        <3>1. run[2][t] # "none"
            BY <1>4, <2>2, Zenon
        <3>2. t <= clock
            BY <3>1 DEF NegotiationInv, Epochs, Nodes, TypeOK, Sessions
        <3> QED  BY <1>7, <3>1, <3>2, Zenon DEF NegotiationInv, Offered
    <2> QED  BY <2>1, <2>2, Zenon
<1> QED  BY <1>4, <1>11, <1>12, Zenon DEF NegotiationInv, Progress

-----------------------------------------------------------------------------
(* One step per action.                                                    *)

\* The negotiation of one session moves on, and its agent with it.
LEMMA Moves ==
    ASSUME NegotiationInv, NEW n \in Nodes, NEW s \in Sessions, NEW l \in Labels, NEW a \in Agents,
           run' = [run EXCEPT ![n][s] = l], agent' = [agent EXCEPT ![n][s] = a],
           UNCHANGED <<peer, clock>>,
           run[n][s] # "none", l # "none",
           run[n][s] \notin Early => l \notin Early,
           n = 2 => l # "sleep",
           Slot(peer[n], s, l, a)
    PROVE  Progress /\ NoneTaken
<1>1. \A m \in Nodes, t \in Sessions : run'[m][t] = IF m = n /\ t = s THEN l ELSE run[m][t]
    BY Update DEF NegotiationInv, TypeOK
<1>2. \A m \in Nodes, t \in Sessions : agent'[m][t] = IF m = n /\ t = s THEN a ELSE agent[m][t]
    BY Update DEF NegotiationInv, TypeOK
<1> QED  BY <1>1, <1>2, OneSlot, SMTT(30)

\* Only its agent does.
LEMMA AgentMoves ==
    ASSUME NegotiationInv, NEW n \in Nodes, NEW s \in Sessions, NEW a \in Agents,
           agent' = [agent EXCEPT ![n][s] = a],
           UNCHANGED <<peer, clock, run>>,
           run[n][s] # "none",
           Slot(peer[n], s, run[n][s], a)
    PROVE  Progress /\ NoneTaken
<1>1. \A m \in Nodes, t \in Sessions : run'[m][t] = IF m = n /\ t = s THEN run[n][s] ELSE run[m][t]
    BY Zenon
<1>2. \A m \in Nodes, t \in Sessions : agent'[m][t] = IF m = n /\ t = s THEN a ELSE agent[m][t]
    BY Update DEF NegotiationInv, TypeOK
<1>3. n = 2 => run[n][s] # "sleep"
    BY Zenon DEF NegotiationInv, Responder
<1> QED  BY <1>1, <1>2, <1>3, OneSlot

\* It gives up: to sleep, or to return.
LEMMA GivesUp ==
    ASSUME NegotiationInv, NEW n \in Nodes, NEW s \in Sessions,
           run[n][s] \in {"exchange", "wait", "dial"},
           run' = [run EXCEPT ![n][s] = Retry(n)], agent' = [agent EXCEPT ![n][s] = Shut(@)],
           UNCHANGED <<peer, clock>>
    PROVE  Progress /\ NoneTaken
<1>1. Slot(peer[n], s, run[n][s], agent[n][s]) /\ agent[n][s] \in Agents
    BY Zenon DEF NegotiationInv, Slots, TypeOK
<1>2. Shut(agent[n][s]) \in Agents /\ ~ IsOpen(Shut(agent[n][s]))
    BY <1>1, ShutType, ShutValue, Zenon
<1>3. /\ Retry(n) \in Labels /\ Retry(n) \in {"sleep", "done"} /\ Retry(n) \notin Early
      /\ n = 2 => Retry(n) # "sleep"
    BY DEF Retry, Labels, Early, Initiates, Peer
<1>4. Slot(peer[n], s, Retry(n), Shut(agent[n][s]))
    BY <1>1, <1>2, <1>3, Zenon DEF Slot
<1>5. agent' = [agent EXCEPT ![n][s] = Shut(agent[n][s])]
    BY Zenon
<1> QED  BY <1>2, <1>3, <1>4, <1>5, Moves, Zenon

\* A step that changes nothing a device holds.
LEMMA Unmoved ==
    ASSUME NegotiationInv, UNCHANGED <<peer, clock, run, agent>>
    PROVE  Progress /\ NoneTaken
<1>1. Slots' /\ Epochs' /\ Responder'
    BY Zenon DEF NegotiationInv, Slots, Epochs, Responder
<1>2. \A s \in Sessions : Backed(s) => Backed(s)'
    BY Zenon DEF Backed
<1>3. clock <= clock' /\ NoneTaken
    BY DEF NegotiationInv, TypeOK, NoneTaken
<1> QED  BY <1>1, <1>2, <1>3, Zenon DEF Progress

LEMMA NewAgentStep ==
    ASSUME NegotiationInv, NEW n \in Nodes, NEW s \in Sessions, NewAgent(n, s) \/ NoAgentYet(n, s)
    PROVE  Progress /\ NoneTaken
<1>1. Slot(peer[n], s, run[n][s], agent[n][s]) /\ agent[n][s] \in Agents /\ run[n][s] = "start"
    BY ZenonT(30) DEF NegotiationInv, Slots, TypeOK, NewAgent, NoAgentYet
<1>2. CASE NewAgent(n, s) /\ ~ closed[n]
    <2> DEFINE a == [agent[n][s] EXCEPT !.st = "open"]
    <2>1. a \in Agents /\ a.st = "open"
        BY <1>1, Zenon DEF Agents
    <2>2. /\ run' = [run EXCEPT ![n][s] = "attach"] /\ agent' = [agent EXCEPT ![n][s] = a]
          /\ UNCHANGED <<peer, clock>>
        BY <1>2, Zenon DEF NewAgent
    <2> HIDE DEF a
    <2>3. Slot(peer[n], s, "attach", a)
        BY <1>1, <2>1, Zenon DEF Slot
    <2>4. "attach" \in Labels
        BY Zenon DEF Labels
    <2> QED  BY <1>1, <2>1, <2>2, <2>3, <2>4, Moves, Zenon DEF Early
<1>3. CASE \/ NewAgent(n, s) /\ closed[n]
           \/ NoAgentYet(n, s)
    <2>1. PICK l \in {"sleep", "done"} :
             /\ run' = [run EXCEPT ![n][s] = l] /\ UNCHANGED <<agent, peer, clock>>
             /\ n = 2 => l # "sleep"
        BY <1>3 DEF NewAgent, NoAgentYet, Retry, Initiates, Peer
    <2>2. Slot(peer[n], s, l, agent[n][s])
        BY <1>1, <2>1, Zenon DEF Slot, IsOpen
    <2>3. l \in Labels /\ l # "none"
        BY <2>1, Zenon DEF Labels
    <2>4. \A m \in Nodes, t \in Sessions : run'[m][t] = IF m = n /\ t = s THEN l ELSE run[m][t]
        BY <2>1, <2>3, Update DEF NegotiationInv, TypeOK
    <2>5. \A m \in Nodes, t \in Sessions : agent'[m][t] = IF m = n /\ t = s THEN agent[n][s] ELSE agent[m][t]
        BY <2>1, Zenon
    <2> QED  BY <1>1, <2>1, <2>2, <2>3, <2>4, <2>5, OneSlot DEF Early
<1> QED  BY <1>2, <1>3, Zenon

\* Credentials are sent, or that fails.
LEMMA ExchangeStep ==
    ASSUME NegotiationInv, TypeOK', NEW n \in Nodes, NEW s \in Sessions, Exchange(n, s) \/ ExchangeFails(n, s)
    PROVE  NegotiationInv'
<1>1. Slot(peer[n], s, run[n][s], agent[n][s]) /\ agent[n][s] \in Agents /\ run[n][s] = "exchange"
    BY DEF NegotiationInv, Slots, TypeOK, Exchange, ExchangeFails
<1>2. Progress /\ NoneTaken
    <2>1. CASE Exchange(n, s)
        <3> DEFINE a == [agent[n][s] EXCEPT !.local = TRUE]
                   l == IF Initiates(n) THEN "wait" ELSE "dial"
        <3>1. a \in Agents /\ a.st = agent[n][s].st
            BY <1>1, Zenon DEF Agents
        <3>2. /\ run' = [run EXCEPT ![n][s] = l] /\ agent' = [agent EXCEPT ![n][s] = a]
              /\ UNCHANGED <<peer, clock>>
            BY <2>1, Zenon DEF Exchange
        <3>3. l \in Labels /\ l \in {"wait", "dial"}
            BY Zenon DEF Labels
        <3> HIDE DEF a, l
        <3>4. Slot(peer[n], s, l, a)
            BY <1>1, <3>1, <3>3, Zenon DEF Slot, IsOpen
        <3> QED  BY <1>1, <3>1, <3>2, <3>3, <3>4, Moves, Zenon DEF Early
    <2>2. CASE ExchangeFails(n, s)
        BY <1>1, <2>2, GivesUp, Zenon DEF ExchangeFails
    <2> QED  BY <2>1, <2>2, Zenon
<1>3. CASE UNCHANGED sig
    BY <1>2, <1>3, SignalsKept, Zenon
<1>4. CASE Send(n, Credentials(n, s))
    <2> DEFINE m == Credentials(n, s)
    <2>1. m \in Envelopes /\ m.session = s /\ m.kind = IF n = 1 THEN "offer" ELSE "answer"
        BY DEF Credentials, Msg, Envelopes, Initiates, Peer, Nodes
    <2> HIDE DEF m
    <2>2. s <= clock /\ s <= clock'
        BY <1>1, <1>2, ConnMgrAssumption DEF NegotiationInv, Epochs, TypeOK, Sessions, Progress
    <2>3. ASSUME n = 2 PROVE ToInitiator(m)'
        BY <2>1, <2>2, <2>3 DEF ToInitiator
    <2>4. ASSUME n = 1
          PROVE  /\ ToResponder(m)'
                 /\ \A i \in 1 .. Len(sig[2]) : sig[2][i].kind = "offer" => sig[2][i].session # m.session
        <3>1. ~ Backed(s) /\ run[1][s] \in Early
            BY <1>1, <2>4, Zenon DEF Backed, Early
        <3>2. run'[2][s] = "none"
            BY <1>2, <3>1, Zenon DEF NegotiationInv, Offered, NoneTaken
        <3>3. Backed(s)'
            <4>1. run'[1][s] \notin Early
                <5>1. PICK l \in {"wait", "dial", "sleep", "done"} : run' = [run EXCEPT ![n][s] = l]
                    BY Zenon DEF Exchange, ExchangeFails, Retry
                <5> QED  BY <2>4, <5>1, Zenon DEF NegotiationInv, TypeOK, Early
            <4>2. peer'[1].session = s => peer'[1].agent = s
                BY <1>1, <2>4, Zenon DEF Slot, Exchange, ExchangeFails
            <4> QED  BY <4>1, <4>2, Zenon DEF Backed
        <3>4. ToResponder(m)'
            BY <2>1, <2>2, <3>2, <3>3, Zenon DEF ToResponder
        <3>5. \A i \in 1 .. Len(sig[2]) : sig[2][i].kind = "offer" => sig[2][i].session # m.session
            BY <2>1, <3>1, Zenon DEF NegotiationInv, Signals, ToResponder
        <3> QED  BY <3>4, <3>5, Zenon
    <2>5. Send(n, m)
        BY <1>4, Zenon DEF m
    <2> QED  BY <1>2, <2>1, <2>3, <2>4, <2>5, SignalsSent, Zenon
<1> QED  BY <1>3, <1>4, Zenon DEF Exchange, ExchangeFails

\* A candidate is announced.
LEMMA CandidateStep ==
    ASSUME NegotiationInv, TypeOK', NEW n \in Nodes, NEW s \in Sessions, OnCandidate(n, s)
    PROVE  NegotiationInv'
<1>1. Slot(peer[n], s, run[n][s], agent[n][s]) /\ agent[n][s] \in Agents
    BY Zenon DEF NegotiationInv, Slots, TypeOK
<1>2. run[n][s] # "none"
    BY <1>1, Zenon DEF OnCandidate, Slot
<1>3. Progress /\ NoneTaken
    <2> DEFINE a == [agent[n][s] EXCEPT !.local = FALSE]
    <2>1. a \in Agents /\ a.st = agent[n][s].st
        BY <1>1, Zenon DEF Agents
    <2>2. agent' = [agent EXCEPT ![n][s] = a] /\ UNCHANGED <<peer, clock, run>>
        BY Zenon DEF OnCandidate
    <2> HIDE DEF a
    <2>3. Slot(peer[n], s, run[n][s], a)
        BY <1>1, <1>2, <2>1, Zenon DEF Slot, IsOpen
    <2> QED  BY <1>2, <2>1, <2>2, <2>3, AgentMoves, Zenon
<1>4. CASE UNCHANGED sig
    BY <1>3, <1>4, SignalsKept, Zenon
<1>5. CASE Send(n, Msg("candidate", s))
    <2> DEFINE m == Msg("candidate", s)
    <2>1. m \in Envelopes /\ m.session = s /\ m.kind = "candidate"
        BY Zenon DEF Msg, Envelopes
    <2>2. Send(n, m)
        BY <1>5, Zenon
    <2> HIDE DEF m
    <2>3. s <= clock /\ s <= clock'
        BY <1>2, <1>3, ConnMgrAssumption DEF NegotiationInv, Epochs, TypeOK, Sessions, Progress
    <2>4. ToResponder(m)'
        BY <2>1, <2>3, Zenon DEF ToResponder
    <2>5. n = 2 => ToInitiator(m)'
        BY <1>2, <1>3, <2>1, <2>3, Zenon DEF ToInitiator, NoneTaken
    <2> QED  BY <1>3, <2>1, <2>2, <2>4, <2>5, SignalsSent, Zenon
<1> QED  BY <1>4, <1>5, Zenon DEF OnCandidate

\* The agent's own steps and the callbacks it owes.
LEMMA AgentStep ==
    ASSUME NegotiationInv, NEW n \in Nodes, NEW s \in Sessions,
           \/ DialReturns(n, s) \/ Connect(n, s) \/ Disconnect(n, s)
           \/ \E state \in {"direct", "none"} : Report(n, s, state)
    PROVE  Progress /\ NoneTaken
<1>1. Slot(peer[n], s, run[n][s], agent[n][s]) /\ agent[n][s] \in Agents
    BY Zenon DEF NegotiationInv, Slots, TypeOK
<1>2. CASE DialReturns(n, s)
    <2> DEFINE a == [agent[n][s] EXCEPT !.owes = @ \cup {"direct"}]
    <2>1. a \in Agents /\ a.st = agent[n][s].st
        BY <1>1, Zenon DEF Agents
    <2>2. /\ run[n][s] = "dial" /\ run' = [run EXCEPT ![n][s] = "ok"]
          /\ agent' = [agent EXCEPT ![n][s] = a] /\ UNCHANGED <<peer, clock>>
        BY <1>2, Zenon DEF DialReturns
    <2> HIDE DEF a
    <2>3. Slot(peer[n], s, "ok", a)
        BY <1>1, <2>1, <2>2, Zenon DEF Slot, IsOpen
    <2>4. "ok" \in Labels
        BY Zenon DEF Labels
    <2> QED  BY <2>1, <2>2, <2>3, <2>4, Moves, Zenon DEF Early
<1>3. CASE Connect(n, s) \/ Disconnect(n, s)
    <2>1. PICK st \in {"connected", "failed"}, c \in {"direct", "none"} :
             agent' = [agent EXCEPT ![n][s] = Turned(@, st, c)]
        BY <1>3, Zenon DEF Connect, Disconnect
    <2> DEFINE a == Turned(agent[n][s], st, c)
    <2>2. a \in Agents /\ a.st = st
        BY <1>1, <2>1, Zenon DEF Agents, Turned
    <2>3. agent' = [agent EXCEPT ![n][s] = a] /\ UNCHANGED <<peer, clock, run>>
        BY <1>3, <2>1, Zenon DEF Connect, Disconnect
    <2> HIDE DEF a
    <2>4. agent[n][s].st \in {"open", "connected"}
        BY <1>3, Zenon DEF Connect, Disconnect
    <2>5. run[n][s] \notin {"none", "start", "sleep", "done"}
        BY <1>1, <2>4, Zenon DEF Slot, IsOpen
    <2>6. Slot(peer[n], s, run[n][s], a)
        BY <1>1, <2>1, <2>2, <2>4, <2>5, Zenon DEF Slot, IsOpen
    <2> QED  BY <2>2, <2>3, <2>5, <2>6, AgentMoves, Zenon
<1>4. ASSUME NEW state \in {"direct", "none"}, Report(n, s, state)
      PROVE  Progress /\ NoneTaken
    <2> DEFINE a == [agent[n][s] EXCEPT !.owes = @ \ {state}]
    <2>1. a \in Agents /\ a.st = agent[n][s].st
        BY <1>1, Zenon DEF Agents
    <2>2. agent' = [agent EXCEPT ![n][s] = a] /\ UNCHANGED <<peer, clock, run>>
        BY <1>4, Zenon DEF Report
    <2>3. run[n][s] # "none"
        BY <1>1, <1>4, Zenon DEF Report, Slot
    <2> HIDE DEF a
    <2>4. Slot(peer[n], s, run[n][s], a)
        BY <1>1, <2>1, <2>3, Zenon DEF Slot, IsOpen
    <2> QED  BY <2>1, <2>2, <2>3, <2>4, AgentMoves, Zenon
<1> QED  BY <1>2, <1>3, <1>4, Zenon

\* SetPeers, Restart and Close.
LEMMA DaemonStep ==
    ASSUME NegotiationInv, NEW n \in Nodes,
           \/ \E view \in {"absent", "offline", "online"} : SetPeers(n, view)
           \/ watchRoaming(n) \/ Close(n)
    PROVE  Progress /\ NoneTaken
<1>1. ASSUME NEW view \in {"absent", "offline", "online"}, SetPeers(n, view)
      PROVE  Progress /\ NoneTaken
    <2>1. CASE view # "online" /\ peer[n] # NoPeer
        <3>1. agent' = teardown(n, agent) /\ peer' = [peer EXCEPT ![n] = NoPeer] /\ UNCHANGED <<clock, run>>
            BY <1>1, <2>1, Zenon DEF SetPeers
        <3> QED  BY <3>1, DropStep, Zenon
    <2>2. CASE view = "online" /\ peer[n] = NoPeer /\ Initiates(n)
        <3>1. agent' = teardown(n, agent) /\ startInitiator(n, clock + 1)
            BY <1>1, <2>2 DEF SetPeers, teardown, NoPeer
        <3> QED  BY <2>2, <3>1, StartStep, Zenon
    <2>3. CASE /\ ~ (view # "online" /\ peer[n] # NoPeer)
               /\ ~ (view = "online" /\ peer[n] = NoPeer /\ Initiates(n))
        <3>1. UNCHANGED <<peer, clock, run, agent>>
            BY <1>1, <2>3, Zenon DEF SetPeers
        <3> QED  BY <3>1, Unmoved, Zenon
    <2> QED  BY <2>1, <2>2, <2>3, Zenon
<1>2. CASE watchRoaming(n)
    BY <1>2, StartStep, DropStep, Zenon DEF watchRoaming, Restart
<1>3. CASE Close(n)
    BY <1>3, DropStep, Zenon DEF Close
<1> QED  BY <1>1, <1>2, <1>3, Zenon

\* An envelope is handled.
LEMMA ReceiveStep ==
    ASSUME NegotiationInv, TypeOK', NEW n \in Nodes, receiveSignals(n)
    PROVE  NegotiationInv'
<1> DEFINE m == Head(sig[n])
           s == m.session
<1>1. sig[n] # <<>> /\ sig' = [sig EXCEPT ![n] = Tail(@)]
    BY Zenon DEF receiveSignals
<1>2. m \in Envelopes /\ m = sig[n][1] /\ 1 \in 1 .. Len(sig[n])
    <2>1. sig[n] \in Seq(Envelopes)
        BY Zenon DEF NegotiationInv, TypeOK
    <2> QED  BY <1>1, <2>1, HeadTailProperties
<1>3. s \in Sessions
    BY <1>2, Zenon DEF Envelopes
<1>4. n = 1 => m.kind # "offer"
    BY <1>2, Zenon DEF NegotiationInv, Signals, ToInitiator
<1>5. \/ m.kind = "offer" /\ HandleOffer(n, s)
      \/ m.kind = "answer" /\ HandleAnswer(n, s)
      \/ m.kind = "candidate" /\ HandleCandidate(n, s)
    BY Zenon DEF receiveSignals
<1>6. CASE m.kind = "offer" /\ HandleOffer(n, s)
    <2>1. n = 2
        BY <1>4, <1>6, Zenon DEF Nodes
    <2>2. CASE UNCHANGED <<peer, run, agent>>
        BY <1>1, <1>6, <2>2, Unmoved, SignalsRead, Zenon DEF HandleOffer
    <2>3. CASE /\ peer' = [peer EXCEPT ![n] = [NoPeer EXCEPT !.session = s]]
               /\ run' = [run EXCEPT ![n][s] = "start"]
               /\ agent' = teardown(n, agent)
        BY <1>1, <1>3, <1>6, <2>1, <2>3, OfferTaken, Zenon DEF HandleOffer
    <2> QED  BY <1>6, <2>2, <2>3, Zenon DEF HandleOffer
<1>7. CASE m.kind = "answer" /\ HandleAnswer(n, s)
    <2>1. CASE UNCHANGED run
        BY <1>1, <1>7, <2>1, Unmoved, SignalsRead, Zenon DEF HandleAnswer
    <2>2. CASE run[n][s] = "wait" /\ run' = [run EXCEPT ![n][s] = "dial"]
        <3>1. Slot(peer[n], s, "wait", agent[n][s])
            BY <1>3, <2>2, Zenon DEF NegotiationInv, Slots
        <3>2. Slot(peer[n], s, "dial", agent[n][s])
            BY <3>1, Zenon DEF Slot
        <3>3. \A k \in Nodes, t \in Sessions : run'[k][t] = IF k = n /\ t = s THEN "dial" ELSE run[k][t]
            <4>1. "dial" \in Labels /\ run \in [Nodes -> [Sessions -> Labels]]
                BY Zenon DEF NegotiationInv, TypeOK, Labels
            <4> HIDE DEF s
            <4> QED  BY <1>3, <2>2, <4>1, Update
        <3>4. UNCHANGED <<peer, clock, agent>>
            BY <1>7, Zenon DEF HandleAnswer
        <3>5. Progress /\ NoneTaken
            <4>1. \A k \in Nodes, t \in Sessions :
                     agent'[k][t] = IF k = n /\ t = s THEN agent[n][s] ELSE agent[k][t]
                BY <3>4, Zenon
            <4> HIDE DEF s
            <4> QED  BY <1>3, <2>2, <3>2, <3>3, <3>4, <4>1, OneSlot, SMTT(30) DEF Early
        <3> QED  BY <1>1, <3>5, SignalsRead, Zenon
    <2> QED  BY <1>7, <2>1, <2>2, Zenon DEF HandleAnswer
<1>8. CASE m.kind = "candidate" /\ HandleCandidate(n, s)
    <2>1. CASE UNCHANGED <<peer, agent>>
        BY <1>1, <1>8, <2>1, Unmoved, SignalsRead, Zenon DEF HandleCandidate
    <2>2. CASE peer' = [peer EXCEPT ![n].pending = TRUE] /\ UNCHANGED agent
        <3>1. UNCHANGED <<clock, run, agent>>
            BY <1>8, <2>2, Zenon DEF HandleCandidate
        <3>2. \A k \in Nodes : peer'[k].session = peer[k].session /\ peer'[k].agent = peer[k].agent
            BY <2>2, ZenonT(30) DEF NegotiationInv, TypeOK, PeerConns
        <3>3. Slots'
            <4> SUFFICES ASSUME NEW k \in Nodes, NEW t \in Sessions
                         PROVE  Slot(peer[k], t, run[k][t], agent[k][t])'
                BY Zenon DEF Slots
            <4>1. Slot(peer[k], t, run[k][t], agent[k][t])
                BY Zenon DEF NegotiationInv, Slots
            <4> QED  BY <3>1, <3>2, <4>1, Zenon DEF Slot
        <3>4. Epochs' /\ Responder'
            BY <3>1, <3>2, Zenon DEF NegotiationInv, Epochs, Responder, Nodes
        <3>5. \A t \in Sessions : Backed(t) => Backed(t)'
            BY <3>1, <3>2, Zenon DEF Backed, Nodes
        <3>6. clock <= clock' /\ NoneTaken
            BY <3>1 DEF NegotiationInv, TypeOK, NoneTaken
        <3>7. Progress
            BY <3>3, <3>4, <3>5, <3>6, Zenon DEF Progress
        <3> QED  BY <1>1, <3>6, <3>7, SignalsRead, Zenon
    <2>3. CASE /\ peer[n].agent # 0
               /\ agent' = [agent EXCEPT ![n][peer[n].agent].remote = IsOpen(agent[n][peer[n].agent])]
               /\ UNCHANGED peer
        <3> DEFINE t == peer[n].agent
                   a == [agent[n][t] EXCEPT !.remote = IsOpen(agent[n][t])]
        <3>1. t \in Sessions
            BY <2>3, ConnMgrAssumption DEF NegotiationInv, TypeOK, PeerConns, Sessions
        <3>2. agent[n][t] \in Agents /\ Slot(peer[n], t, run[n][t], agent[n][t])
            BY <3>1, Zenon DEF NegotiationInv, TypeOK, Slots
        <3>3. IsOpen(agent[n][t]) \in BOOLEAN
            BY DEF IsOpen
        <3>4. a \in Agents
            BY <3>2, <3>3, RemoteType, Zenon
        <3>5. a.st = agent[n][t].st
            BY <3>2, Zenon DEF Agents
        <3>6. agent' = [agent EXCEPT ![n][t] = a] /\ UNCHANGED <<peer, clock, run>>
            BY <1>8, <2>3, Zenon DEF HandleCandidate
        <3>7. run[n][t] # "none"
            BY <3>2, Zenon DEF Slot
        <3> HIDE DEF a
        <3>8. Slot(peer[n], t, run[n][t], a)
            BY <3>2, <3>5, <3>7, Zenon DEF Slot, IsOpen
        <3>9. Progress /\ NoneTaken
            <4> HIDE DEF t
            <4> QED  BY <3>1, <3>4, <3>6, <3>7, <3>8, AgentMoves, Zenon
        <3> QED  BY <1>1, <3>9, SignalsRead, Zenon
    <2> QED  BY <1>8, <2>1, <2>2, <2>3, Zenon DEF HandleCandidate
<1> QED  BY <1>5, <1>6, <1>7, <1>8, Zenon

LEMMA NegotiationInit == Init => NegotiationInv
<1> SUFFICES ASSUME Init PROVE NegotiationInv
    BY Zenon
<1> USE ConnMgrAssumption
<1>1. TypeOK
    <2>1. NoAgent \in Agents /\ "none" \in Labels
        BY Zenon DEF NoAgent, Agents, Labels
    <2> QED  BY <2>1, PeerTypes DEF Init, TypeOK
<1>2. \A n \in Nodes : peer[n].session = 0 /\ peer[n].agent = 0
    BY Zenon DEF Init, NoPeer
<1>3. \A n \in Nodes, s \in Sessions :
         /\ run[n][s] = "none" /\ agent[n][s].st = "none"
         /\ ~ agent[n][s].local /\ agent[n][s].owes = {}
    BY Zenon DEF Init, NoAgent
<1>4. Slots
    <2> SUFFICES ASSUME NEW n \in Nodes, NEW s \in Sessions PROVE Slot(peer[n], s, run[n][s], agent[n][s])
        BY Zenon DEF Slots
    <2>1. s # 0
        BY DEF Sessions
    <2> QED  BY <1>2, <1>3, <2>1 DEF Slot, IsOpen
<1>5. Epochs /\ Responder /\ Offered
    BY <1>2, <1>3 DEF Init, Epochs, Responder, Offered, Nodes
<1>6. Signals
    BY DEF Init, Signals, Nodes
<1> QED  BY <1>1, <1>4, <1>5, <1>6, Zenon DEF NegotiationInv

LEMMA NegotiationStep == NegotiationInv /\ [Next]_vars => NegotiationInv'
<1> SUFFICES ASSUME NegotiationInv, [Next]_vars PROVE NegotiationInv'
    BY Zenon
<1>1. TypeOK'
    BY TypeStep, Zenon DEF NegotiationInv
<1>2. ASSUME NEW n \in Nodes,
             \/ \E view \in {"absent", "offline", "online"} : SetPeers(n, view)
             \/ watchRoaming(n) \/ Close(n)
      PROVE  NegotiationInv'
    <2>1. UNCHANGED sig
        BY <1>2, Zenon DEF SetPeers, watchRoaming, Restart, Close
    <2> QED  BY <1>1, <1>2, <2>1, DaemonStep, SignalsKept, Zenon
<1>3. ASSUME NEW n \in Nodes, Crash(n) PROVE NegotiationInv'
    BY <1>1, <1>3, CrashStep, SignalsKept, Zenon DEF Crash
<1>4. ASSUME NEW n \in Nodes, BindOpen(n) \/ BindClose(n) PROVE NegotiationInv'
    BY <1>1, <1>4, Unmoved, SignalsKept, Zenon DEF BindOpen, BindClose
<1>5. ASSUME NEW n \in Nodes, receiveSignals(n) PROVE NegotiationInv'
    BY <1>1, <1>5, ReceiveStep, Zenon
<1>6. ASSUME NEW n \in Nodes, NEW s \in Sessions, Step(n, s) \/ NoAgentYet(n, s) PROVE NegotiationInv'
    <2>1. CASE NewAgent(n, s) \/ NoAgentYet(n, s)
        BY <1>1, <2>1, NewAgentStep, SignalsKept, Zenon DEF NewAgent, NoAgentYet
    <2>2. CASE Attach(n, s)
        BY <1>1, <2>2, AttachStep, SignalsKept, Zenon DEF Attach
    <2>3. CASE Exchange(n, s) \/ ExchangeFails(n, s)
        BY <1>1, <2>3, ExchangeStep, Zenon
    <2>4. CASE OnCandidate(n, s)
        BY <1>1, <2>4, CandidateStep, Zenon
    <2>5. CASE AnswerTimeout(n, s) \/ DialFails(n, s)
        <3>1. Progress /\ NoneTaken
            BY <2>5, GivesUp, Zenon DEF AnswerTimeout, DialFails
        <3> QED  BY <1>1, <2>5, <3>1, SignalsKept, Zenon DEF AnswerTimeout, DialFails
    <2>6. CASE runInitiator(n, s)
        BY <1>1, <2>6, RetryStep, SignalsKept, Zenon DEF runInitiator
    <2>7. CASE \/ DialReturns(n, s) \/ Connect(n, s) \/ Disconnect(n, s)
               \/ \E state \in {"direct", "none"} : Report(n, s, state)
        <3>1. UNCHANGED sig
            BY <2>7, Zenon DEF DialReturns, Connect, Disconnect, Report
        <3> QED  BY <1>1, <2>7, <3>1, AgentStep, SignalsKept, Zenon
    <2> QED  BY <1>6, <2>1, <2>2, <2>3, <2>4, <2>5, <2>6, <2>7, Zenon DEF Step
<1>7. CASE UNCHANGED vars
    BY <1>1, <1>7, Unmoved, SignalsKept, Zenon DEF vars
<1> QED  BY <1>2, <1>3, <1>4, <1>5, <1>6, <1>7, Zenon DEF Next

LEMMA NegotiationInvariant == Spec => []NegotiationInv
BY NegotiationInit, NegotiationStep, PTL DEF Spec

(* Every variable keeps its type, for any number of sessions and faults.   *)
THEOREM TypeCorrect == Spec => []TypeOK
<1>1. NegotiationInv => TypeOK
    BY Zenon DEF NegotiationInv
<1> QED  BY <1>1, NegotiationInvariant, PTL

(* Whenever Restart, SetPeers, Close, a newer offer or a crash overtakes a *)
(* negotiation, the ICE agent it has made is closed by somebody: an open   *)
(* one is in its peerConn or about to be attached or closed by negotiate.  *)
THEOREM NoAgentLeaks == Spec => []AgentsOwned
<1>1. NegotiationInv => AgentsOwned
    BY Zenon DEF NegotiationInv, Slots, Slot, AgentsOwned
<1> QED  BY <1>1, NegotiationInvariant, PTL

(* A candidate that HandleCandidate would take for the current session     *)
(* never meets the agent a retry has left in the peerConn.                 *)
THEOREM CandidatesFindTheirAgent == Spec => []CandidatesMeetTheirAgent
<1>1. NegotiationInv => CandidatesMeetTheirAgent
    <2> SUFFICES ASSUME NegotiationInv, NEW n \in Nodes, NEW i \in 1 .. Len(sig[n]),
                        sig[n][i].kind = "candidate", sig[n][i].session = peer[n].session
                 PROVE  peer[n].agent \in {0, peer[n].session}
        BY Zenon DEF CandidatesMeetTheirAgent
    <2>1. CASE n = 2
        BY <2>1, Zenon DEF NegotiationInv, Responder
    <2>2. CASE n = 1
        <3>1. sig[1][i] \in Envelopes
            BY <2>2, SignalTypes, Zenon DEF NegotiationInv, Nodes
        <3>2. run[2][peer[1].session] # "none" /\ peer[1].session \in Sessions
            BY <2>2, <3>1, Zenon DEF NegotiationInv, Signals, ToInitiator, Envelopes
        <3> QED  BY <2>2, <3>2, Zenon DEF NegotiationInv, Offered, Backed
    <2> QED  BY <2>1, <2>2, Zenon DEF Nodes
<1> QED  BY <1>1, NegotiationInvariant, PTL
=============================================================================
