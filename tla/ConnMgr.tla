------------------------------ MODULE ConnMgr ------------------------------
(***************************************************************************)
(* Path negotiation between two devices: internal/magicsock/connmgr.go,    *)
(* the readiness of bind.go, and the daemon's signalling around them.      *)
(*                                                                         *)
(* Device 1 has the lower node ID and initiates; device 2 responds.  The   *)
(* initiator numbers its attempts with ever larger session epochs, so the  *)
(* negotiate call of session s on device n, and the ICE agent it creates,  *)
(* are run[n][s] and agent[n][s].  Offers, answers and candidates travel   *)
(* through the coordinator, which keeps their order and may lose them.     *)
(*                                                                         *)
(* The ICE library is external: an agent can connect once both sides run   *)
(* their checks for one session and at least one of them knows a candidate *)
(* of the other.  A timeout that fires although its answer is still on the *)
(* way counts as a fault; one that fires when nothing can come any more    *)
(* does not.                                                               *)
(***************************************************************************)
EXTENDS Integers, Sequences, FiniteSets

CONSTANTS
    MaxSession,  \* bound on session epochs
    MaxFaults,   \* bound on faults, roaming, netmap changes and restarts
    Faults       \* the kinds of fault that may happen

FaultKinds == {"loss", "error", "late", "ice", "bind", "netmap", "restart", "close", "crash"}

ASSUME ConnMgrAssumption ==
    MaxSession \in Nat /\ MaxFaults \in Nat /\ Faults \subseteq FaultKinds

VARIABLES
    closed,   \* ConnMgr.closed
    peer,     \* ConnMgr.peers: the peerConn for the other device, or NoPeer
    clock,    \* the last session epoch taken from time.Now
    run,      \* the goroutine that negotiates a session
    agent,    \* the ICE agent of a session
    sig,      \* envelopes on their way to a device
    bind,     \* whether the shared socket is open (Bind.Ready)
    path,     \* the daemon's peerInfo.path, "unknown" if it has no such peer
    faults    \* faults so far

vars == <<closed, peer, clock, run, agent, sig, bind, path, faults>>

Nodes == {1, 2}
Peer(n) == 3 - n
Initiates(n) == n < Peer(n)
Sessions == 1 .. MaxSession
NoPeer == [session |-> 0, agent |-> 0, pending |-> FALSE]

\* The agent's state, whether its own candidate is still to be announced,
\* whether it was given one of the peer's, and the path callbacks it owes.
NoAgent == [st |-> "none", local |-> FALSE, remote |-> FALSE, owes |-> {}]

\* A named kind of fault happens.
Fault(kind) == kind \in Faults /\ faults < MaxFaults /\ faults' = faults + 1
NoFault == faults' = faults

Init ==
    /\ closed = [n \in Nodes |-> FALSE]
    /\ peer = [n \in Nodes |-> NoPeer]
    /\ clock = 0
    /\ run = [n \in Nodes |-> [s \in Sessions |-> "none"]]
    /\ agent = [n \in Nodes |-> [s \in Sessions |-> NoAgent]]
    /\ sig = [n \in Nodes |-> <<>>]
    /\ bind = [n \in Nodes |-> FALSE]
    /\ path = [n \in Nodes |-> "unknown"]
    /\ faults = 0

-----------------------------------------------------------------------------
(* Pieces of the handlers.                                                 *)

\* Daemon.onPathUpdate: dropped when the netmap has not named the peer yet.
onPath(n, state) ==
    path' = [path EXCEPT ![n] = IF @ = "unknown" THEN @ ELSE state]

\* ice.Agent.Close: nothing is announced or checked any more; callbacks
\* already under way still run.
Shut(a) == IF a.st = "none" THEN a
           ELSE [a EXCEPT !.st = "closed", !.local = FALSE, !.remote = FALSE]

IsOpen(a) == a.st \in {"open", "connected", "failed"}

teardown(n, agents) ==
    IF peer[n].agent = 0 THEN agents
    ELSE [agents EXCEPT ![n][peer[n].agent] = Shut(@)]

\* startInitiatorLocked's peerConn and goroutine; the caller reports the path.
startInitiator(n, s) ==
    /\ s \in Sessions
    /\ clock' = s
    /\ peer' = [peer EXCEPT ![n] = [NoPeer EXCEPT !.session = s]]
    /\ run' = [run EXCEPT ![n][s] = "start"]

\* Where a negotiate that returns (false, true) leaves its goroutine.
Retry(n) == IF Initiates(n) THEN "sleep" ELSE "done"

-----------------------------------------------------------------------------
(* What the daemon calls.                                                  *)

\* applyNetMap's part: d.peers, then SetPeers with the online peers.
SetPeers(n, view) ==
    LET drop == view # "online" /\ peer[n] # NoPeer
        start == view = "online" /\ peer[n] = NoPeer /\ Initiates(n) IN
    /\ ~ closed[n]
    /\ IF view = "online" THEN NoFault ELSE Fault("netmap")
    /\ agent' = IF drop THEN teardown(n, agent) ELSE agent
    /\ IF start THEN startInitiator(n, clock + 1)
       ELSE /\ peer' = IF drop THEN [peer EXCEPT ![n] = NoPeer] ELSE peer
            /\ UNCHANGED <<clock, run>>
    /\ path' = [path EXCEPT ![n] = IF view = "absent" THEN "unknown"
                                   ELSE IF start THEN "connecting"
                                   ELSE IF drop \/ @ = "unknown" THEN "none" ELSE @]
    /\ UNCHANGED <<closed, sig, bind>>

Restart(n) ==
    /\ ~ closed[n] /\ peer[n] # NoPeer
    /\ agent' = teardown(n, agent)
    /\ IF Initiates(n) THEN startInitiator(n, clock + 1)
       ELSE peer' = [peer EXCEPT ![n] = NoPeer] /\ UNCHANGED <<clock, run>>
    /\ onPath(n, "connecting")
    /\ UNCHANGED <<closed, sig, bind>>

\* The local addresses have changed since the last look.
watchRoaming(n) == Fault("restart") /\ Restart(n)

\* A slip: the flag is set and the agents are left to their goroutines.
Close_Leaves(n) ==
    /\ ~ closed[n] /\ Fault("close")
    /\ closed' = [closed EXCEPT ![n] = TRUE]
    /\ peer' = [peer EXCEPT ![n] = NoPeer]
    /\ UNCHANGED <<clock, run, agent, sig, bind, path>>

\* ConnMgr.Close, by the daemon's session when it ends.
Close(n) ==
    /\ ~ closed[n] /\ Fault("close")
    /\ closed' = [closed EXCEPT ![n] = TRUE]
    /\ agent' = teardown(n, agent)
    /\ peer' = [peer EXCEPT ![n] = NoPeer]
    /\ UNCHANGED <<clock, run, sig, bind, path>>

\* The daemon process dies and comes back with a new ConnMgr.
Crash(n) ==
    /\ Fault("crash")
    /\ closed' = [closed EXCEPT ![n] = FALSE]
    /\ peer' = [peer EXCEPT ![n] = NoPeer]
    /\ run' = [run EXCEPT ![n] = [s \in Sessions |-> IF @[s] = "none" THEN "none" ELSE "done"]]
    /\ agent' = [agent EXCEPT ![n] = [s \in Sessions |-> [Shut(@[s]) EXCEPT !.owes = {}]]]
    /\ bind' = [bind EXCEPT ![n] = FALSE]
    /\ path' = [path EXCEPT ![n] = "unknown"]
    /\ UNCHANGED <<clock, sig>>

\* wireguard-go opens the bind, and closes it for every BindUpdate.
BindOpen(n) ==
    /\ ~ bind[n]
    /\ bind' = [bind EXCEPT ![n] = TRUE]
    /\ UNCHANGED <<closed, peer, clock, run, agent, sig, path, faults>>

BindClose(n) ==
    /\ bind[n] /\ Fault("bind")
    /\ bind' = [bind EXCEPT ![n] = FALSE]
    /\ UNCHANGED <<closed, peer, clock, run, agent, sig, path>>

-----------------------------------------------------------------------------
(* negotiate, one step per point at which it can be overtaken.             *)

\* Bind.Ready, then ice.NewAgent.
NewAgent(n, s) ==
    /\ run[n][s] = "start" /\ (closed[n] \/ bind[n])
    /\ run' = [run EXCEPT ![n][s] = IF closed[n] THEN "done" ELSE "attach"]
    /\ agent' = IF closed[n] THEN agent ELSE [agent EXCEPT ![n][s].st = "open"]
    /\ UNCHANGED <<closed, peer, clock, sig, bind, path, faults>>

\* The 30 s wait for the bind runs out, or ice.NewAgent fails.
NoAgentYet(n, s) ==
    /\ run[n][s] = "start" /\ ~ closed[n] /\ Fault("late")
    /\ run' = [run EXCEPT ![n][s] = Retry(n)]
    /\ UNCHANGED <<closed, peer, clock, agent, sig, bind, path>>

\* A slip: the agent is attached without asking whose session it is.
Attach_Unchecked(n, s) ==
    /\ run[n][s] = "attach"
    /\ run' = [run EXCEPT ![n][s] = "exchange"]
    /\ peer' = [peer EXCEPT ![n].agent = s, ![n].pending = FALSE]
    /\ agent' = [agent EXCEPT ![n][s].remote = peer[n].pending]
    /\ UNCHANGED <<closed, clock, sig, bind, path, faults>>

\* Attach the agent and the candidates that raced ahead of it, or give up.
Attach(n, s) ==
    /\ run[n][s] = "attach"
    /\ IF peer[n].session = s
       THEN /\ run' = [run EXCEPT ![n][s] = "exchange"]
            /\ peer' = [peer EXCEPT ![n] = [@ EXCEPT !.agent = s, !.pending = FALSE]]
            /\ agent' = [agent EXCEPT ![n][s].remote = peer[n].pending]
       ELSE /\ run' = [run EXCEPT ![n][s] = "done"]
            /\ agent' = [agent EXCEPT ![n][s] = Shut(@)]
            /\ UNCHANGED peer
    /\ UNCHANGED <<closed, clock, sig, bind, path, faults>>

Msg(kind, s) == [kind |-> kind, session |-> s]
Credentials(n, s) == Msg(IF Initiates(n) THEN "offer" ELSE "answer", s)

\* signaler.send of the coordinator's SignalStream: it may be lost there.
Send(n, m) == sig' = [sig EXCEPT ![Peer(n)] = Append(@, m)]

\* SendOffer or SendAnswer, then GatherCandidates.
Exchange(n, s) ==
    /\ run[n][s] = "exchange" /\ agent[n][s].st = "open"
    /\ \/ Send(n, Credentials(n, s)) /\ NoFault
       \/ UNCHANGED sig /\ Fault("loss")
    /\ run' = [run EXCEPT ![n][s] = IF Initiates(n) THEN "wait" ELSE "dial"]
    /\ agent' = [agent EXCEPT ![n][s].local = TRUE]
    /\ UNCHANGED <<closed, peer, clock, bind, path>>

\* The signal stream is down, or the agent was torn down under our feet.
ExchangeFails(n, s) ==
    /\ run[n][s] = "exchange"
    /\ IF agent[n][s].st = "closed" THEN NoFault ELSE Fault("error")
    /\ Send(n, Credentials(n, s)) \/ UNCHANGED sig
    /\ run' = [run EXCEPT ![n][s] = Retry(n)]
    /\ agent' = [agent EXCEPT ![n][s] = Shut(@)]
    /\ UNCHANGED <<closed, peer, clock, bind, path>>

\* OnCandidate: SendCandidate, whose error is only logged.
OnCandidate(n, s) ==
    /\ agent[n][s].local
    /\ agent' = [agent EXCEPT ![n][s].local = FALSE]
    /\ \/ Send(n, Msg("candidate", s)) /\ NoFault
       \/ UNCHANGED sig /\ Fault("loss")
    /\ UNCHANGED <<closed, peer, clock, run, bind, path>>

InFlight(n, m) == \E i \in 1 .. Len(sig[n]) : sig[n][i] = m

\* Whether the responder's answer may still come.
AnswerComing(s) ==
    \/ InFlight(2, Msg("offer", s)) \/ InFlight(1, Msg("answer", s))
    \/ run[2][s] \in {"start", "attach", "exchange"}

\* No answer within 20 s.
AnswerTimeout(n, s) ==
    /\ run[n][s] = "wait"
    /\ IF AnswerComing(s) THEN Fault("late") ELSE NoFault
    /\ run' = [run EXCEPT ![n][s] = Retry(n)]
    /\ agent' = [agent EXCEPT ![n][s] = Shut(@)]
    /\ UNCHANGED <<closed, peer, clock, sig, bind, path>>

\* agent.Dial or Accept returns a connection; its selected pair is reported.
DialReturns(n, s) ==
    /\ run[n][s] = "dial" /\ agent[n][s].st \in {"connected", "failed"}
    /\ run' = [run EXCEPT ![n][s] = "ok"]
    /\ agent' = [agent EXCEPT ![n][s].owes = @ \cup {"direct"}]
    /\ UNCHANGED <<closed, peer, clock, sig, bind, path, faults>>

CandidateComing(s) == \E n \in Nodes :
    \/ agent[n][s].local \/ agent[n][s].remote
    \/ InFlight(n, Msg("candidate", s))
    \/ (peer[n].session = s /\ peer[n].pending)

\* Whether the checks of session s on n can still succeed.
ConnectComing(n, s) ==
    LET m == Peer(n) IN
    /\ agent[n][s].st = "open"
    /\ CandidateComing(s)
    /\ \/ run[m][s] \in {"start", "attach", "exchange", "wait", "dial"} /\ agent[m][s].st # "closed"
       \/ agent[m][s].st = "connected"

\* Dial or Accept fails: cancelled, closed, or 45 s are over.
DialFails(n, s) ==
    /\ run[n][s] = "dial" /\ agent[n][s].st \notin {"connected", "failed"}
    /\ IF ConnectComing(n, s) THEN Fault("late") \/ Fault("ice") ELSE NoFault
    /\ onPath(n, "none")
    /\ run' = [run EXCEPT ![n][s] = Retry(n)]
    /\ agent' = [agent EXCEPT ![n][s] = Shut(@)]
    /\ UNCHANGED <<closed, peer, clock, sig, bind>>

\* A slip: a failed attempt is not repeated.
runInitiator_Once(n, s) ==
    /\ run[n][s] = "sleep"
    /\ run' = [run EXCEPT ![n][s] = "done"]
    /\ UNCHANGED <<closed, peer, clock, agent, sig, bind, path, faults>>

\* runInitiator after its back-off: a new session unless it is stale.
runInitiator(n, s) ==
    /\ run[n][s] = "sleep"
    /\ IF peer[n].session # s \/ closed[n]
       THEN /\ run' = [run EXCEPT ![n][s] = "done"]
            /\ UNCHANGED <<peer, clock>>
       ELSE /\ clock + 1 \in Sessions
            /\ clock' = clock + 1
            /\ peer' = [peer EXCEPT ![n] = [@ EXCEPT !.session = clock + 1, !.pending = FALSE]]
            /\ run' = [run EXCEPT ![n][s] = "done", ![n][clock + 1] = "start"]
    /\ UNCHANGED <<closed, agent, sig, bind, path, faults>>

-----------------------------------------------------------------------------
(* receiveSignals.                                                         *)

\* A slip: the peerConn is reused, as runInitiator does, and keeps its agent.
HandleOffer_Reuses(n, s) ==
    /\ IF closed[n] \/ peer[n].session >= s THEN UNCHANGED <<peer, run, agent, path>>
       ELSE /\ agent' = teardown(n, agent)
            /\ peer' = [peer EXCEPT ![n].session = s]
            /\ run' = [run EXCEPT ![n][s] = "start"]
            /\ onPath(n, "connecting")
    /\ UNCHANGED clock

\* Ignored when closed or not newer; else it replaces what is there.
HandleOffer(n, s) ==
    /\ IF closed[n] \/ peer[n].session >= s THEN UNCHANGED <<peer, run, agent, path>>
       ELSE /\ agent' = teardown(n, agent)
            /\ peer' = [peer EXCEPT ![n] = [NoPeer EXCEPT !.session = s]]
            /\ run' = [run EXCEPT ![n][s] = "start"]
            /\ onPath(n, "connecting")
    /\ UNCHANGED clock

\* answerChans has the session's channel while its negotiate waits.
HandleAnswer(n, s) ==
    /\ run' = IF peer[n].session = s /\ run[n][s] = "wait"
              THEN [run EXCEPT ![n][s] = "dial"] ELSE run
    /\ UNCHANGED <<peer, clock, agent, path>>

HandleCandidate(n, s) ==
    /\ IF peer[n].session # s THEN UNCHANGED <<peer, agent>>
       ELSE IF peer[n].agent = 0
       THEN peer' = [peer EXCEPT ![n].pending = TRUE] /\ UNCHANGED agent
       ELSE agent' = [agent EXCEPT ![n][peer[n].agent].remote = IsOpen(agent[n][peer[n].agent])]
            /\ UNCHANGED peer
    /\ UNCHANGED <<clock, run, path>>

receiveSignals(n) ==
    /\ sig[n] # <<>>
    /\ sig' = [sig EXCEPT ![n] = Tail(@)]
    /\ LET m == Head(sig[n]) IN
       \/ m.kind = "offer" /\ HandleOffer(n, m.session)
       \/ m.kind = "answer" /\ HandleAnswer(n, m.session)
       \/ m.kind = "candidate" /\ HandleCandidate(n, m.session)
    /\ UNCHANGED <<closed, bind, faults>>

-----------------------------------------------------------------------------
(* The ICE agents, and the callbacks negotiate has given them.             *)

\* The agent's connection state changes, and a callback is to tell of it.
Turned(a, st, report) == [a EXCEPT !.st = st, !.owes = @ \cup {report}]

\* The checks of both sides meet.
Connect(n, s) ==
    LET m == Peer(n) IN
    /\ run[n][s] = "dial" /\ agent[n][s].st = "open"
    /\ (run[m][s] = "dial" /\ agent[m][s].st = "open") \/ agent[m][s].st = "connected"
    /\ agent[n][s].remote \/ agent[m][s].remote
    /\ agent' = [agent EXCEPT ![n][s] = Turned(@, "connected", "direct")]
    /\ UNCHANGED <<closed, peer, clock, run, sig, bind, path, faults>>

\* Consent checks fail: the other agent is gone, or the network is.
Disconnect(n, s) ==
    /\ agent[n][s].st = "connected"
    /\ IF agent[Peer(n)][s].st \in {"open", "connected"} THEN Fault("ice") ELSE NoFault
    /\ \E st \in {"connected", "failed"} :  \* it may recover by itself
          /\ agent[Peer(n)][s].st \notin {"open", "connected"} => st = "failed"
          /\ agent' = [agent EXCEPT ![n][s] = Turned(@, st, "none")]
    /\ UNCHANGED <<closed, peer, clock, run, sig, bind, path>>

\* A callback runs, whatever has become of its session.
Report(n, s, state) ==
    /\ state \in agent[n][s].owes
    /\ agent' = [agent EXCEPT ![n][s].owes = @ \ {state}]
    /\ onPath(n, state)
    /\ UNCHANGED <<closed, peer, clock, run, sig, bind, faults>>

-----------------------------------------------------------------------------
Step(n, s) ==
    \/ NewAgent(n, s) \/ Attach(n, s) \/ Exchange(n, s) \/ ExchangeFails(n, s)
    \/ OnCandidate(n, s) \/ AnswerTimeout(n, s) \/ DialReturns(n, s) \/ DialFails(n, s)
    \/ runInitiator(n, s) \/ Connect(n, s) \/ Disconnect(n, s)
    \/ \E state \in {"direct", "none"} : Report(n, s, state)

Next ==
    \E n \in Nodes :
        \/ \E view \in {"absent", "offline", "online"} : SetPeers(n, view)
        \/ watchRoaming(n) \/ Close(n) \/ Crash(n) \/ BindOpen(n) \/ BindClose(n)
        \/ receiveSignals(n)
        \/ \E s \in Sessions : Step(n, s) \/ NoAgentYet(n, s)

\* Goroutines, agents and the signal stream go on; faults are not owed.
Fairness ==
    \A n \in Nodes :
        /\ WF_vars(BindOpen(n))
        /\ WF_vars(receiveSignals(n))
        /\ \A s \in Sessions :
              /\ WF_vars(NewAgent(n, s)) /\ WF_vars(Attach(n, s))
              /\ WF_vars(Exchange(n, s) \/ ExchangeFails(n, s))
              /\ WF_vars(OnCandidate(n, s))
              /\ WF_vars(AnswerTimeout(n, s) /\ NoFault)
              /\ WF_vars(DialReturns(n, s))
              /\ WF_vars(DialFails(n, s) /\ NoFault)
              /\ WF_vars(runInitiator(n, s))
              /\ WF_vars(Connect(n, s))
              /\ WF_vars(Disconnect(n, s) /\ NoFault)
              /\ WF_vars(\E state \in {"direct", "none"} : Report(n, s, state))

Spec == Init /\ [][Next]_vars /\ Fairness

-----------------------------------------------------------------------------
Labels == {"none", "start", "attach", "exchange", "wait", "dial", "sleep", "done", "ok"}
PeerConns == [session : 0 .. MaxSession, agent : 0 .. MaxSession, pending : BOOLEAN]
Agents == [st : {"none", "open", "connected", "failed", "closed"}, local : BOOLEAN, remote : BOOLEAN,
           owes : SUBSET {"direct", "none"}]
Envelopes == [kind : {"offer", "answer", "candidate"}, session : Sessions]

(* Every variable keeps its type: session epochs stay within what was      *)
(* taken from the clock, and only envelopes of known sessions travel.      *)
TypeOK ==
    /\ closed \in [Nodes -> BOOLEAN] /\ bind \in [Nodes -> BOOLEAN]
    /\ peer \in [Nodes -> PeerConns]
    /\ clock \in 0 .. MaxSession /\ faults \in 0 .. MaxFaults
    /\ run \in [Nodes -> [Sessions -> Labels]]
    /\ agent \in [Nodes -> [Sessions -> Agents]]
    /\ sig \in [Nodes -> Seq(Envelopes)]
    /\ path \in [Nodes -> {"unknown", "none", "connecting", "direct"}]

(* No ICE agent is leaked: an agent that is not closed is the one its      *)
(* peerConn would close on teardown, or its negotiate is about to find out *)
(* whether it may attach it.  Restart, SetPeers, a newer offer and Close   *)
(* may come between any two steps of a negotiation.                        *)
AgentsOwned ==
    \A n \in Nodes, s \in Sessions :
        IsOpen(agent[n][s]) => peer[n].agent = s \/ run[n][s] = "attach"

(* HandleCandidate takes the agent from the peerConn, which survives a     *)
(* retry with a new session but the old agent in it.  A candidate on its   *)
(* way for the current session never meets the agent of another one.       *)
CandidatesMeetTheirAgent ==
    \A n \in Nodes : \A i \in 1 .. Len(sig[n]) :
        sig[n][i].kind = "candidate" /\ sig[n][i].session = peer[n].session =>
            peer[n].agent \in {0, peer[n].session}

-----------------------------------------------------------------------------
Ended(n, s) == run[n][s] \in {"none", "done", "ok"} /\ ~ IsOpen(agent[n][s])

(* Retries, timeouts and teardown put together: a negotiation the          *)
(* initiator has under way ends with a direct path reported to the daemon, *)
(* unless the peer leaves the netmap or is shut down for good.             *)
ProbingSucceeds ==
    peer[1] # NoPeer /\ run[1][peer[1].session] # "ok"
        ~> path[1] = "direct" \/ peer[1] = NoPeer \/ closed[2]

(* Close stops everything: goroutines asleep, waiting or dialling end and  *)
(* every agent is closed.                                                  *)
CloseEndsAll ==
    \A n \in Nodes : <>[]closed[n] => <>[](\A s \in Sessions : Ended(n, s))

(* Restart's comment: responder-side peers renegotiate when the initiator  *)
(* "notices its own change or its consent checks fail".  An initiator      *)
(* whose agent failed moves on to another session, or loses the peer.      *)
FailedIsRenegotiated ==
    \A s \in Sessions :
        peer[1].session = s /\ agent[1][s].st = "failed" ~> peer[1].session # s
=============================================================================
