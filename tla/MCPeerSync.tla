----------------------------- MODULE MCPeerSync -----------------------------
(* PeerSync with two peers: an exit node that comes and goes, and one that    *)
(* goes offline or loses its exit route.                                      *)
EXTENDS PeerSync, TLC

CONSTANTS p1, p2, away

MCPeers == {p1, p2}

MCViews ==
    (p1 :> {away, [online |-> TRUE, static |-> FALSE, exit |-> TRUE],
            [online |-> FALSE, static |-> TRUE, exit |-> TRUE]})
    @@ (p2 :> {[online |-> TRUE, static |-> TRUE, exit |-> TRUE],
               [online |-> FALSE, static |-> FALSE, exit |-> FALSE]})

\* The configuration the engine has and the status are read by no action, and by an
\* invariant only while they are not stale; the same goes for a configuration
\* computed by a call that another has overlapped, and for overlap between calls.
\* States that differ in nothing else need not be told apart.
Distinct ==
    <<view, path, relay, watch, exitNode, exitPeer, exitOn, status.exit, stale,
      Busy # {} /\ overlap,
      IF "status" \in stale THEN <<>> ELSE status.paths,
      IF "engine" \in stale THEN <<>> ELSE engine,
      [a \in Actors |-> IF Busy # {} /\ overlap THEN <<act[a].pc, act[a].on>> ELSE <<act[a]>>]>>
=============================================================================
