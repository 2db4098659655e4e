------------------------------- MODULE Relay -------------------------------
(***************************************************************************)
(* The relay: internal/relay/server.go, client.go and frames.go, up to the *)
(* queue from which WireGuard takes relayed packets (magicsock/bind.go).   *)
(*                                                                         *)
(* Clients dial one relay server, prove that they hold their node key and  *)
(* exchange payloads addressed by node key.  A client reconnects until it  *)
(* is closed; the server keeps the newest connection of each key.  The two *)
(* ends of a connection learn of its end at different times, so the server *)
(* may be serving several connections of one client.                       *)
(*                                                                         *)
(* Cryptography is abstracted: a client can only prove its own key.  Pings *)
(* and deadlines turn a dead network into a read error and nothing else.   *)
(***************************************************************************)
EXTENDS Integers, Sequences, FiniteSets

CONSTANTS
    Clients,    \* relay.Client values
    KeyOf,      \* [Clients -> node keys]
    Payloads,   \* packets, each sent at most once
    Senders,    \* the clients with packets to send
    QueueLen,   \* capacity of a connection's sendq (256 in the code)
    InboxLen,   \* capacity of Bind.relayInbox (256 in the code)
    MaxFaults,  \* bound on network faults
    Stalls,     \* whether a fault may be a write that times out half way
    Closes      \* the clients that may be closed

ASSUME RelayAssumption ==
    /\ KeyOf \in [Clients -> {KeyOf[c] : c \in Clients}]
    /\ {QueueLen, InboxLen} \subseteq Nat \ {0} /\ MaxFaults \in Nat
    /\ 0 \notin Payloads
    /\ Stalls \in BOOLEAN /\ Closes \subseteq Clients /\ Senders \subseteq Clients

VARIABLES
    client,   \* Client: where run is, its connection, closed
    conn,     \* all connections so far, both ends' state
    conns,    \* Server.conns: node key -> number of the registered connection
    sent,     \* payloads handed to Send, with their source and destination
    inbox,    \* Bind.relayInbox of each client's device
    got,      \* payloads WireGuard took from it, in order
    faults    \* network faults so far

wg == <<inbox, got>>
vars == <<client, conn, conns, sent, wg, faults>>

Keys == {KeyOf[c] : c \in Clients}
NoConn == 0

Frames == [dst : Keys, payload : Payloads]
\* What a reader makes of bytes that do not start at a frame boundary.
Garbage == [dst |-> NoConn, payload |-> NoConn]

\* A connection right after the dial, the client's Auth frame on its way.
NewConn(c) ==
    [owner  |-> c,
     srv    |-> "hello",  \* serveConn: hello, authed, serving, gone
     ok     |-> FALSE,    \* frameOK on its way to the client
     broken |-> FALSE,    \* ended by the client or the network
     shut   |-> FALSE,    \* serverConn.close
     stream |-> <<>>,     \* client to server: frame headers and bodies
     hold   |-> <<>>,     \* frame and target between forward's lookup and its send
     sendq  |-> <<>>]     \* server to client

ConnKey(i) == KeyOf[conn[i].owner]

\* A fault ends one connection and may let an older one end another.
MaxConns == Cardinality(Clients) + 2 * MaxFaults

Init ==
    /\ client = [c \in Clients |-> [pc |-> "idle", cur |-> NoConn, closed |-> FALSE]]
    /\ conn = <<>>
    /\ conns = [k \in Keys |-> NoConn]
    /\ sent = {}
    /\ inbox = [c \in Clients |-> <<>>]
    /\ got = [c \in Clients |-> <<>>]
    /\ faults = 0

-----------------------------------------------------------------------------
(* The client.                                                             *)

\* run, session: dial, upgrade, and the answer to the challenge.
Dial(c) ==
    /\ client[c].pc = "idle" /\ ~client[c].closed
    /\ conn' = Append(conn, NewConn(c))
    /\ client' = [client EXCEPT ![c].pc = "auth", ![c].cur = Len(conn) + 1]
    /\ UNCHANGED <<conns, sent, wg, faults>>

\* session returns; run clears conn and up, and goes round or ends.
SessionEnds(c) ==
    /\ client' = [client EXCEPT ![c].cur = NoConn,
                                ![c].pc = IF client[c].closed THEN "stopped" ELSE "idle"]
    /\ conn' = [conn EXCEPT ![client[c].cur].broken = TRUE, ![client[c].cur].ok = FALSE,
                            ![client[c].cur].sendq = <<>>]
    /\ UNCHANGED <<conns, sent, wg, faults>>

AuthFails(c) ==
    /\ client[c].pc = "auth"
    /\ conn[client[c].cur].broken \/ conn[client[c].cur].shut
    /\ SessionEnds(c)

\* A slip: session does not look at closed before it installs the connection.
Connected_IgnoresClose(c) ==
    /\ client[c].pc = "auth" /\ conn[client[c].cur].ok
    /\ client' = [client EXCEPT ![c].pc = "up"]
    /\ UNCHANGED <<conn, conns, sent, wg, faults>>

\* frameOK arrives.  Close may have come while c.conn was still nil.
Connected(c) ==
    /\ client[c].pc = "auth" /\ conn[client[c].cur].ok
    /\ \/ client[c].closed /\ SessionEnds(c)
       \/ /\ ~client[c].closed
          /\ client' = [client EXCEPT ![c].pc = "up"]
          /\ UNCHANGED <<conn, conns, sent, wg, faults>>

ReadError(c) ==
    /\ client[c].pc = "up"
    /\ conn[client[c].cur].broken \/ conn[client[c].cur].shut
    /\ SessionEnds(c)

\* A frame is a header and a body; the server reads one, then the other.
writeFrame(frame) == <<[part |-> "header", frame |-> frame], [part |-> "body", frame |-> frame]>>

\* WireGuard hands over each packet once, addressed to a peer.
fresh(c, frame) ==
    /\ c \in Senders /\ frame.dst # KeyOf[c]
    /\ \A s \in sent : s.frame.payload # frame.payload

Send(c, frame) ==
    /\ client[c].pc = "up"
    /\ fresh(c, frame)
    /\ sent' = sent \cup {[src |-> KeyOf[c], frame |-> frame]}
    /\ conn' = [conn EXCEPT ![client[c].cur].stream = @ \o writeFrame(frame)]
    /\ UNCHANGED <<client, conns, wg, faults>>

\* The write deadline passes inside the frame.  Send returns the error and
\* leaves the connection open.
SendTimeout(c, frame) ==
    /\ Stalls /\ faults < MaxFaults
    /\ client[c].pc = "up"
    /\ fresh(c, frame)
    /\ sent' = sent \cup {[src |-> KeyOf[c], frame |-> frame]}
    /\ conn' = [conn EXCEPT ![client[c].cur].stream = Append(@, writeFrame(frame)[1])]
    /\ faults' = faults + 1
    /\ UNCHANGED <<client, conns, wg>>

\* WireGuard is behind: the packet is dropped, so that the reader never waits.
DeliverRelayPacket(c, packet) ==
    inbox' = IF Len(inbox[c]) < InboxLen THEN [inbox EXCEPT ![c] = Append(@, packet)] ELSE inbox

\* frameRecv: onPacket.
Receive(c) ==
    /\ client[c].pc = "up"
    /\ LET i == client[c].cur
       IN  /\ conn[i].sendq # <<>>
           /\ DeliverRelayPacket(c, Head(conn[i].sendq))
           /\ conn' = [conn EXCEPT ![i].sendq = Tail(@)]
    /\ UNCHANGED <<client, conns, sent, got, faults>>

\* WireGuard's receive goroutine, whatever has become of the client.
receiveRelay(c) ==
    /\ inbox[c] # <<>>
    /\ got' = [got EXCEPT ![c] = Append(@, Head(inbox[c]))]
    /\ inbox' = [inbox EXCEPT ![c] = Tail(@)]
    /\ UNCHANGED <<client, conn, conns, sent, faults>>

\* Close: the connection is closed if it is installed; the dial is cancelled.
Close(c) ==
    /\ c \in Closes /\ ~client[c].closed
    /\ client' = [client EXCEPT ![c].closed = TRUE,
                                ![c].pc = IF @ = "idle" THEN "stopped" ELSE @]
    /\ conn' = IF client[c].pc = "up" THEN [conn EXCEPT ![client[c].cur].broken = TRUE] ELSE conn
    /\ UNCHANGED <<conns, sent, wg, faults>>

\* The network, or a deadline, ends a connection that is in use.
NetworkFault(i) ==
    /\ faults < MaxFaults
    /\ ~conn[i].broken
    /\ conn' = [conn EXCEPT ![i].broken = TRUE]
    /\ faults' = faults + 1
    /\ UNCHANGED <<client, conns, sent, wg>>

-----------------------------------------------------------------------------
(* The server, per connection.                                             *)

\* The Auth frame may be read after its client has gone; the write of frameOK
\* then fails or is lost.
handshake(i) ==
    /\ conn[i].srv = "hello"
    /\ \/ conn' = [conn EXCEPT ![i].srv = "authed", ![i].ok = TRUE]
       \/ conn[i].broken /\ conn' = [conn EXCEPT ![i].srv = "gone"]
    /\ UNCHANGED <<client, conns, sent, wg, faults>>

\* A slip: the older connection stays open.
Register_KeepsOld(i) ==
    /\ conn[i].srv = "authed"
    /\ conn' = [conn EXCEPT ![i].srv = "serving"]
    /\ conns' = [conns EXCEPT ![ConnKey(i)] = i]
    /\ UNCHANGED <<client, sent, wg, faults>>

\* Newest connection for a key wins.
Register(i) ==
    LET old == conns[ConnKey(i)]
    IN  /\ conn[i].srv = "authed"
        /\ conn' = [j \in DOMAIN conn |->
                      IF j = i THEN [conn[j] EXCEPT !.srv = "serving"]
                      ELSE IF j = old THEN [conn[j] EXCEPT !.shut = TRUE] ELSE conn[j]]
        /\ conns' = [conns EXCEPT ![ConnKey(i)] = i]
        /\ UNCHANGED <<client, sent, wg, faults>>

\* readFrame: the next two units, whatever they are.
readFrame(stream) ==
    IF /\ stream[1].part = "header" /\ stream[2].part = "body"
       /\ stream[1].frame = stream[2].frame
    THEN stream[1].frame
    ELSE Garbage

\* The reader takes a frame and forward looks its destination up.
Read(i) ==
    /\ conn[i].srv = "serving" /\ ~conn[i].shut
    /\ conn[i].hold = <<>>
    /\ Len(conn[i].stream) >= 2
    /\ LET frame == readFrame(conn[i].stream)
           target == IF frame = Garbage THEN NoConn ELSE conns[frame.dst]
       IN  conn' = [conn EXCEPT ![i].stream = SubSeq(@, 3, Len(@)),
                                ![i].hold = IF target = NoConn /\ frame # Garbage
                                            THEN <<>> ELSE <<frame, target>>]
    /\ UNCHANGED <<client, conns, sent, wg, faults>>

\* A slip: the frame is prefixed with the destination's key.
Recv_Dst(i, frame) == [src |-> frame.dst, dst |-> frame.dst, payload |-> frame.payload]

\* What the destination gets: the source is the key this connection proved.
Recv(i, frame) == [src |-> ConnKey(i), dst |-> frame.dst, payload |-> frame.payload]

\* forward's send: the target may have been replaced or closed meanwhile; a
\* full queue drops.  Garbage goes nowhere any client listens.
forward(i) ==
    /\ conn[i].hold # <<>>
    /\ LET frame == conn[i].hold[1]
           target == conn[i].hold[2]
           cleared == [conn EXCEPT ![i].hold = <<>>]
       IN  conn' = IF target # NoConn /\ Len(conn[target].sendq) < QueueLen
                   THEN [cleared EXCEPT ![target].sendq = Append(@, Recv(i, frame))]
                   ELSE cleared
    /\ UNCHANGED <<client, conns, sent, wg, faults>>

\* The writer's write fails.
WriteError(i) ==
    /\ conn[i].srv = "serving" /\ ~conn[i].shut
    /\ conn[i].broken /\ conn[i].sendq # <<>>
    /\ conn' = [conn EXCEPT ![i].shut = TRUE]
    /\ UNCHANGED <<client, conns, sent, wg, faults>>

\* A slip: the key is removed even if a newer connection has it.
Unregister_Any(i) == [conns EXCEPT ![ConnKey(i)] = NoConn]

Unregister(i) == IF conns[ConnKey(i)] = i THEN [conns EXCEPT ![ConnKey(i)] = NoConn] ELSE conns

\* The reader's read fails (on garbage, because of its length, if it does);
\* the deferred cleanup runs.  What nobody will read
\* any more is forgotten.
ServeEnds(i) ==
    /\ conn[i].srv = "serving"
    /\ \/ conn[i].hold = <<>> /\ (conn[i].shut \/ conn[i].broken)
       \/ conn[i].hold # <<>> /\ conn[i].hold[1] = Garbage
    /\ conns' = Unregister(i)
    /\ conn' = [conn EXCEPT ![i].srv = "gone", ![i].shut = TRUE, ![i].stream = <<>>,
                            ![i].hold = <<>>,
                            ![i].sendq = IF client[conn[i].owner].cur = i THEN @ ELSE <<>>]
    /\ UNCHANGED <<client, sent, wg, faults>>

ClientStep(c) == Dial(c) \/ AuthFails(c) \/ Connected(c) \/ ReadError(c) \/ Receive(c)

ServerStep(i) ==
    \/ handshake(i) \/ Register(i) \/ Read(i) \/ forward(i) \/ WriteError(i) \/ ServeEnds(i)

Next ==
    \/ \E c \in Clients :
         \/ ClientStep(c) \/ Close(c) \/ receiveRelay(c)
         \/ \E frame \in Frames : Send(c, frame) \/ SendTimeout(c, frame)
    \/ \E i \in DOMAIN conn : ServerStep(i) \/ NetworkFault(i)

\* Goroutines run, reads end at their deadlines, the client's loop retries.
\* Nobody has to send, to close a client or to break the network.
Fairness ==
    /\ \A c \in Clients : WF_vars(ClientStep(c))
    /\ \A i \in 1 .. MaxConns :
         WF_vars(i \in DOMAIN conn /\ ServerStep(i))

Spec == Init /\ [][Next]_vars /\ Fairness

-----------------------------------------------------------------------------
(* Properties.                                                             *)

Units == [part : {"header", "body"}, frame : Frames]
Packets == [src : Keys, dst : Keys, payload : Payloads]
Holds == {<<>>, <<Garbage, NoConn>>} \cup (Frames \X (Nat \ {NoConn}))
Connections ==
    [owner : Clients, srv : {"hello", "authed", "serving", "gone"},
     ok : BOOLEAN, broken : BOOLEAN, shut : BOOLEAN,
     stream : Seq(Units), hold : Holds, sendq : Seq(Packets)]

\* Every variable keeps its type, and the queues of server and Bind stay within
\* their capacity however slow the reader is (server.go:115, bind.go:73).
TypeOK ==
    /\ client \in [Clients -> [pc : {"idle", "auth", "up", "stopped"}, cur : Nat, closed : BOOLEAN]]
    /\ conn \in Seq(Connections)
    /\ conns \in [Keys -> 0 .. Len(conn)]
    /\ sent \subseteq [src : Keys, frame : Frames]
    /\ inbox \in [Clients -> Seq(Packets)] /\ got \in [Clients -> Seq(Packets)]
    /\ faults \in 0 .. MaxFaults
    /\ \A i \in DOMAIN conn : Len(conn[i].sendq) <= QueueLen
    /\ \A c \in Clients : Len(inbox[c]) <= InboxLen

\* The registry and the serving goroutines agree: a registered connection is
\* being served and was proved for its key, and an open connection being
\* served is the registered one.  Otherwise a client would count itself
\* connected while nothing sent to it could arrive (server.go:118-133).
RegistryExact ==
    /\ \A k \in Keys : conns[k] # NoConn =>
         conn[conns[k]].srv = "serving" /\ ConnKey(conns[k]) = k
    /\ \A i \in DOMAIN conn :
         conn[i].srv = "serving" /\ ~conn[i].shut => conns[ConnKey(i)] = i

\* What WireGuard gets from a client was sent to its key by the named source, and no
\* payload is received twice, through any number of reconnects
\* (server.go:179-196).
DeliveredOnce ==
    \A c \in Clients :
        /\ \A n \in DOMAIN got[c] :
             /\ got[c][n].dst = KeyOf[c]
             /\ [src |-> got[c][n].src,
                 frame |-> [dst |-> KeyOf[c], payload |-> got[c][n].payload]] \in sent
        /\ \A m, n \in DOMAIN got[c] : m # n => got[c][m].payload # got[c][n].payload

\* Once the network stops failing, a client that is not closed ends up
\* connected on the connection the server has registered, and stays so
\* (client.go:17-20), whichever old connections the server still serves.
ReconnectsForGood ==
    \A c \in Clients :
        <>[](\/ client[c].closed
             \/ client[c].pc = "up" /\ conns[KeyOf[c]] = client[c].cur)

\* A closed client stops, and the server forgets its connections, whatever
\* Close interrupted (client.go:82-91, 128-132).
CloseIsFinal ==
    \A c \in Clients :
        client[c].closed ~> [](/\ client[c].pc = "stopped"
                               /\ \A k \in Keys : conns[k] # NoConn => conn[conns[k]].owner # c)

\* The server reads only frames that its client wrote: an error returned by
\* Send may be ignored (client.go:17-20).
FramesIntact == \A i \in DOMAIN conn : conn[i].hold # <<>> => conn[i].hold[1] # Garbage
=============================================================================
