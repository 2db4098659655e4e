---------------------------- MODULE RelayProofs ----------------------------
(***************************************************************************)
(* The relay's registry is exact and packets are delivered at most once,   *)
(* to the client they name, for any number of clients, connections and     *)
(* packets and any number of faults.                                       *)
(***************************************************************************)
EXTENDS Relay, SequenceTheorems, TLAPS

\* A client's session is on a connection that is its own.
Owned ==
    \A c \in Clients :
        /\ client[c].pc \in {"auth", "up"} <=> client[c].cur # NoConn
        /\ client[c].cur # NoConn => client[c].cur \in DOMAIN conn /\ conn[client[c].cur].owner = c

RegInv == TypeOK /\ Owned /\ RegistryExact

-----------------------------------------------------------------------------
(* Pieces of state.                                                        *)

(* Capacities are positive, and an empty queue is within them.             *)
LEMMA Capacities ==
    /\ QueueLen \in Nat /\ QueueLen > 0 /\ InboxLen \in Nat /\ InboxLen > 0
    /\ <<>> \in Seq(Packets) /\ Len(<<>>) = 0
  BY RelayAssumption

(* What is left of a sequence after its first element, and after its first *)
(* two.                                                                    *)
LEMMA AfterOne ==
    ASSUME NEW S, NEW s \in Seq(S), s # <<>>
    PROVE  /\ Tail(s) \in Seq(S) /\ Len(Tail(s)) = Len(s) - 1 /\ Len(s) >= 1
           /\ Head(s) = s[1] /\ s[1] \in S /\ DOMAIN s = 1 .. Len(s) /\ DOMAIN Tail(s) = 1 .. Len(s) - 1
           /\ \A n \in DOMAIN Tail(s) : n + 1 \in DOMAIN s /\ Tail(s)[n] = s[n + 1]
  BY HeadTailProperties, EmptySeq, LenProperties

LEMMA AfterTwo ==
    ASSUME NEW S, NEW s \in Seq(S), Len(s) >= 2
    PROVE  LET rest == SubSeq(s, 3, Len(s)) IN
           /\ rest \in Seq(S) /\ s[1] \in S /\ s[2] \in S /\ 1 \in DOMAIN s /\ 2 \in DOMAIN s
           /\ \A n \in DOMAIN rest : n \in Nat /\ n >= 1 /\ n + 2 \in DOMAIN s /\ rest[n] = s[n + 2]
<1> DEFINE rest == SubSeq(s, 3, Len(s))
<1>1. Len(s) \in Nat /\ DOMAIN s = 1 .. Len(s) /\ \A n \in 1 .. Len(s) : s[n] \in S
  BY LenProperties, ElementOfSeq, Zenon
<1>2. \A n \in 3 .. Len(s) : s[n] \in S
  BY <1>1
<1>3. /\ rest \in Seq(S) /\ Len(rest) = IF 3 <= Len(s) THEN Len(s) - 3 + 1 ELSE 0
      /\ \A n \in 1 .. Len(s) - 3 + 1 : rest[n] = s[3 + n - 1]
  BY <1>1, <1>2, SubSeqProperties
<1>4. Len(rest) = Len(s) - 2 /\ DOMAIN rest = 1 .. Len(rest)
  BY <1>1, <1>3, LenProperties
<1> HIDE DEF rest
<1>5. \A n \in DOMAIN rest : n \in Nat /\ n >= 1 /\ n + 2 \in DOMAIN s /\ rest[n] = s[n + 2]
  <2> TAKE n \in DOMAIN rest
  <2>1. n \in 1 .. Len(s) - 2
    BY <1>4, Zenon
  <2>2. n \in Nat /\ n >= 1 /\ n + 2 \in 1 .. Len(s) /\ n \in 1 .. Len(s) - 3 + 1 /\ 3 + n - 1 = n + 2
    BY <1>1, <2>1
  <2>3. rest[n] = s[3 + n - 1]
    BY <1>3, <2>2, Zenon
  <2> QED
    BY <1>1, <2>2, <2>3, Zenon
<1> QED
  BY <1>1, <1>3, <1>5 DEF rest

(* Adding an element at the end.                                           *)
LEMMA Added ==
    ASSUME NEW S, NEW s \in Seq(S), NEW e \in S
    PROVE  /\ Append(s, e) \in Seq(S) /\ Len(Append(s, e)) = Len(s) + 1 /\ Len(s) \in Nat
           /\ DOMAIN s = 1 .. Len(s)
           /\ \A n \in DOMAIN Append(s, e) : \/ n \in DOMAIN s /\ Append(s, e)[n] = s[n]
                                             \/ n = Len(s) + 1 /\ Append(s, e)[n] = e
  BY AppendProperties, LenProperties

(* Replacing one connection of the sequence.                               *)
LEMMA SetConn ==
    ASSUME NEW s \in Seq(Connections), NEW i \in DOMAIN s, NEW r \in Connections
    PROVE  /\ [s EXCEPT ![i] = r] \in Seq(Connections)
           /\ Len([s EXCEPT ![i] = r]) = Len(s)
           /\ DOMAIN [s EXCEPT ![i] = r] = DOMAIN s
           /\ [s EXCEPT ![i] = r][i] = r
           /\ \A j \in DOMAIN s \ {i} : [s EXCEPT ![i] = r][j] = s[j]
  OBVIOUS

(* The registry depends on who owns a connection, on whether it is being   *)
(* served and on whether it is open.                                       *)
LEMMA SameRegistry ==
    ASSUME RegistryExact, TypeOK,
           conns' = conns, DOMAIN conn' = DOMAIN conn,
           \A j \in DOMAIN conn :
               /\ conn'[j].owner = conn[j].owner
               /\ conn'[j].srv = "serving" <=> conn[j].srv = "serving"
               /\ conn[j].shut => conn'[j].shut
    PROVE  RegistryExact'
<1>1. \A j \in DOMAIN conn : ConnKey(j)' = ConnKey(j)
  BY Zenon DEF ConnKey
<1>2. \A k \in Keys : conns[k] # NoConn => conns[k] \in DOMAIN conn
  BY DEF TypeOK, NoConn
<1> QED
  BY <1>1, <1>2, Zenon DEF RegistryExact

(* ... and a client's session on who owns its connection.                  *)
LEMMA SameOwner ==
    ASSUME Owned, client' = client, DOMAIN conn \subseteq DOMAIN conn',
           \A j \in DOMAIN conn : conn'[j].owner = conn[j].owner
    PROVE  Owned'
  BY Zenon DEF Owned

(* A step that changes one connection.                                     *)
LEMMA ConnChanged ==
    ASSUME TypeOK, NEW i \in DOMAIN conn, NEW r \in Connections, Len(r.sendq) <= QueueLen,
           conn' = [conn EXCEPT ![i] = r]
    PROVE  /\ conn' \in Seq(Connections) /\ Len(conn') = Len(conn) /\ DOMAIN conn' = DOMAIN conn
           /\ conn'[i] = r /\ \A j \in DOMAIN conn \ {i} : conn'[j] = conn[j]
           /\ \A j \in DOMAIN conn' : Len(conn'[j].sendq) <= QueueLen
<1>1. conn \in Seq(Connections)
  BY Zenon DEF TypeOK
<1>2. /\ conn' \in Seq(Connections) /\ Len(conn') = Len(conn) /\ DOMAIN conn' = DOMAIN conn
      /\ conn'[i] = r /\ \A j \in DOMAIN conn \ {i} : conn'[j] = conn[j]
  BY <1>1, SetConn, ZenonT(30)
<1> QED
  BY <1>2, Zenon DEF TypeOK

(* ... and nothing the registry looks at.                                  *)
LEMMA FlagStep ==
    ASSUME RegInv, NEW i \in DOMAIN conn, NEW r \in Connections, Len(r.sendq) <= QueueLen,
           conn' = [conn EXCEPT ![i] = r],
           r.owner = conn[i].owner, r.srv = "serving" <=> conn[i].srv = "serving", conn[i].shut => r.shut,
           conns' = conns
    PROVE  /\ RegistryExact'
           /\ conns' \in [Keys -> 0 .. Len(conn')]
           /\ conn' \in Seq(Connections) /\ \A j \in DOMAIN conn' : Len(conn'[j].sendq) <= QueueLen
           /\ DOMAIN conn' = DOMAIN conn /\ conn'[i] = r
           /\ \A j \in DOMAIN conn \ {i} : conn'[j] = conn[j]
           /\ \A j \in DOMAIN conn : conn'[j].owner = conn[j].owner
<1>1. TypeOK /\ RegistryExact
  BY Zenon DEF RegInv
<1>2. /\ conn' \in Seq(Connections) /\ Len(conn') = Len(conn) /\ DOMAIN conn' = DOMAIN conn
      /\ conn'[i] = r /\ \A j \in DOMAIN conn \ {i} : conn'[j] = conn[j]
      /\ \A j \in DOMAIN conn' : Len(conn'[j].sendq) <= QueueLen
  BY <1>1, ConnChanged, Zenon
<1>3. \A j \in DOMAIN conn :
          /\ conn'[j].owner = conn[j].owner
          /\ conn'[j].srv = "serving" <=> conn[j].srv = "serving"
          /\ conn[j].shut => conn'[j].shut
  BY <1>2, Zenon
<1>4. RegistryExact'
  BY <1>1, <1>2, <1>3, SameRegistry, Zenon
<1> QED
  BY <1>1, <1>2, <1>3, <1>4, Zenon DEF TypeOK

-----------------------------------------------------------------------------
(* The client's steps.                                                     *)

LEMMA CurrentConn ==
    ASSUME RegInv, NEW c \in Clients, client[c].cur # NoConn
    PROVE  client[c].cur \in DOMAIN conn /\ conn[client[c].cur] \in Connections
           /\ Len(conn[client[c].cur].sendq) <= QueueLen
  BY DEF RegInv, TypeOK, Owned

LEMMA SessionEndsStep == ASSUME RegInv, NEW c \in Clients, client[c].cur # NoConn, SessionEnds(c) PROVE RegInv'
<1> DEFINE i == client[c].cur
           r == [conn[i] EXCEPT !.broken = TRUE, !.ok = FALSE, !.sendq = <<>>]
<1>1. i \in DOMAIN conn /\ conn[i] \in Connections
  BY CurrentConn, Zenon
<1>2. conn' = [conn EXCEPT ![i] = r] /\ UNCHANGED <<conns, sent, wg, faults>>
  BY <1>1, Zenon DEF SessionEnds, RegInv, TypeOK
<1>3. /\ r \in Connections /\ r.sendq = <<>> /\ r.owner = conn[i].owner /\ r.srv = conn[i].srv
      /\ r.shut = conn[i].shut
  BY <1>1, Capacities, Zenon DEF Connections
<1>7. Len(r.sendq) <= QueueLen
  BY <1>3, Capacities
<1> HIDE DEF r
<1>4. /\ RegistryExact' /\ conns' \in [Keys -> 0 .. Len(conn')]
      /\ conn' \in Seq(Connections) /\ \A j \in DOMAIN conn' : Len(conn'[j].sendq) <= QueueLen
      /\ DOMAIN conn' = DOMAIN conn /\ \A j \in DOMAIN conn : conn'[j].owner = conn[j].owner
  BY <1>1, <1>2, <1>3, <1>7, FlagStep, Zenon
<1>5. /\ client' \in [Clients -> [pc : {"idle", "auth", "up", "stopped"}, cur : Nat, closed : BOOLEAN]]
      /\ client'[c].cur = NoConn /\ client'[c].pc \in {"idle", "stopped"}
      /\ \A d \in Clients \ {c} : client'[d] = client[d]
  BY ZenonT(30) DEF SessionEnds, RegInv, TypeOK, NoConn
<1>6. Owned'
  BY <1>4, <1>5 DEF Owned, RegInv
<1> QED
  BY <1>2, <1>4, <1>5, <1>6, Zenon DEF RegInv, TypeOK, wg

(* A step of one connection that no client's session and nothing the       *)
(* registry looks at is changed by.                                        *)
LEMMA QuietStep ==
    ASSUME RegInv, NEW i \in DOMAIN conn, NEW r \in Connections, Len(r.sendq) <= QueueLen,
           conn' = [conn EXCEPT ![i] = r],
           r.owner = conn[i].owner, r.srv = "serving" <=> conn[i].srv = "serving", conn[i].shut => r.shut,
           conns' = conns, client' = client, sent' \subseteq [src : Keys, frame : Frames],
           inbox' \in [Clients -> Seq(Packets)], \A c \in Clients : Len(inbox'[c]) <= InboxLen,
           got' \in [Clients -> Seq(Packets)], faults' \in 0 .. MaxFaults
    PROVE  RegInv'
<1>1. /\ RegistryExact' /\ conns' \in [Keys -> 0 .. Len(conn')]
      /\ conn' \in Seq(Connections) /\ \A j \in DOMAIN conn' : Len(conn'[j].sendq) <= QueueLen
      /\ DOMAIN conn' = DOMAIN conn /\ \A j \in DOMAIN conn : conn'[j].owner = conn[j].owner
  BY FlagStep, Zenon
<1>2. Owned'
  BY <1>1, SameOwner, Zenon DEF RegInv
<1> QED
  BY <1>1, <1>2, Zenon DEF RegInv, TypeOK

LEMMA ConnType ==
    ASSUME RegInv, NEW i \in DOMAIN conn
    PROVE  conn[i] \in Connections /\ Len(conn[i].sendq) <= QueueLen
  BY DEF RegInv, TypeOK

LEMMA NetworkFaultStep == ASSUME RegInv, NEW i \in DOMAIN conn, NetworkFault(i) PROVE RegInv'
<1> DEFINE r == [conn[i] EXCEPT !.broken = TRUE]
<1>1. conn[i] \in Connections /\ Len(conn[i].sendq) <= QueueLen
  BY ConnType, Zenon
<1>2. conn' = [conn EXCEPT ![i] = r] /\ UNCHANGED <<client, conns, sent, wg>>
  BY Zenon DEF NetworkFault
<1>3. faults' \in 0 .. MaxFaults
  BY RelayAssumption DEF NetworkFault, RegInv, TypeOK
<1>4. /\ r \in Connections /\ r.sendq = conn[i].sendq /\ r.owner = conn[i].owner /\ r.srv = conn[i].srv
      /\ r.shut = conn[i].shut
  BY <1>1, Zenon DEF Connections
<1> HIDE DEF r
<1> QED
  BY <1>1, <1>2, <1>3, <1>4, QuietStep, Zenon DEF RegInv, TypeOK, wg

LEMMA WriteErrorStep == ASSUME RegInv, NEW i \in DOMAIN conn, WriteError(i) PROVE RegInv'
<1> DEFINE r == [conn[i] EXCEPT !.shut = TRUE]
<1>1. conn[i] \in Connections /\ Len(conn[i].sendq) <= QueueLen
  BY ConnType, Zenon
<1>2. conn' = [conn EXCEPT ![i] = r] /\ UNCHANGED <<client, conns, sent, wg, faults>>
  BY Zenon DEF WriteError
<1>3. /\ r \in Connections /\ r.sendq = conn[i].sendq /\ r.owner = conn[i].owner /\ r.srv = conn[i].srv
      /\ r.shut
  BY <1>1, Zenon DEF Connections
<1> HIDE DEF r
<1> QED
  BY <1>1, <1>2, <1>3, QuietStep, Zenon DEF RegInv, TypeOK, wg

LEMMA HandshakeStep == ASSUME RegInv, NEW i \in DOMAIN conn, handshake(i) PROVE RegInv'
<1> DEFINE r == [conn[i] EXCEPT !.srv = "authed", !.ok = TRUE]
           q == [conn[i] EXCEPT !.srv = "gone"]
<1>1. conn[i] \in Connections /\ Len(conn[i].sendq) <= QueueLen
  BY ConnType, Zenon
<1>2. /\ conn' = [conn EXCEPT ![i] = r] \/ conn' = [conn EXCEPT ![i] = q]
      /\ UNCHANGED <<client, conns, sent, wg, faults>> /\ conn[i].srv # "serving"
  BY Zenon DEF handshake
<1>3. /\ r \in Connections /\ r.sendq = conn[i].sendq /\ r.owner = conn[i].owner /\ r.srv # "serving"
      /\ r.shut = conn[i].shut
  BY <1>1, Zenon DEF Connections
<1>4. /\ q \in Connections /\ q.sendq = conn[i].sendq /\ q.owner = conn[i].owner /\ q.srv # "serving"
      /\ q.shut = conn[i].shut
  BY <1>1, Zenon DEF Connections
<1> HIDE DEF r, q
<1>5. CASE conn' = [conn EXCEPT ![i] = r]
  BY <1>1, <1>2, <1>3, <1>5, QuietStep, Zenon DEF RegInv, TypeOK, wg
<1>6. CASE conn' = [conn EXCEPT ![i] = q]
  BY <1>1, <1>2, <1>4, <1>6, QuietStep, Zenon DEF RegInv, TypeOK, wg
<1> QED
  BY <1>2, <1>5, <1>6, Zenon

LEMMA ReadStep == ASSUME RegInv, NEW i \in DOMAIN conn, Read(i) PROVE RegInv'
<1> DEFINE frame == readFrame(conn[i].stream)
           target == IF frame = Garbage THEN NoConn ELSE conns[frame.dst]
           rest == SubSeq(conn[i].stream, 3, Len(conn[i].stream))
           h == IF target = NoConn /\ frame # Garbage THEN <<>> ELSE <<frame, target>>
           r == [conn[i] EXCEPT !.stream = rest, !.hold = h]
<1>1. conn[i] \in Connections /\ Len(conn[i].sendq) <= QueueLen
  BY ConnType, Zenon
<1>2. conn' = [conn EXCEPT ![i] = r] /\ UNCHANGED <<client, conns, sent, wg, faults>>
  BY Zenon DEF Read
<1>3. Len(conn[i].stream) >= 2 /\ conn[i].stream \in Seq(Units)
  BY <1>1, Zenon DEF Read, Connections
<1>4. rest \in Seq(Units) /\ conn[i].stream[1] \in Units
  BY <1>3, AfterTwo, Zenon
<1>5. frame = Garbage \/ frame \in Frames
  BY <1>4, Zenon DEF readFrame, Units
<1>6. h \in Holds
  <2>1. CASE frame = Garbage
    BY <2>1, Zenon DEF Holds
  <2>2. CASE frame # Garbage
    <3>1. conns[frame.dst] \in Nat
      BY <1>5, <2>2 DEF RegInv, TypeOK, Frames
    <3> QED
      BY <1>5, <2>2, <3>1, Zenon DEF Holds
  <2> QED
    BY <2>1, <2>2, Zenon
<1> HIDE DEF rest, h
<1>7. /\ r \in Connections /\ r.sendq = conn[i].sendq /\ r.owner = conn[i].owner /\ r.srv = conn[i].srv
      /\ r.shut = conn[i].shut
  BY <1>1, <1>4, <1>6, Zenon DEF Connections
<1> HIDE DEF r
<1> QED
  BY <1>1, <1>2, <1>7, QuietStep, Zenon DEF RegInv, TypeOK, wg

LEMMA AuthFailsStep == ASSUME RegInv, NEW c \in Clients, AuthFails(c) \/ ReadError(c) PROVE RegInv'
<1>1. client[c].cur # NoConn /\ SessionEnds(c)
  BY Zenon DEF AuthFails, ReadError, RegInv, Owned
<1> QED
  BY <1>1, SessionEndsStep, Zenon

LEMMA ConnectedStep == ASSUME RegInv, NEW c \in Clients, Connected(c) PROVE RegInv'
<1>1. client[c].pc = "auth" /\ client[c].cur # NoConn
  BY Zenon DEF Connected, RegInv, Owned
<1>2. CASE SessionEnds(c)
  BY <1>1, <1>2, SessionEndsStep, Zenon
<1>3. CASE client' = [client EXCEPT ![c].pc = "up"] /\ UNCHANGED <<conn, conns, sent, wg, faults>>
  <2>1. /\ client' \in [Clients -> [pc : {"idle", "auth", "up", "stopped"}, cur : Nat, closed : BOOLEAN]]
        /\ client'[c].cur = client[c].cur /\ client'[c].pc = "up"
        /\ \A d \in Clients \ {c} : client'[d] = client[d]
    BY <1>3, Zenon DEF RegInv, TypeOK
  <2>2. Owned'
    BY <1>1, <1>3, <2>1 DEF RegInv, Owned
  <2>3. RegistryExact'
    BY <1>3, Zenon DEF RegInv, RegistryExact, ConnKey
  <2> QED
    BY <1>3, <2>1, <2>2, <2>3, Zenon DEF RegInv, TypeOK, wg
<1> QED
  BY <1>2, <1>3, Zenon DEF Connected

LEMMA CloseStep == ASSUME RegInv, NEW c \in Clients, Close(c) PROVE RegInv'
<1> DEFINE i == client[c].cur
           r == [conn[i] EXCEPT !.broken = TRUE]
<1>1. UNCHANGED <<conns, sent, wg, faults>>
  BY Zenon DEF Close
<1>2. /\ client' \in [Clients -> [pc : {"idle", "auth", "up", "stopped"}, cur : Nat, closed : BOOLEAN]]
      /\ client'[c].cur = client[c].cur
      /\ client'[c].pc \in {"auth", "up"} <=> client[c].pc \in {"auth", "up"}
      /\ \A d \in Clients \ {c} : client'[d] = client[d]
  BY Zenon DEF Close, RegInv, TypeOK
<1>3. /\ RegistryExact' /\ conns' \in [Keys -> 0 .. Len(conn')]
      /\ conn' \in Seq(Connections) /\ \A j \in DOMAIN conn' : Len(conn'[j].sendq) <= QueueLen
      /\ DOMAIN conn' = DOMAIN conn /\ \A j \in DOMAIN conn : conn'[j].owner = conn[j].owner
  <2>1. CASE client[c].pc = "up"
    <3>1. i \in DOMAIN conn /\ conn[i] \in Connections /\ Len(conn[i].sendq) <= QueueLen
      BY <2>1, CurrentConn, Zenon DEF RegInv, Owned
    <3>2. conn' = [conn EXCEPT ![i] = r]
      BY <2>1, Zenon DEF Close
    <3>3. /\ r \in Connections /\ r.sendq = conn[i].sendq /\ r.owner = conn[i].owner
          /\ r.srv = conn[i].srv /\ r.shut = conn[i].shut
      BY <3>1, Zenon DEF Connections
    <3> HIDE DEF r
    <3> QED
      BY <1>1, <3>1, <3>2, <3>3, FlagStep, Zenon
  <2>2. CASE client[c].pc # "up"
    BY <1>1, <2>2, Zenon DEF Close, RegInv, TypeOK, RegistryExact, ConnKey
  <2> QED
    BY <2>1, <2>2, Zenon
<1>4. Owned'
  BY <1>2, <1>3 DEF RegInv, Owned
<1> QED
  BY <1>1, <1>2, <1>3, <1>4, Zenon DEF RegInv, TypeOK, wg

LEMMA DialStep == ASSUME RegInv, NEW c \in Clients, Dial(c) PROVE RegInv'
<1>1. UNCHANGED <<conns, sent, wg, faults>> /\ conn' = Append(conn, NewConn(c))
  BY Zenon DEF Dial
<1>2. /\ NewConn(c) \in Connections /\ NewConn(c).owner = c /\ NewConn(c).srv = "hello"
      /\ NewConn(c).sendq = <<>>
  BY Capacities DEF NewConn, Connections, Holds
<1>3. conn \in Seq(Connections) /\ Len(conn) \in Nat /\ DOMAIN conn = 1 .. Len(conn)
  BY LenProperties, Zenon DEF RegInv, TypeOK
<1>4. /\ conn' \in Seq(Connections) /\ Len(conn') = Len(conn) + 1 /\ DOMAIN conn' = 1 .. Len(conn) + 1
      /\ conn'[Len(conn) + 1] = NewConn(c) /\ \A j \in DOMAIN conn : conn'[j] = conn[j]
  BY <1>1, <1>2, <1>3, AppendProperties, LenProperties
<1>5. /\ client' \in [Clients -> [pc : {"idle", "auth", "up", "stopped"}, cur : Nat, closed : BOOLEAN]]
      /\ client'[c].cur = Len(conn) + 1 /\ client'[c].pc = "auth"
      /\ \A d \in Clients \ {c} : client'[d] = client[d]
  <2> DEFINE m == Len(conn) + 1
             r == [client[c] EXCEPT !.pc = "auth", !.cur = m]
  <2>1. client' = [client EXCEPT ![c] = r]
    BY Zenon DEF Dial
  <2>2. r \in [pc : {"idle", "auth", "up", "stopped"}, cur : Nat, closed : BOOLEAN]
        /\ r.cur = m /\ r.pc = "auth"
    <3>1. client[c] \in [pc : {"idle", "auth", "up", "stopped"}, cur : Nat, closed : BOOLEAN]
      BY Zenon DEF RegInv, TypeOK
    <3>2. m \in Nat
      BY <1>3
    <3> HIDE DEF m
    <3> QED
      BY <3>1, <3>2, Zenon
  <2> HIDE DEF r
  <2> QED
    BY <2>1, <2>2, Zenon DEF RegInv, TypeOK
<1>6. Owned'
  <2>1. Len(conn) + 1 \in DOMAIN conn' /\ Len(conn) + 1 # NoConn /\ DOMAIN conn \subseteq DOMAIN conn'
    BY <1>3, <1>4 DEF NoConn
  <2> QED
    BY <1>2, <1>4, <1>5, <2>1 DEF RegInv, Owned
<1>7. RegistryExact'
  <2>1. \A k \in Keys : conns[k] # NoConn => conns[k] \in DOMAIN conn
    BY <1>3 DEF RegInv, TypeOK, NoConn
  <2>2. \A j \in DOMAIN conn' : j \in DOMAIN conn \/ conn'[j].srv = "hello"
    BY <1>2, <1>3, <1>4
  <2> QED
    BY <1>1, <1>4, <2>1, <2>2 DEF RegInv, RegistryExact, ConnKey
<1>8. \A j \in DOMAIN conn' : Len(conn'[j].sendq) <= QueueLen
  <2>1. \A j \in DOMAIN conn' : j \in DOMAIN conn \/ conn'[j].sendq = <<>>
    BY <1>2, <1>3, <1>4
  <2> QED
    BY <1>4, <2>1, Capacities DEF RegInv, TypeOK
<1>9. conns' \in [Keys -> 0 .. Len(conn')]
  BY <1>1, <1>3, <1>4 DEF RegInv, TypeOK
<1> QED
  BY <1>1, <1>4, <1>5, <1>6, <1>7, <1>8, <1>9, Zenon DEF RegInv, TypeOK, wg

(* What Send writes: a header and, unless it times out, a body.            *)
LEMMA AddedTwo ==
    ASSUME NEW S, NEW s \in Seq(S), NEW a \in S, NEW b \in S
    PROVE  /\ s \o <<a, b>> \in Seq(S)
           /\ \A n \in DOMAIN (s \o <<a, b>>) :
                \/ n \in DOMAIN s /\ (s \o <<a, b>>)[n] = s[n]
                \/ (s \o <<a, b>>)[n] = a
                \/ n = Len(s) + 2 /\ (s \o <<a, b>>)[n] = b
<1> DEFINE w == <<a, b>>
           t == s \o w
<1>1. w \in Seq(S) /\ Len(w) = 2 /\ w[1] = a /\ w[2] = b
  OBVIOUS
<1> HIDE DEF w
<1>2. /\ t \in Seq(S) /\ Len(t) = Len(s) + Len(w)
      /\ \A n \in 1 .. Len(s) + Len(w) : t[n] = IF n <= Len(s) THEN s[n] ELSE w[n - Len(s)]
  BY <1>1, ConcatProperties, Zenon
<1> HIDE DEF t
<1>3. Len(s) \in Nat /\ DOMAIN s = 1 .. Len(s) /\ DOMAIN t = 1 .. Len(s) + 2
  BY <1>1, <1>2, LenProperties, Zenon
<1>4. ASSUME NEW n \in DOMAIN t
      PROVE  (n \in DOMAIN s /\ t[n] = s[n]) \/ t[n] = a \/ (n = Len(s) + 2 /\ t[n] = b)
  <2>1. n \in 1 .. Len(s) \/ n = Len(s) + 1 \/ n = Len(s) + 2
    BY <1>3
  <2>2. CASE n \in 1 .. Len(s)
    BY <1>1, <1>2, <1>3, <2>2
  <2>3. CASE n = Len(s) + 1
    <3>1. ~(n <= Len(s)) /\ n - Len(s) = 1
      BY <1>3, <2>3
    <3> QED
      BY <1>1, <1>2, <1>3, <3>1, Zenon
  <2>4. CASE n = Len(s) + 2
    <3>1. ~(n <= Len(s)) /\ n - Len(s) = 2
      BY <1>3, <2>4
    <3> QED
      BY <1>1, <1>2, <1>3, <2>4, <3>1, Zenon
  <2> QED
    BY <2>1, <2>2, <2>3, <2>4, Zenon
<1> QED
  BY <1>2, <1>4, Zenon DEF t, w

LEMMA Written ==
    ASSUME NEW frame \in Frames, NEW s \in Seq(Units)
    PROVE  LET whole == s \o writeFrame(frame)
               half == Append(s, writeFrame(frame)[1])
           IN  /\ whole \in Seq(Units) /\ half \in Seq(Units)
               /\ \A n \in DOMAIN whole :
                    \/ n \in DOMAIN s /\ whole[n] = s[n]
                    \/ whole[n] = [part |-> "header", frame |-> frame]
                    \/ n = Len(s) + 2 /\ whole[n] = [part |-> "body", frame |-> frame]
               /\ \A n \in DOMAIN half :
                    \/ n \in DOMAIN s /\ half[n] = s[n]
                    \/ half[n] = [part |-> "header", frame |-> frame]
<1> DEFINE header == [part |-> "header", frame |-> frame]
           body == [part |-> "body", frame |-> frame]
<1>1. header \in Units /\ body \in Units
  BY Zenon DEF Units
<1>2. writeFrame(frame) = <<header, body>>
  BY Zenon DEF writeFrame
<1> HIDE DEF header, body
<1>3. writeFrame(frame)[1] = header
  BY <1>2
<1>4. /\ s \o <<header, body>> \in Seq(Units)
      /\ \A n \in DOMAIN (s \o <<header, body>>) :
           \/ n \in DOMAIN s /\ (s \o <<header, body>>)[n] = s[n]
           \/ (s \o <<header, body>>)[n] = header
           \/ n = Len(s) + 2 /\ (s \o <<header, body>>)[n] = body
  BY <1>1, AddedTwo
<1>5. /\ Append(s, header) \in Seq(Units)
      /\ \A n \in DOMAIN Append(s, header) : \/ n \in DOMAIN s /\ Append(s, header)[n] = s[n]
                                             \/ Append(s, header)[n] = header
  BY <1>1, Added, Zenon
<1> QED
  BY <1>2, <1>3, <1>4, <1>5 DEF header, body

(* Both outcomes of a send: the whole frame, or its header alone.          *)
LEMMA SendStep ==
    ASSUME RegInv, NEW c \in Clients, NEW frame \in Frames, Send(c, frame) \/ SendTimeout(c, frame)
    PROVE  RegInv'
<1> DEFINE i == client[c].cur
           whole == conn[i].stream \o writeFrame(frame)
           half == Append(conn[i].stream, writeFrame(frame)[1])
           r == [conn[i] EXCEPT !.stream = whole]
           q == [conn[i] EXCEPT !.stream = half]
<1>1. i \in DOMAIN conn /\ conn[i] \in Connections /\ Len(conn[i].sendq) <= QueueLen
  BY CurrentConn, Zenon DEF RegInv, Owned, Send, SendTimeout
<1>2. /\ conn' = [conn EXCEPT ![i] = r] \/ conn' = [conn EXCEPT ![i] = q]
      /\ UNCHANGED <<client, conns, wg>>
  BY Zenon DEF Send, SendTimeout
<1>3. faults' \in 0 .. MaxFaults /\ sent' \subseteq [src : Keys, frame : Frames]
  <2>1. faults \in 0 .. MaxFaults /\ (faults' = faults \/ (faults < MaxFaults /\ faults' = faults + 1))
    BY Zenon DEF Send, SendTimeout, RegInv, TypeOK
  <2>2. sent' = sent \cup {[src |-> KeyOf[c], frame |-> frame]}
    BY Zenon DEF Send, SendTimeout
  <2>3. faults' \in 0 .. MaxFaults
    BY <2>1, RelayAssumption
  <2>4. sent' \subseteq [src : Keys, frame : Frames]
    BY <2>2 DEF RegInv, TypeOK, Keys
  <2> QED
    BY <2>3, <2>4, Zenon
<1>4. /\ whole \in Seq(Units)
      /\ half \in Seq(Units)
  <2>1. conn[i].stream \in Seq(Units)
    BY <1>1, Zenon DEF Connections
  <2> QED
    BY <2>1, Written, Zenon
<1> HIDE DEF whole, half
<1>5. /\ r \in Connections /\ r.sendq = conn[i].sendq /\ r.owner = conn[i].owner /\ r.srv = conn[i].srv
      /\ r.shut = conn[i].shut
  BY <1>1, <1>4, Zenon DEF Connections
<1>6. /\ q \in Connections /\ q.sendq = conn[i].sendq /\ q.owner = conn[i].owner /\ q.srv = conn[i].srv
      /\ q.shut = conn[i].shut
  BY <1>1, <1>4, Zenon DEF Connections
<1> HIDE DEF r, q
<1>7. CASE conn' = [conn EXCEPT ![i] = r]
  BY <1>1, <1>2, <1>3, <1>5, <1>7, QuietStep, Zenon DEF RegInv, TypeOK, wg
<1>8. CASE conn' = [conn EXCEPT ![i] = q]
  BY <1>1, <1>2, <1>3, <1>6, <1>8, QuietStep, Zenon DEF RegInv, TypeOK, wg
<1> QED
  BY <1>2, <1>7, <1>8, Zenon

LEMMA ReceiveStep == ASSUME RegInv, NEW c \in Clients, Receive(c) PROVE RegInv'
<1> DEFINE i == client[c].cur
           rest == Tail(conn[i].sendq)
           r == [conn[i] EXCEPT !.sendq = rest]
           packet == Head(conn[i].sendq)
<1>1. i \in DOMAIN conn /\ conn[i] \in Connections /\ Len(conn[i].sendq) <= QueueLen
  BY CurrentConn, Zenon DEF RegInv, Owned, Receive
<1>2. /\ conn' = [conn EXCEPT ![i] = r] /\ conn[i].sendq # <<>> /\ DeliverRelayPacket(c, packet)
      /\ UNCHANGED <<client, conns, sent, got, faults>>
  BY Zenon DEF Receive
<1>3. conn[i].sendq \in Seq(Packets)
  BY <1>1, Zenon DEF Connections
<1>4. rest \in Seq(Packets) /\ Len(rest) = Len(conn[i].sendq) - 1 /\ packet \in Packets
      /\ Len(conn[i].sendq) \in Nat
  BY <1>2, <1>3, AfterOne, LenProperties, Zenon
<1> HIDE DEF rest, packet
<1>5. /\ r \in Connections /\ r.sendq = rest /\ r.owner = conn[i].owner /\ r.srv = conn[i].srv
      /\ r.shut = conn[i].shut
  BY <1>1, <1>4, Zenon DEF Connections
<1>6. Len(r.sendq) <= QueueLen
  BY <1>1, <1>4, <1>5, Capacities
<1>7. inbox' \in [Clients -> Seq(Packets)] /\ \A d \in Clients : Len(inbox'[d]) <= InboxLen
  <2>1. inbox \in [Clients -> Seq(Packets)] /\ \A d \in Clients : Len(inbox[d]) <= InboxLen
    BY Zenon DEF RegInv, TypeOK
  <2>2. CASE Len(inbox[c]) < InboxLen
    <3> DEFINE b == Append(inbox[c], packet)
    <3>1. b \in Seq(Packets) /\ Len(b) = Len(inbox[c]) + 1 /\ Len(inbox[c]) \in Nat
      BY <1>4, <2>1, Added, Zenon
    <3>2. inbox' = [inbox EXCEPT ![c] = b]
      BY <1>2, <2>2, Zenon DEF DeliverRelayPacket
    <3> HIDE DEF b
    <3>3. Len(b) <= InboxLen
      BY <2>2, <3>1, Capacities
    <3> QED
      BY <2>1, <3>1, <3>2, <3>3, Zenon
  <2>3. CASE ~(Len(inbox[c]) < InboxLen)
    BY <1>2, <2>1, <2>3, Zenon DEF DeliverRelayPacket
  <2> QED
    BY <2>2, <2>3, Zenon
<1> HIDE DEF r
<1> QED
  BY <1>1, <1>2, <1>5, <1>6, <1>7, QuietStep, Zenon DEF RegInv, TypeOK

LEMMA receiveRelayStep == ASSUME RegInv, NEW c \in Clients, receiveRelay(c) PROVE RegInv'
<1> DEFINE rest == Tail(inbox[c])
           more == Append(got[c], Head(inbox[c]))
<1>1. inbox' = [inbox EXCEPT ![c] = rest] /\ got' = [got EXCEPT ![c] = more] /\ inbox[c] # <<>>
      /\ UNCHANGED <<client, conn, conns, sent, faults>>
  BY Zenon DEF receiveRelay
<1>2. inbox[c] \in Seq(Packets) /\ got[c] \in Seq(Packets) /\ Len(inbox[c]) <= InboxLen
  BY Zenon DEF RegInv, TypeOK
<1>3. rest \in Seq(Packets) /\ Len(rest) = Len(inbox[c]) - 1 /\ Len(inbox[c]) \in Nat
      /\ Head(inbox[c]) \in Packets
  BY <1>1, <1>2, AfterOne, LenProperties, Zenon
<1>4. more \in Seq(Packets)
  BY <1>2, <1>3, Added, Zenon
<1>5. Len(rest) <= InboxLen
  BY <1>2, <1>3, Capacities
<1> HIDE DEF rest, more
<1>6. inbox' \in [Clients -> Seq(Packets)] /\ \A d \in Clients : Len(inbox'[d]) <= InboxLen
  BY <1>1, <1>3, <1>5, Zenon DEF RegInv, TypeOK
<1>7. got' \in [Clients -> Seq(Packets)]
  BY <1>1, <1>4, Zenon DEF RegInv, TypeOK
<1>8. Owned' /\ RegistryExact'
  BY <1>1, Zenon DEF RegInv, Owned, RegistryExact, ConnKey
<1> QED
  BY <1>1, <1>6, <1>7, <1>8, Zenon DEF RegInv, TypeOK

-----------------------------------------------------------------------------
(* The server's steps.                                                     *)

(* The newest connection takes the key and the older one is shut.          *)
LEMMA RegisterStep == ASSUME RegInv, NEW i \in DOMAIN conn, Register(i) PROVE RegInv'
<1> DEFINE key == ConnKey(i)
           old == conns[key]
<1>1. /\ conn[i].srv = "authed" /\ UNCHANGED <<client, sent, wg, faults>>
      /\ conn' = [j \in DOMAIN conn |->
                    IF j = i THEN [conn[j] EXCEPT !.srv = "serving"]
                    ELSE IF j = old THEN [conn[j] EXCEPT !.shut = TRUE] ELSE conn[j]]
      /\ conns' = [conns EXCEPT ![key] = i]
  BY Zenon DEF Register
<1>2. /\ conn \in Seq(Connections) /\ Len(conn) \in Nat /\ DOMAIN conn = 1 .. Len(conn)
      /\ \A j \in DOMAIN conn : conn[j] \in Connections
  BY LenProperties, ElementOfSeq, Zenon DEF RegInv, TypeOK
<1>3. key \in Keys /\ conns \in [Keys -> 0 .. Len(conn)]
  BY <1>2, Zenon DEF ConnKey, Keys, RegInv, TypeOK, Connections
<1>4. \A j \in DOMAIN conn :
          /\ conn'[j] \in Connections /\ conn'[j].owner = conn[j].owner /\ conn'[j].sendq = conn[j].sendq
          /\ j = i => conn'[j].srv = "serving"
          /\ j # i => conn'[j].srv = conn[j].srv
          /\ j # i /\ j # old => conn'[j] = conn[j]
          /\ j # i /\ j = old => conn'[j].shut
  <2> TAKE j \in DOMAIN conn
  <2>1. conn[j] \in Connections
    BY <1>2, Zenon
  <2>2. CASE j = i
    BY <1>1, <2>1, <2>2, Zenon DEF Connections
  <2>3. CASE j # i /\ j = old
    BY <1>1, <2>1, <2>3, Zenon DEF Connections
  <2>4. CASE j # i /\ j # old
    BY <1>1, <2>1, <2>4, Zenon
  <2> QED
    BY <2>2, <2>3, <2>4, Zenon
<1>5. DOMAIN conn' = DOMAIN conn /\ conn' \in [1 .. Len(conn) -> Connections]
  BY <1>1, <1>2, <1>4, Zenon
<1>6. conn' \in Seq(Connections) /\ Len(conn') = Len(conn)
  BY <1>2, <1>5, SeqDef, LenProperties
<1>7. \A j \in DOMAIN conn : ConnKey(j)' = ConnKey(j)
  BY <1>4, Zenon DEF ConnKey
<1> HIDE DEF key, old
<1>8. conns' \in [Keys -> 0 .. Len(conn')] /\ conns'[key] = i /\ \A k \in Keys \ {key} : conns'[k] = conns[k]
  BY <1>1, <1>2, <1>3, <1>6
<1>9. RegistryExact'
  <2>1. ASSUME NEW k \in Keys, conns'[k] # NoConn
        PROVE  conn'[conns'[k]].srv = "serving" /\ KeyOf[conn'[conns'[k]].owner] = k
    <3>1. CASE k = key
      BY <1>4, <1>7, <1>8, <3>1, ZenonT(30) DEF key, ConnKey
    <3>2. CASE k # key
      <4>1. conns'[k] = conns[k] /\ conns[k] \in DOMAIN conn
        BY <1>2, <1>3, <1>8, <2>1, <3>2 DEF NoConn
      <4>2. conn[conns[k]].srv = "serving" /\ ConnKey(conns[k]) = k
        BY <2>1, <4>1, Zenon DEF RegInv, RegistryExact
      <4> QED
        BY <1>1, <1>4, <1>7, <4>1, <4>2 DEF ConnKey
    <3> QED
      BY <3>1, <3>2, Zenon
  <2>2. ASSUME NEW j \in DOMAIN conn, conn'[j].srv = "serving", ~conn'[j].shut
        PROVE  conns'[ConnKey(j)'] = j
    <3>1. CASE j = i
      BY <1>7, <1>8, <3>1, Zenon DEF key
    <3>2. CASE j # i
      <4>1. j # old /\ conn[j].srv = "serving" /\ ~conn[j].shut
        BY <1>4, <2>2, <3>2, Zenon
      <4>2. conns[ConnKey(j)] = j
        BY <4>1, Zenon DEF RegInv, RegistryExact
      <4>3. ConnKey(j) # key /\ ConnKey(j) \in Keys
        BY <1>2, <4>1, <4>2, Zenon DEF old, ConnKey, Keys, Connections
      <4> QED
        BY <1>7, <1>8, <4>2, <4>3, Zenon
    <3> QED
      BY <3>1, <3>2, Zenon
  <2> QED
    BY <1>5, <2>1, <2>2, Zenon DEF RegistryExact, ConnKey
<1>10. Owned'
  BY <1>1, <1>4, <1>5, SameOwner, Zenon DEF RegInv
<1>11. \A j \in DOMAIN conn' : Len(conn'[j].sendq) <= QueueLen
  BY <1>4, <1>5, Zenon DEF RegInv, TypeOK
<1> QED
  BY <1>1, <1>6, <1>8, <1>9, <1>10, <1>11, Zenon DEF RegInv, TypeOK, wg

(* A connection gives up its key only if the key is still its own.         *)
LEMMA ServeEndsStep == ASSUME RegInv, NEW i \in DOMAIN conn, ServeEnds(i) PROVE RegInv'
<1> DEFINE key == ConnKey(i)
           b == IF client[conn[i].owner].cur = i THEN conn[i].sendq ELSE <<>>
           r == [conn[i] EXCEPT !.srv = "gone", !.shut = TRUE, !.stream = <<>>, !.hold = <<>>, !.sendq = b]
<1>1. conn[i] \in Connections /\ Len(conn[i].sendq) <= QueueLen
  BY ConnType, Zenon
<1>2. conn' = [conn EXCEPT ![i] = r] /\ conns' = Unregister(i) /\ UNCHANGED <<client, sent, wg, faults>>
  BY Zenon DEF ServeEnds
<1>3. b \in Seq(Packets) /\ Len(b) <= QueueLen
  BY <1>1, Capacities DEF Connections
<1> HIDE DEF b
<1>4. r \in Connections /\ r.sendq = b /\ r.owner = conn[i].owner /\ r.srv = "gone"
  <2>1. <<>> \in Seq(Units) /\ <<>> \in Holds
    BY DEF Holds
  <2> QED
    BY <1>1, <1>3, <2>1, Zenon DEF Connections
<1> HIDE DEF r
<1>5. /\ conn' \in Seq(Connections) /\ Len(conn') = Len(conn) /\ DOMAIN conn' = DOMAIN conn
      /\ conn'[i] = r /\ \A j \in DOMAIN conn \ {i} : conn'[j] = conn[j]
      /\ \A j \in DOMAIN conn' : Len(conn'[j].sendq) <= QueueLen
  BY <1>2, <1>3, <1>4, ConnChanged, Zenon DEF RegInv
<1>6. \A j \in DOMAIN conn : conn'[j].owner = conn[j].owner /\ ConnKey(j)' = ConnKey(j)
  BY <1>4, <1>5, Zenon DEF ConnKey
<1>7. /\ conns \in [Keys -> 0 .. Len(conn)] /\ Len(conn) \in Nat
      /\ \A k \in Keys : conns[k] # NoConn => conns[k] \in DOMAIN conn
  BY LenProperties DEF RegInv, TypeOK, NoConn
<1>8. \A j \in DOMAIN conn : ConnKey(j) \in Keys
  BY ConnType, Zenon DEF ConnKey, Keys, Connections
<1> HIDE DEF key
<1>9. /\ conns' \in [Keys -> 0 .. Len(conn)]
      /\ \A k \in Keys : conns[k] # i => conns'[k] = conns[k]
      /\ \A k \in Keys : conns[k] = i => conns'[k] = NoConn
  <2>1. \A k \in Keys : conns[k] = i => k = key
    <3>1. i # NoConn
      BY LenProperties DEF RegInv, TypeOK, NoConn
    <3> QED
      BY <3>1, Zenon DEF RegInv, RegistryExact, key
  <2>2. conns' = IF conns[key] = i THEN [conns EXCEPT ![key] = NoConn] ELSE conns
    BY <1>2, Zenon DEF Unregister, key
  <2>3. key \in Keys
    BY <1>8, Zenon DEF key
  <2> QED
    BY <1>7, <2>1, <2>2, <2>3 DEF NoConn
<1>10. RegistryExact'
  <2>1. ASSUME NEW k \in Keys, conns'[k] # NoConn
        PROVE  conn'[conns'[k]].srv = "serving" /\ KeyOf[conn'[conns'[k]].owner] = k
    <3>1. conns[k] # i /\ conns'[k] = conns[k] /\ conns[k] \in DOMAIN conn
      BY <1>7, <1>9, <2>1, Zenon
    <3>2. conn[conns[k]].srv = "serving" /\ ConnKey(conns[k]) = k
      BY <2>1, <3>1, Zenon DEF RegInv, RegistryExact
    <3> QED
      BY <1>5, <1>6, <3>1, <3>2, Zenon DEF ConnKey
  <2>2. ASSUME NEW j \in DOMAIN conn, conn'[j].srv = "serving", ~conn'[j].shut
        PROVE  conns'[ConnKey(j)'] = j
    <3>1. j # i /\ conn'[j] = conn[j]
      BY <1>4, <1>5, <2>2, Zenon
    <3>2. conns[ConnKey(j)] = j
      BY <2>2, <3>1, Zenon DEF RegInv, RegistryExact
    <3> QED
      BY <1>6, <1>8, <1>9, <3>1, <3>2, Zenon
  <2> QED
    BY <1>5, <2>1, <2>2, Zenon DEF RegistryExact, ConnKey
<1>11. Owned'
  BY <1>2, <1>5, <1>6, SameOwner, Zenon DEF RegInv
<1> QED
  BY <1>2, <1>5, <1>9, <1>10, <1>11, Zenon DEF RegInv, TypeOK, wg

(* The frame leaves its connection, and reaches its target's queue unless  *)
(* that is full.                                                           *)
LEMMA forwardParts ==
    ASSUME RegInv, NEW i \in DOMAIN conn, forward(i)
    PROVE  LET frame == conn[i].hold[1]
               target == conn[i].hold[2]
           IN  /\ UNCHANGED <<client, conns, sent, wg, faults>>
               /\ DOMAIN conn' = DOMAIN conn /\ conn' \in Seq(Connections) /\ Len(conn') = Len(conn)
               /\ conn[i].hold # <<>>
               /\ \A j \in DOMAIN conn :
                    /\ conn'[j].owner = conn[j].owner /\ conn'[j].srv = conn[j].srv
                    /\ conn'[j].shut = conn[j].shut /\ conn'[j].stream = conn[j].stream
                    /\ conn'[j].hold = IF j = i THEN <<>> ELSE conn[j].hold
                    /\ Len(conn'[j].sendq) <= QueueLen
                    /\ \/ conn'[j].sendq = conn[j].sendq
                       \/ /\ j = target /\ conn[i].hold \notin {<<>>, <<Garbage, NoConn>>}
                          /\ conn'[j].sendq = Append(conn[j].sendq, Recv(i, frame))
<1> DEFINE frame == conn[i].hold[1]
           target == conn[i].hold[2]
           r == [conn[i] EXCEPT !.hold = <<>>]
           cleared == [conn EXCEPT ![i] = r]
<1>1. conn[i] \in Connections /\ Len(conn[i].sendq) <= QueueLen /\ conn \in Seq(Connections)
  BY ConnType, Zenon DEF RegInv, TypeOK
<1>2. /\ r \in Connections /\ r.owner = conn[i].owner /\ r.srv = conn[i].srv /\ r.shut = conn[i].shut
      /\ r.stream = conn[i].stream /\ r.hold = <<>> /\ r.sendq = conn[i].sendq
  BY <1>1, Zenon DEF Connections, Holds
<1> HIDE DEF r
<1>3. /\ cleared \in Seq(Connections) /\ Len(cleared) = Len(conn) /\ DOMAIN cleared = DOMAIN conn
      /\ cleared[i] = r /\ \A j \in DOMAIN conn \ {i} : cleared[j] = conn[j]
  BY <1>1, <1>2, SetConn
<1>4. UNCHANGED <<client, conns, sent, wg, faults>> /\ conn[i].hold # <<>>
  BY Zenon DEF forward
<1>5. conn' = IF target # NoConn /\ Len(conn[target].sendq) < QueueLen
              THEN [cleared EXCEPT ![target].sendq = Append(@, Recv(i, frame))]
              ELSE cleared
  BY Zenon DEF forward, r
<1> HIDE DEF cleared
<1>6. \A j \in DOMAIN conn :
          /\ cleared[j].owner = conn[j].owner /\ cleared[j].srv = conn[j].srv
          /\ cleared[j].shut = conn[j].shut /\ cleared[j].stream = conn[j].stream
          /\ cleared[j].hold = IF j = i THEN <<>> ELSE conn[j].hold
          /\ cleared[j].sendq = conn[j].sendq /\ Len(conn[j].sendq) <= QueueLen
  BY <1>2, <1>3, ConnType, Zenon
<1>7. CASE conn' = cleared
  BY <1>3, <1>4, <1>6, <1>7, Zenon
<1>8. CASE target # NoConn /\ Len(conn[target].sendq) < QueueLen /\ target \in DOMAIN conn
  <2> DEFINE b == Append(cleared[target].sendq, Recv(i, frame))
             q == [cleared[target] EXCEPT !.sendq = b]
  <2>1. conn[i].hold \notin {<<>>, <<Garbage, NoConn>>} /\ frame \in Frames
    BY <1>1, <1>4, <1>8 DEF Connections, Holds
  <2>2. Recv(i, frame) \in Packets
    BY <1>1, <2>1, Zenon DEF Recv, Packets, Frames, ConnKey, Keys, Connections
  <2>3. cleared[target] \in Connections /\ conn[target] \in Connections
    BY <1>3, <1>8, ElementOfSeq, LenProperties, ConnType
  <2>4. b \in Seq(Packets) /\ Len(b) = Len(conn[target].sendq) + 1 /\ Len(conn[target].sendq) \in Nat
        /\ b = Append(conn[target].sendq, Recv(i, frame))
    <3>1. cleared[target].sendq = conn[target].sendq /\ conn[target].sendq \in Seq(Packets)
      BY <1>6, <1>8, <2>3, Zenon DEF Connections
    <3> QED
      BY <2>2, <3>1, Added
  <2>5. conn' = [cleared EXCEPT ![target] = q]
    BY <1>5, <1>8, Zenon
  <2> HIDE DEF b
  <2>6. /\ q \in Connections /\ q.owner = cleared[target].owner /\ q.srv = cleared[target].srv
        /\ q.shut = cleared[target].shut /\ q.stream = cleared[target].stream
        /\ q.hold = cleared[target].hold /\ q.sendq = b
    BY <2>3, <2>4, Zenon DEF Connections
  <2> HIDE DEF q
  <2>7. /\ conn' \in Seq(Connections) /\ Len(conn') = Len(cleared) /\ DOMAIN conn' = DOMAIN cleared
        /\ conn'[target] = q /\ \A j \in DOMAIN cleared \ {target} : conn'[j] = cleared[j]
    BY <1>3, <1>8, <2>5, <2>6, SetConn
  <2>8. Len(b) <= QueueLen
    BY <1>8, <2>4, Capacities
  <2>9. ASSUME NEW j \in DOMAIN conn
        PROVE  /\ conn'[j].owner = conn[j].owner /\ conn'[j].srv = conn[j].srv
               /\ conn'[j].shut = conn[j].shut /\ conn'[j].stream = conn[j].stream
               /\ conn'[j].hold = IF j = i THEN <<>> ELSE conn[j].hold
               /\ Len(conn'[j].sendq) <= QueueLen
               /\ \/ conn'[j].sendq = conn[j].sendq
                  \/ j = target /\ conn'[j].sendq = Append(conn[j].sendq, Recv(i, frame))
    <3>1. CASE j = target
      BY <1>6, <2>4, <2>6, <2>7, <2>8, <3>1, Zenon
    <3>2. CASE j # target
      BY <1>3, <1>6, <2>7, <3>2
    <3> QED
      BY <3>1, <3>2, Zenon
  <2>10. DOMAIN conn' = DOMAIN conn /\ Len(conn') = Len(conn) /\ conn' \in Seq(Connections)
    BY <1>3, <2>7, Zenon
  <2> HIDE DEF target, frame
  <2> QED
    BY <1>4, <2>1, <2>9, <2>10, Zenon DEF target, frame
<1>9. CASE target \notin DOMAIN conn
  <2>1. conn' = cleared
    <3>1. target \notin DOMAIN cleared
      BY <1>3, <1>9, Zenon
    <3> HIDE DEF target
    <3> QED
      BY <1>3, <1>5, <3>1
  <2> QED
    BY <1>7, <2>1, Zenon
<1> QED
  BY <1>5, <1>7, <1>8, <1>9, Zenon

LEMMA forwardStep == ASSUME RegInv, NEW i \in DOMAIN conn, forward(i) PROVE RegInv'
<1>1. /\ UNCHANGED <<client, conns, sent, wg, faults>> /\ DOMAIN conn' = DOMAIN conn
      /\ conn' \in Seq(Connections) /\ Len(conn') = Len(conn)
      /\ \A j \in DOMAIN conn :
           /\ conn'[j].owner = conn[j].owner /\ conn'[j].srv = conn[j].srv
           /\ conn'[j].shut = conn[j].shut /\ Len(conn'[j].sendq) <= QueueLen
  BY forwardParts, Zenon
<1>2. RegistryExact'
  BY <1>1, SameRegistry, Zenon DEF RegInv
<1>3. Owned'
  BY <1>1, SameOwner, Zenon DEF RegInv
<1> QED
  BY <1>1, <1>2, <1>3, Zenon DEF RegInv, TypeOK, wg

LEMMA RegInit == Init => RegInv
<1> SUFFICES ASSUME Init PROVE RegInv
  BY Zenon
<1>1. conn = <<>> /\ conn \in Seq(Connections) /\ Len(conn) = 0 /\ DOMAIN conn = {}
  BY DEF Init
<1>2. TypeOK
  BY <1>1, Capacities, RelayAssumption DEF Init, TypeOK, NoConn
<1>3. Owned
  BY Zenon DEF Init, Owned, NoConn
<1>4. RegistryExact
  BY <1>1, Zenon DEF Init, RegistryExact
<1> QED
  BY <1>2, <1>3, <1>4, Zenon DEF RegInv

LEMMA RegNext == RegInv /\ [Next]_vars => RegInv'
<1> SUFFICES ASSUME RegInv, [Next]_vars PROVE RegInv'
  BY Zenon
<1>1. ASSUME NEW c \in Clients, ClientStep(c) \/ Close(c) \/ receiveRelay(c) PROVE RegInv'
  BY <1>1, DialStep, AuthFailsStep, ConnectedStep, ReceiveStep, CloseStep, receiveRelayStep, Zenon DEF ClientStep
<1>2. ASSUME NEW c \in Clients, NEW frame \in Frames, Send(c, frame) \/ SendTimeout(c, frame) PROVE RegInv'
  BY <1>2, SendStep, Zenon
<1>3. ASSUME NEW i \in DOMAIN conn, ServerStep(i) \/ NetworkFault(i) PROVE RegInv'
  BY <1>3, HandshakeStep, RegisterStep, ReadStep, forwardStep, WriteErrorStep, ServeEndsStep, NetworkFaultStep, Zenon
     DEF ServerStep
<1>4. ASSUME UNCHANGED vars PROVE RegInv'
  BY <1>4, Zenon DEF RegInv, TypeOK, Owned, RegistryExact, ConnKey, vars, wg
<1> QED
  BY <1>1, <1>2, <1>3, <1>4, Zenon DEF Next

LEMMA RegInvariant == Spec => []RegInv
  BY RegInit, RegNext, PTL DEF Spec

(* Every variable keeps its type; the queues never exceed their capacity.  *)
THEOREM RelayTyped == Spec => []TypeOK
<1>1. RegInv => TypeOK
  BY Zenon DEF RegInv
<1> QED
  BY <1>1, RegInvariant, PTL

(* The server's map of connections and the goroutines that serve them      *)
(* agree, through any number of reconnects, replacements and faults.       *)
THEOREM RegistryIsExact == Spec => []RegistryExact
<1>1. RegInv => RegistryExact
  BY Zenon DEF RegInv
<1> QED
  BY <1>1, RegInvariant, PTL

-----------------------------------------------------------------------------
(* Packets: where they come from, and that none is ever in two places.     *)

\* The packet as its sender handed it to Send.
Was(packet) ==
    [src |-> packet.src, frame |-> [dst |-> packet.dst, payload |-> packet.payload]] \in sent

StreamSent ==
    \A i \in DOMAIN conn : \A n \in DOMAIN conn[i].stream :
        [src |-> ConnKey(i), frame |-> conn[i].stream[n].frame] \in sent

\* A frame in hand is on its way to a connection of the key it names.
HoldSent ==
    \A i \in DOMAIN conn : conn[i].hold \notin {<<>>, <<Garbage, NoConn>>} =>
        /\ [src |-> ConnKey(i), frame |-> conn[i].hold[1]] \in sent
        /\ conn[i].hold[2] \in DOMAIN conn
        /\ ConnKey(conn[i].hold[2]) = conn[i].hold[1].dst

QueueSent ==
    \A i \in DOMAIN conn : \A n \in DOMAIN conn[i].sendq :
        conn[i].sendq[n].dst = ConnKey(i) /\ Was(conn[i].sendq[n])

InboxSent ==
    \A c \in Clients : \A n \in DOMAIN inbox[c] : inbox[c][n].dst = KeyOf[c] /\ Was(inbox[c][n])

GotSent ==
    \A c \in Clients : \A n \in DOMAIN got[c] : got[c][n].dst = KeyOf[c] /\ Was(got[c][n])

Sourced == StreamSent /\ HoldSent /\ QueueSent /\ InboxSent /\ GotSent

\* The places a payload can be in: a whole frame on its way to the server, the
\* server's hand, a queue, an inbox, or delivered.
At(q) ==
    \/ /\ q[1] = "stream" /\ q[2] \in DOMAIN conn /\ q[3] \in DOMAIN conn[q[2]].stream
       /\ conn[q[2]].stream[q[3]].part = "body" /\ conn[q[2]].stream[q[3]].frame.payload = q[4]
    \/ /\ q[1] = "hold" /\ q[2] \in DOMAIN conn /\ q[3] = 0
       /\ conn[q[2]].hold # <<>> /\ conn[q[2]].hold[1].payload = q[4]
    \/ /\ q[1] = "queue" /\ q[2] \in DOMAIN conn /\ q[3] \in DOMAIN conn[q[2]].sendq
       /\ conn[q[2]].sendq[q[3]].payload = q[4]
    \/ /\ q[1] = "inbox" /\ q[2] \in Clients /\ q[3] \in DOMAIN inbox[q[2]]
       /\ inbox[q[2]][q[3]].payload = q[4]
    \/ /\ q[1] = "got" /\ q[2] \in Clients /\ q[3] \in DOMAIN got[q[2]]
       /\ got[q[2]][q[3]].payload = q[4]

Spots == {"stream", "hold", "queue", "inbox", "got"} \X (Nat \cup Clients) \X Nat \X Payloads
Places == {q \in Spots : At(q)}

Once == \A q, p \in Places : q[4] = p[4] => q = p

PacketInv == RegInv /\ Sourced /\ Once

(* If every place comes from an earlier one with the same payload, by a    *)
(* move that depends on that place alone, no payload is in two places.     *)
LEMMA Moves ==
    ASSUME Once, NEW move, \A q \in Places' : \E o \in Places : o[4] = q[4] /\ q = move[o]
    PROVE  Once'
<1> SUFFICES ASSUME NEW q \in Places', NEW p \in Places', q[4] = p[4] PROVE q = p
  BY Zenon DEF Once
<1>1. PICK o \in Places : o[4] = q[4] /\ q = move[o]
  BY Zenon
<1>2. PICK u \in Places : u[4] = p[4] /\ p = move[u]
  BY Zenon
<1>3. o = u
  BY <1>1, <1>2 DEF Once
<1> QED
  BY <1>1, <1>2, <1>3, Zenon

LEMMA Stays == ASSUME Once, Places' \subseteq Places PROVE Once'
  BY Zenon DEF Once

(* A payload that is somewhere has been sent.                              *)
LEMMA PlacesSent ==
    ASSUME RegInv, Sourced, NEW q \in Places
    PROVE  \E s \in sent : s.frame.payload = q[4]
<1>1. q[4] \in Payloads /\ At(q)
  BY Zenon DEF Places, Spots
<1>2. CASE q[1] = "stream"
  <2>1. /\ q[2] \in DOMAIN conn /\ q[3] \in DOMAIN conn[q[2]].stream
        /\ conn[q[2]].stream[q[3]].frame.payload = q[4]
    BY <1>1, <1>2, Zenon DEF At
  <2>2. [src |-> ConnKey(q[2]), frame |-> conn[q[2]].stream[q[3]].frame] \in sent
    BY <2>1, Zenon DEF Sourced, StreamSent
  <2> QED
    BY <2>1, <2>2, Zenon
<1>3. CASE q[1] = "hold"
  <2>1. q[2] \in DOMAIN conn /\ conn[q[2]].hold # <<>> /\ conn[q[2]].hold[1].payload = q[4]
    BY <1>1, <1>3, Zenon DEF At
  <2>2. conn[q[2]].hold # <<Garbage, NoConn>>
    BY <1>1, <2>1, RelayAssumption DEF Garbage, NoConn
  <2>3. [src |-> ConnKey(q[2]), frame |-> conn[q[2]].hold[1]] \in sent
    BY <2>1, <2>2, Zenon DEF Sourced, HoldSent
  <2> QED
    BY <2>1, <2>3, Zenon
<1>4. CASE q[1] = "queue"
  BY <1>1, <1>4, Zenon DEF At, Sourced, QueueSent, Was
<1>5. CASE q[1] = "inbox"
  BY <1>1, <1>5, Zenon DEF At, Sourced, InboxSent, Was
<1>6. CASE q[1] = "got"
  BY <1>1, <1>6, Zenon DEF At, Sourced, GotSent, Was
<1> QED
  BY <1>1, <1>2, <1>3, <1>4, <1>5, <1>6, Zenon DEF At

-----------------------------------------------------------------------------
(* What is left alone.                                                     *)

Unmoved == DOMAIN conn' = DOMAIN conn /\ \A j \in DOMAIN conn : conn'[j].owner = conn[j].owner

LEMMA StreamSame ==
    ASSUME StreamSent, Unmoved, sent \subseteq sent', \A j \in DOMAIN conn : conn'[j].stream = conn[j].stream
    PROVE  StreamSent'
  BY Zenon DEF StreamSent, Unmoved, ConnKey

LEMMA HoldSame ==
    ASSUME HoldSent, Unmoved, sent \subseteq sent', \A j \in DOMAIN conn : conn'[j].hold = conn[j].hold
    PROVE  HoldSent'
<1>1. \A j \in DOMAIN conn : ConnKey(j)' = ConnKey(j)
  BY Zenon DEF Unmoved, ConnKey
<1> QED
  BY <1>1, Zenon DEF HoldSent, Unmoved

LEMMA QueueSame ==
    ASSUME QueueSent, Unmoved, sent \subseteq sent', \A j \in DOMAIN conn : conn'[j].sendq = conn[j].sendq
    PROVE  QueueSent'
<1>1. \A j \in DOMAIN conn : ConnKey(j)' = ConnKey(j)
  BY Zenon DEF Unmoved, ConnKey
<1> QED
  BY <1>1, Zenon DEF QueueSent, Unmoved, Was

(* ... or changed in one place.                                            *)
LEMMA StreamOne ==
    ASSUME StreamSent, Unmoved, sent \subseteq sent', NEW i \in DOMAIN conn,
           \A j \in DOMAIN conn \ {i} : conn'[j].stream = conn[j].stream,
           \A n \in DOMAIN conn'[i].stream : [src |-> ConnKey(i), frame |-> conn'[i].stream[n].frame] \in sent'
    PROVE  StreamSent'
<1>1. \A j \in DOMAIN conn : ConnKey(j)' = ConnKey(j)
  BY Zenon DEF Unmoved, ConnKey
<1> SUFFICES ASSUME NEW j \in DOMAIN conn, NEW n \in DOMAIN conn'[j].stream
             PROVE  [src |-> ConnKey(j), frame |-> conn'[j].stream[n].frame] \in sent'
  BY <1>1, Zenon DEF StreamSent, Unmoved
<1>2. CASE j = i
  BY <1>2, Zenon
<1>3. CASE j # i
  BY <1>3 DEF StreamSent
<1> QED
  BY <1>2, <1>3, Zenon

LEMMA HoldOne ==
    ASSUME HoldSent, Unmoved, sent \subseteq sent', NEW i \in DOMAIN conn,
           \A j \in DOMAIN conn \ {i} : conn'[j].hold = conn[j].hold,
           conn'[i].hold \notin {<<>>, <<Garbage, NoConn>>} =>
               /\ [src |-> ConnKey(i), frame |-> conn'[i].hold[1]] \in sent'
               /\ conn'[i].hold[2] \in DOMAIN conn
               /\ ConnKey(conn'[i].hold[2]) = conn'[i].hold[1].dst
    PROVE  HoldSent'
<1>1. \A j \in DOMAIN conn : KeyOf[conn'[j].owner] = ConnKey(j)
  BY Zenon DEF Unmoved, ConnKey
<1>2. ASSUME NEW j \in DOMAIN conn, conn'[j].hold \notin {<<>>, <<Garbage, NoConn>>}
      PROVE  /\ [src |-> ConnKey(j), frame |-> conn'[j].hold[1]] \in sent'
             /\ conn'[j].hold[2] \in DOMAIN conn
             /\ ConnKey(conn'[j].hold[2]) = conn'[j].hold[1].dst
  <2>1. CASE j = i
    BY <1>2, <2>1, Zenon
  <2>2. CASE j # i
    <3>1. conn'[j].hold = conn[j].hold
      BY <2>2, Zenon
    <3> QED
      BY <1>2, <3>1, Zenon DEF HoldSent
  <2> QED
    BY <2>1, <2>2, Zenon
<1>3. ASSUME NEW j \in DOMAIN conn', conn'[j].hold \notin {<<>>, <<Garbage, NoConn>>}
      PROVE  /\ [src |-> KeyOf[conn'[j].owner], frame |-> conn'[j].hold[1]] \in sent'
             /\ conn'[j].hold[2] \in DOMAIN conn'
             /\ KeyOf[conn'[conn'[j].hold[2]].owner] = conn'[j].hold[1].dst
  BY <1>1, <1>2, <1>3, Zenon DEF Unmoved
<1> QED
  BY <1>3, Zenon DEF HoldSent, ConnKey

LEMMA QueueAll ==
    ASSUME Unmoved, sent \subseteq sent',
           \A j \in DOMAIN conn : \A n \in DOMAIN conn'[j].sendq :
               conn'[j].sendq[n].dst = ConnKey(j) /\ Was(conn'[j].sendq[n])
    PROVE  QueueSent'
<1>1. \A j \in DOMAIN conn : ConnKey(j)' = ConnKey(j)
  BY Zenon DEF Unmoved, ConnKey
<1> QED
  BY <1>1, Zenon DEF QueueSent, Unmoved, Was

\* A step that at most empties queues, and adds empty ones.
Shrinks ==
    /\ UNCHANGED <<sent, inbox, got>>
    /\ DOMAIN conn \subseteq DOMAIN conn'
    /\ \A j \in DOMAIN conn :
         /\ conn'[j].owner = conn[j].owner
         /\ conn'[j].stream \in {conn[j].stream, <<>>}
         /\ conn'[j].hold \in {conn[j].hold, <<>>}
         /\ conn'[j].sendq \in {conn[j].sendq, <<>>}
    /\ \A j \in DOMAIN conn' \ DOMAIN conn :
         conn'[j].stream = <<>> /\ conn'[j].hold = <<>> /\ conn'[j].sendq = <<>>

LEMMA ShrinkStep == ASSUME Sourced, Once, Shrinks PROVE Sourced' /\ Once'
<1>1. \A j \in DOMAIN conn : ConnKey(j)' = ConnKey(j)
  BY Zenon DEF Shrinks, ConnKey
<1>2. DOMAIN <<>> = {}
  OBVIOUS
<1>3. StreamSent'
  <2> SUFFICES ASSUME NEW i \in DOMAIN conn', NEW n \in DOMAIN conn'[i].stream
               PROVE  [src |-> ConnKey(i)', frame |-> conn'[i].stream[n].frame] \in sent'
    BY Zenon DEF StreamSent
  <2>1. i \in DOMAIN conn /\ conn'[i].stream = conn[i].stream
    BY <1>2, Zenon DEF Shrinks
  <2> QED
    BY <1>1, <2>1, Zenon DEF Sourced, StreamSent, Shrinks
<1>4. HoldSent'
  <2> SUFFICES ASSUME NEW i \in DOMAIN conn', conn'[i].hold \notin {<<>>, <<Garbage, NoConn>>}
               PROVE  /\ [src |-> ConnKey(i)', frame |-> conn'[i].hold[1]] \in sent'
                      /\ conn'[i].hold[2] \in DOMAIN conn'
                      /\ KeyOf[conn'[conn'[i].hold[2]].owner] = conn'[i].hold[1].dst
    BY Zenon DEF HoldSent, ConnKey
  <2>1. i \in DOMAIN conn /\ conn'[i].hold = conn[i].hold
    BY Zenon DEF Shrinks
  <2>2. /\ [src |-> ConnKey(i), frame |-> conn[i].hold[1]] \in sent
        /\ conn[i].hold[2] \in DOMAIN conn
        /\ ConnKey(conn[i].hold[2]) = conn[i].hold[1].dst
    BY <2>1, Zenon DEF Sourced, HoldSent
  <2> QED
    BY <1>1, <2>1, <2>2, Zenon DEF Shrinks, ConnKey
<1>5. QueueSent'
  <2> SUFFICES ASSUME NEW i \in DOMAIN conn', NEW n \in DOMAIN conn'[i].sendq
               PROVE  conn'[i].sendq[n].dst = ConnKey(i)' /\ Was(conn[i].sendq[n])'
    BY Zenon DEF QueueSent
  <2>1. i \in DOMAIN conn /\ conn'[i].sendq = conn[i].sendq
    BY <1>2, Zenon DEF Shrinks
  <2> QED
    BY <1>1, <2>1, Zenon DEF Sourced, QueueSent, Was, Shrinks
<1>6. InboxSent' /\ GotSent'
  BY Zenon DEF Sourced, InboxSent, GotSent, Was, Shrinks
<1>7. Places' \subseteq Places
  <2> SUFFICES ASSUME NEW q \in Spots, At(q)' PROVE At(q)
    BY Zenon DEF Places, Spots
  <2>1. CASE q[1] \in {"inbox", "got"}
    BY <2>1, Zenon DEF At, Shrinks
  <2>2. CASE q[1] = "stream"
    <3>1. q[2] \in DOMAIN conn /\ conn'[q[2]].stream = conn[q[2]].stream
      BY <1>2, <2>2, Zenon DEF At, Shrinks
    <3> QED
      BY <2>2, <3>1, Zenon DEF At
  <2>3. CASE q[1] = "hold"
    <3>1. q[2] \in DOMAIN conn /\ conn'[q[2]].hold = conn[q[2]].hold
      BY <2>3, Zenon DEF At, Shrinks
    <3> QED
      BY <2>3, <3>1, Zenon DEF At
  <2>4. CASE q[1] = "queue"
    <3>1. q[2] \in DOMAIN conn /\ conn'[q[2]].sendq = conn[q[2]].sendq
      BY <1>2, <2>4, Zenon DEF At, Shrinks
    <3> QED
      BY <2>4, <3>1, Zenon DEF At
  <2> QED
    BY <2>1, <2>2, <2>3, <2>4, Zenon DEF Spots
<1>8. Once'
  BY <1>7, Stays, Zenon
<1> QED
  BY <1>3, <1>4, <1>5, <1>6, <1>8, Zenon DEF Sourced

(* The steps that move no packet.                                          *)
LEMMA SessionEndsShrinks ==
    ASSUME RegInv, NEW c \in Clients, client[c].cur # NoConn, SessionEnds(c) PROVE Shrinks
<1> DEFINE i == client[c].cur
           r == [conn[i] EXCEPT !.broken = TRUE, !.ok = FALSE, !.sendq = <<>>]
<1>1. i \in DOMAIN conn /\ conn[i] \in Connections
  BY CurrentConn, Zenon
<1>2. conn' = [conn EXCEPT ![i] = r] /\ UNCHANGED wg /\ sent' = sent
  BY <1>1, Zenon DEF SessionEnds
<1>3. /\ r.sendq = <<>> /\ r.owner = conn[i].owner /\ r.stream = conn[i].stream /\ r.hold = conn[i].hold
  BY <1>1, Zenon DEF Connections
<1> HIDE DEF r
<1> QED
  BY <1>1, <1>2, <1>3, Zenon DEF Shrinks, wg

LEMMA DialShrinks == ASSUME RegInv, NEW c \in Clients, Dial(c) PROVE Shrinks
<1>1. UNCHANGED wg /\ sent' = sent /\ conn' = Append(conn, NewConn(c))
  BY Zenon DEF Dial
<1>2. NewConn(c).stream = <<>> /\ NewConn(c).hold = <<>> /\ NewConn(c).sendq = <<>>
  BY Zenon DEF NewConn
<1>3. conn \in Seq(Connections) /\ Len(conn) \in Nat /\ DOMAIN conn = 1 .. Len(conn)
      /\ NewConn(c) \in Connections
  BY LenProperties, Capacities DEF RegInv, TypeOK, NewConn, Connections, Holds
<1>4. /\ DOMAIN conn' = 1 .. Len(conn) + 1
      /\ conn'[Len(conn) + 1] = NewConn(c) /\ \A j \in DOMAIN conn : conn'[j] = conn[j]
  BY <1>1, <1>3, AppendProperties, LenProperties
<1>5. DOMAIN conn \subseteq DOMAIN conn' /\ \A j \in DOMAIN conn' \ DOMAIN conn : conn'[j] = NewConn(c)
  BY <1>3, <1>4
<1> QED
  BY <1>1, <1>2, <1>4, <1>5, Zenon DEF Shrinks, wg

LEMMA ClientShrinks ==
    ASSUME RegInv, NEW c \in Clients, Dial(c) \/ AuthFails(c) \/ Connected(c) \/ ReadError(c) \/ Close(c)
    PROVE  Shrinks
<1>1. CASE Dial(c)
  BY <1>1, DialShrinks, Zenon
<1>2. CASE client[c].cur # NoConn /\ SessionEnds(c)
  BY <1>2, SessionEndsShrinks, Zenon
<1>3. CASE UNCHANGED <<conn, sent, wg>>
  BY <1>3, Zenon DEF Shrinks, wg
<1>4. CASE Close(c)
  <2> DEFINE i == client[c].cur
             r == [conn[i] EXCEPT !.broken = TRUE]
  <2>1. CASE client[c].pc = "up"
    <3>1. i \in DOMAIN conn /\ conn[i] \in Connections
      BY <2>1, CurrentConn, Zenon DEF RegInv, Owned
    <3>2. conn' = [conn EXCEPT ![i] = r] /\ UNCHANGED wg /\ sent' = sent
      BY <1>4, <2>1, Zenon DEF Close
    <3>3. r.sendq = conn[i].sendq /\ r.owner = conn[i].owner /\ r.stream = conn[i].stream
          /\ r.hold = conn[i].hold
      BY <3>1, Zenon DEF Connections
    <3> HIDE DEF r
    <3> QED
      BY <3>1, <3>2, <3>3, Zenon DEF Shrinks, wg
  <2>2. CASE client[c].pc # "up"
    BY <1>3, <1>4, <2>2, Zenon DEF Close
  <2> QED
    BY <2>1, <2>2, Zenon
<1>5. client[c].pc \in {"auth", "up"} => client[c].cur # NoConn
  BY Zenon DEF RegInv, Owned
<1> QED
  BY <1>1, <1>2, <1>3, <1>4, <1>5, Zenon DEF AuthFails, Connected, ReadError

LEMMA ServerShrinks ==
    ASSUME RegInv, NEW i \in DOMAIN conn,
           handshake(i) \/ Register(i) \/ WriteError(i) \/ ServeEnds(i) \/ NetworkFault(i)
    PROVE  Shrinks
<1>1. /\ conn[i] \in Connections /\ UNCHANGED wg /\ sent' = sent
      /\ \A j \in DOMAIN conn : conn[j] \in Connections
  BY ConnType, Zenon DEF handshake, Register, WriteError, ServeEnds, NetworkFault
<1>2. ASSUME NEW r, conn' = [conn EXCEPT ![i] = r], r.owner = conn[i].owner,
             r.stream \in {conn[i].stream, <<>>}, r.hold \in {conn[i].hold, <<>>},
             r.sendq \in {conn[i].sendq, <<>>}
      PROVE  Shrinks
  BY <1>1, <1>2, Zenon DEF Shrinks, wg
<1>3. CASE handshake(i)
  <2> DEFINE r == [conn[i] EXCEPT !.srv = "authed", !.ok = TRUE]
             q == [conn[i] EXCEPT !.srv = "gone"]
  <2>1. conn' = [conn EXCEPT ![i] = r] \/ conn' = [conn EXCEPT ![i] = q]
    BY <1>3, Zenon DEF handshake
  <2>2. /\ r.owner = conn[i].owner /\ r.stream = conn[i].stream /\ r.hold = conn[i].hold
        /\ r.sendq = conn[i].sendq
        /\ q.owner = conn[i].owner /\ q.stream = conn[i].stream /\ q.hold = conn[i].hold
        /\ q.sendq = conn[i].sendq
    BY <1>1, Zenon DEF Connections
  <2> HIDE DEF r, q
  <2> QED
    BY <1>2, <2>1, <2>2, Zenon
<1>4. CASE Register(i)
  <2> DEFINE old == conns[ConnKey(i)]
  <2>1. conn' = [j \in DOMAIN conn |->
                   IF j = i THEN [conn[j] EXCEPT !.srv = "serving"]
                   ELSE IF j = old THEN [conn[j] EXCEPT !.shut = TRUE] ELSE conn[j]]
    BY <1>4, Zenon DEF Register
  <2> HIDE DEF old
  <2>2. \A j \in DOMAIN conn : /\ conn'[j].owner = conn[j].owner /\ conn'[j].stream = conn[j].stream
                               /\ conn'[j].hold = conn[j].hold /\ conn'[j].sendq = conn[j].sendq
    <3> TAKE j \in DOMAIN conn
    <3>1. conn[j] \in Connections
      BY <1>1, Zenon
    <3>2. CASE j = i
      BY <2>1, <3>1, <3>2, Zenon DEF Connections
    <3>3. CASE j # i /\ j = old
      BY <2>1, <3>1, <3>3, Zenon DEF Connections
    <3>4. CASE j # i /\ j # old
      BY <2>1, <3>4, Zenon
    <3> QED
      BY <3>2, <3>3, <3>4, Zenon
  <2>3. DOMAIN conn' = DOMAIN conn
    BY <2>1, ZenonT(30)
  <2> QED
    BY <1>1, <2>2, <2>3, Zenon DEF Shrinks, wg
<1>5. CASE WriteError(i) \/ NetworkFault(i)
  <2> DEFINE r == [conn[i] EXCEPT !.shut = TRUE]
             q == [conn[i] EXCEPT !.broken = TRUE]
  <2>1. conn' = [conn EXCEPT ![i] = r] \/ conn' = [conn EXCEPT ![i] = q]
    BY <1>5, Zenon DEF WriteError, NetworkFault
  <2>2. /\ r.owner = conn[i].owner /\ r.stream = conn[i].stream /\ r.hold = conn[i].hold
        /\ r.sendq = conn[i].sendq
        /\ q.owner = conn[i].owner /\ q.stream = conn[i].stream /\ q.hold = conn[i].hold
        /\ q.sendq = conn[i].sendq
    BY <1>1, Zenon DEF Connections
  <2> HIDE DEF r, q
  <2> QED
    BY <1>2, <2>1, <2>2, Zenon
<1>6. CASE ServeEnds(i)
  <2> DEFINE b == IF client[conn[i].owner].cur = i THEN conn[i].sendq ELSE <<>>
             r == [conn[i] EXCEPT !.srv = "gone", !.shut = TRUE, !.stream = <<>>, !.hold = <<>>, !.sendq = b]
  <2>1. conn' = [conn EXCEPT ![i] = r]
    BY <1>6, Zenon DEF ServeEnds
  <2>2. b \in {conn[i].sendq, <<>>}
    BY Zenon
  <2> HIDE DEF b
  <2>3. r.owner = conn[i].owner /\ r.stream = <<>> /\ r.hold = <<>> /\ r.sendq = b
    BY <1>1, Zenon DEF Connections
  <2> HIDE DEF r
  <2> QED
    BY <1>2, <2>1, <2>2, <2>3, ZenonT(30)
<1> QED
  BY <1>3, <1>4, <1>5, <1>6, Zenon

-----------------------------------------------------------------------------
(* The steps that move packets.                                            *)

(* What a send adds to the stream: headers, and at most the body of the    *)
(* new frame.                                                              *)
LEMMA SendParts ==
    ASSUME RegInv, NEW c \in Clients, NEW frame \in Frames, Send(c, frame) \/ SendTimeout(c, frame)
    PROVE  LET i == client[c].cur
               s == conn[i].stream
               t == conn'[i].stream
           IN  /\ i \in DOMAIN conn /\ ConnKey(i) = KeyOf[c] /\ Unmoved /\ UNCHANGED <<inbox, got>>
               /\ \A j \in DOMAIN conn : conn'[j].hold = conn[j].hold /\ conn'[j].sendq = conn[j].sendq
               /\ \A j \in DOMAIN conn \ {i} : conn'[j].stream = conn[j].stream
               /\ \A n \in DOMAIN t :
                    \/ n \in DOMAIN s /\ t[n] = s[n]
                    \/ t[n] = [part |-> "header", frame |-> frame]
                    \/ n = Len(s) + 2 /\ t[n] = [part |-> "body", frame |-> frame]
<1> DEFINE i == client[c].cur
           s == conn[i].stream
           whole == s \o writeFrame(frame)
           half == Append(s, writeFrame(frame)[1])
<1>1. i \in DOMAIN conn /\ conn[i] \in Connections /\ conn[i].owner = c
  BY CurrentConn, Zenon DEF RegInv, Owned, Send, SendTimeout
<1>2. s \in Seq(Units)
  BY <1>1, Zenon DEF Connections
<1>4. \A n \in DOMAIN whole :
          \/ n \in DOMAIN s /\ whole[n] = s[n]
          \/ whole[n] = [part |-> "header", frame |-> frame]
          \/ n = Len(s) + 2 /\ whole[n] = [part |-> "body", frame |-> frame]
  BY <1>2, Written, Zenon
<1>5. \A n \in DOMAIN half :
          (n \in DOMAIN s /\ half[n] = s[n]) \/ half[n] = [part |-> "header", frame |-> frame]
  BY <1>2, Written, Zenon
<1> DEFINE r == [conn[i] EXCEPT !.stream = whole]
           q == [conn[i] EXCEPT !.stream = half]
<1>6. /\ conn' = [conn EXCEPT ![i] = r] \/ conn' = [conn EXCEPT ![i] = q]
      /\ UNCHANGED wg
  BY Zenon DEF Send, SendTimeout
<1> HIDE DEF whole, half
<1>7. /\ r.stream = whole /\ r.hold = conn[i].hold /\ r.owner = conn[i].owner /\ r.sendq = conn[i].sendq
      /\ q.stream = half /\ q.hold = conn[i].hold /\ q.owner = conn[i].owner /\ q.sendq = conn[i].sendq
  BY <1>1, Zenon DEF Connections
<1> HIDE DEF r, q
<1>8. /\ DOMAIN conn' = DOMAIN conn /\ \A j \in DOMAIN conn \ {i} : conn'[j] = conn[j]
      /\ conn'[i] = r \/ conn'[i] = q
  BY <1>1, <1>6, Zenon
<1>9. Unmoved
  BY <1>7, <1>8, ZenonT(30) DEF Unmoved
<1>10. \A n \in DOMAIN conn'[i].stream :
           \/ n \in DOMAIN s /\ conn'[i].stream[n] = s[n]
           \/ conn'[i].stream[n] = [part |-> "header", frame |-> frame]
           \/ n = Len(s) + 2 /\ conn'[i].stream[n] = [part |-> "body", frame |-> frame]
  BY <1>4, <1>5, <1>7, <1>8
<1>11. \A j \in DOMAIN conn : conn'[j].hold = conn[j].hold /\ conn'[j].sendq = conn[j].sendq
  BY <1>7, <1>8, Zenon
<1>12. ConnKey(i) = KeyOf[c]
  BY <1>1, Zenon DEF ConnKey
<1> QED
  BY <1>1, <1>6, <1>8, <1>9, <1>10, <1>11, <1>12, Zenon DEF wg

LEMMA SendPackets ==
    ASSUME PacketInv, NEW c \in Clients, NEW frame \in Frames, Send(c, frame) \/ SendTimeout(c, frame)
    PROVE  Sourced' /\ Once'
<1> DEFINE i == client[c].cur
           s == conn[i].stream
           t == conn'[i].stream
           spot == <<"stream", i, Len(s) + 2, frame.payload>>
<1>1. RegInv /\ Sourced /\ Once
  BY Zenon DEF PacketInv
<1>2. /\ i \in DOMAIN conn /\ ConnKey(i) = KeyOf[c] /\ Unmoved /\ UNCHANGED <<inbox, got>>
      /\ \A j \in DOMAIN conn : conn'[j].hold = conn[j].hold /\ conn'[j].sendq = conn[j].sendq
      /\ \A j \in DOMAIN conn \ {i} : conn'[j].stream = conn[j].stream
      /\ \A n \in DOMAIN t :
           \/ n \in DOMAIN s /\ t[n] = s[n]
           \/ t[n] = [part |-> "header", frame |-> frame]
           \/ n = Len(s) + 2 /\ t[n] = [part |-> "body", frame |-> frame]
  BY <1>1, SendParts, ZenonT(30)
<1>3. /\ sent' = sent \cup {[src |-> KeyOf[c], frame |-> frame]}
      /\ \A a \in sent : a.frame.payload # frame.payload
  BY Zenon DEF Send, SendTimeout, fresh
<1>12. StreamSent /\ HoldSent /\ QueueSent /\ sent \subseteq sent'
  BY <1>1, <1>3, Zenon DEF Sourced
<1> HIDE DEF i, s, t, spot
<1>4. StreamSent'
  <2>1. \A n \in DOMAIN t : [src |-> ConnKey(i), frame |-> t[n].frame] \in sent'
    <3> TAKE n \in DOMAIN t
    <3>1. CASE n \in DOMAIN s /\ t[n] = s[n]
      BY <1>2, <1>12, <3>1, Zenon DEF StreamSent, s
    <3>2. CASE t[n].frame = frame
      BY <1>2, <1>3, <3>2, Zenon
    <3> QED
      BY <1>2, <3>1, <3>2
  <2> QED
    BY <1>2, <1>12, <2>1, StreamOne, Zenon DEF t
<1>5. HoldSent'
  BY <1>2, <1>12, HoldSame, Zenon
<1>6. QueueSent'
  BY <1>2, <1>12, QueueSame, Zenon
<1>7. InboxSent' /\ GotSent'
  BY <1>1, <1>2, <1>3, Zenon DEF Sourced, InboxSent, GotSent, Was
<1>8. \A q \in Places' : q \in Places \/ q = spot
  <2> SUFFICES ASSUME NEW q \in Spots, At(q)' PROVE At(q) \/ q = spot
    BY Zenon DEF Places, Spots
  <2>1. CASE q[1] # "stream"
    BY <1>2, <2>1, Zenon DEF At, Unmoved
  <2>2. CASE q[1] = "stream" /\ q[2] # i
    BY <1>2, <2>2, Zenon DEF At, Unmoved
  <2>3. CASE q[1] = "stream" /\ q[2] = i
    <3>1. q[3] \in DOMAIN t /\ t[q[3]].part = "body" /\ t[q[3]].frame.payload = q[4]
      BY <2>3, Zenon DEF At, t
    <3>2. CASE q[3] \in DOMAIN s /\ t[q[3]] = s[q[3]]
      BY <1>2, <2>3, <3>1, <3>2, Zenon DEF At, s
    <3>3. CASE q[3] = Len(s) + 2 /\ t[q[3]] = [part |-> "body", frame |-> frame]
      <4>1. q[4] = frame.payload
        BY <3>1, <3>3
      <4>2. q = <<q[1], q[2], q[3], q[4]>>
        BY DEF Spots
      <4> QED
        BY <2>3, <3>3, <4>1, <4>2, Zenon DEF spot
    <3>4. CASE t[q[3]] = [part |-> "header", frame |-> frame]
      BY <3>1, <3>4
    <3> QED
      BY <1>2, <3>1, <3>2, <3>3, <3>4, ZenonT(30)
  <2> QED
    BY <2>1, <2>2, <2>3, Zenon
<1>9. \A q \in Places : q[4] # frame.payload
  BY <1>1, <1>3, PlacesSent, Zenon
<1>10. spot[4] = frame.payload
  BY Zenon DEF spot
<1>11. Once'
  BY <1>1, <1>8, <1>9, <1>10, Zenon DEF Once
<1> QED
  BY <1>4, <1>5, <1>6, <1>7, <1>11, Zenon DEF Sourced

(* The reader takes a whole frame, or garbage, off the stream.             *)
LEMMA ReadPackets == ASSUME PacketInv, NEW i \in DOMAIN conn, Read(i) PROVE Sourced' /\ Once'
<1> DEFINE s == conn[i].stream
           frame == readFrame(s)
           target == IF frame = Garbage THEN NoConn ELSE conns[frame.dst]
           rest == SubSeq(s, 3, Len(s))
           h == IF target = NoConn /\ frame # Garbage THEN <<>> ELSE <<frame, target>>
           r == [conn[i] EXCEPT !.stream = rest, !.hold = h]
           move == [o \in Places |->
                      IF o[1] = "stream" /\ o[2] = i
                      THEN IF o[3] = 2 THEN <<"hold", i, 0, o[4]>> ELSE <<"stream", i, o[3] - 2, o[4]>>
                      ELSE o]
<1> HIDE DEF move
<1>1. RegInv /\ Sourced /\ Once /\ TypeOK /\ RegistryExact
  BY Zenon DEF PacketInv, RegInv
<1>2. conn[i] \in Connections
  BY <1>1, ConnType, Zenon
<1>3. /\ conn' = [conn EXCEPT ![i] = r] /\ UNCHANGED wg /\ sent' = sent /\ conns' = conns
      /\ Len(s) >= 2 /\ conn[i].hold = <<>>
  BY Zenon DEF Read
<1>4. s \in Seq(Units)
  BY <1>2, Zenon DEF Connections
<1>5. /\ s[1] \in Units /\ s[2] \in Units /\ 1 \in DOMAIN s /\ 2 \in DOMAIN s
      /\ \A n \in DOMAIN rest : n \in Nat /\ n >= 1 /\ n + 2 \in DOMAIN s /\ rest[n] = s[n + 2]
  BY <1>3, <1>4, AfterTwo, Zenon
<1>6. \/ frame = Garbage
      \/ frame \in Frames /\ frame = s[2].frame /\ s[2].part = "body"
  BY <1>5, Zenon DEF readFrame, Units
<1> HIDE DEF rest, frame, h
<1>7. r.stream = rest /\ r.hold = h /\ r.owner = conn[i].owner /\ r.sendq = conn[i].sendq
  BY <1>2, Zenon DEF Connections
<1> HIDE DEF r
<1>8. /\ Unmoved /\ conn'[i].stream = rest /\ conn'[i].hold = h /\ conn'[i].sendq = conn[i].sendq
      /\ \A j \in DOMAIN conn \ {i} : conn'[j] = conn[j]
  BY <1>3, <1>7, Zenon DEF Unmoved
<1>15. StreamSent /\ HoldSent /\ QueueSent /\ sent \subseteq sent'
  BY <1>1, <1>3, Zenon DEF Sourced
<1>9. StreamSent'
  <2>1. \A n \in DOMAIN rest : [src |-> ConnKey(i), frame |-> rest[n].frame] \in sent
    BY <1>1, <1>5, Zenon DEF Sourced, StreamSent
  <2> QED
    BY <1>3, <1>8, <1>15, <2>1, StreamOne, Zenon
<1>10. HoldSent'
  <2>1. ASSUME h \notin {<<>>, <<Garbage, NoConn>>}
        PROVE  /\ [src |-> ConnKey(i), frame |-> h[1]] \in sent
               /\ h[2] \in DOMAIN conn /\ ConnKey(h[2]) = h[1].dst
    <3>1. frame # Garbage /\ target # NoConn /\ h[1] = frame /\ h[2] = target /\ target = conns[frame.dst]
      BY <2>1, Zenon DEF h
    <3>2. frame \in Frames /\ frame = s[2].frame
      BY <1>6, <3>1, Zenon
    <3>3. [src |-> ConnKey(i), frame |-> s[2].frame] \in sent
      BY <1>1, <1>5, Zenon DEF Sourced, StreamSent
    <3>4. frame.dst \in Keys
      BY <3>2, Zenon DEF Frames
    <3>5. target \in DOMAIN conn
      BY <1>1, <3>1, <3>4, LenProperties DEF TypeOK, NoConn
    <3>6. ConnKey(target) = frame.dst
      BY <1>1, <3>1, <3>4, Zenon DEF RegistryExact
    <3> QED
      BY <3>1, <3>2, <3>3, <3>5, <3>6, Zenon
  <2> QED
    BY <1>3, <1>8, <1>15, <2>1, HoldOne, Zenon
<1>11. QueueSent'
  <2>1. \A j \in DOMAIN conn : conn'[j].sendq = conn[j].sendq
    BY <1>8, Zenon
  <2> QED
    BY <1>8, <1>15, <2>1, QueueSame, Zenon
<1>12. InboxSent' /\ GotSent'
  BY <1>1, <1>3, Zenon DEF Sourced, InboxSent, GotSent, Was, wg
<1>13. \A q \in Places' : \E o \in Places : o[4] = q[4] /\ q = move[o]
  <2> SUFFICES ASSUME NEW q \in Spots, At(q)' PROVE \E o \in Places : o[4] = q[4] /\ q = move[o]
    BY Zenon DEF Places, Spots
  <2>1. q = <<q[1], q[2], q[3], q[4]>> /\ q[3] \in Nat /\ q[4] \in Payloads /\ i \in Nat
    BY <1>1, LenProperties DEF Spots, TypeOK
  <2>2. CASE q[1] = "stream" /\ q[2] = i
    <3> DEFINE o == <<"stream", i, q[3] + 2, q[4]>>
    <3>1. q[3] \in DOMAIN rest /\ rest[q[3]].part = "body" /\ rest[q[3]].frame.payload = q[4]
      BY <1>8, <2>2, Zenon DEF At
    <3>2. q[3] + 2 \in DOMAIN s /\ rest[q[3]] = s[q[3] + 2] /\ q[3] >= 1
      BY <1>5, <3>1, Zenon
    <3>3. o \in Spots
      BY <2>1 DEF Spots
    <3>4. o \in Places
      BY <3>1, <3>2, <3>3, Zenon DEF Places, At
    <3>5. o[3] # 2 /\ o[3] - 2 = q[3]
      BY <2>1, <3>2
    <3>6. move[o] = q
      BY <2>1, <2>2, <3>4, <3>5, Zenon DEF move
    <3> QED
      BY <3>4, <3>6, Zenon
  <2>3. CASE q[1] = "hold" /\ q[2] = i
    <3> DEFINE o == <<"stream", i, 2, q[4]>>
    <3>1. h # <<>> /\ h[1].payload = q[4] /\ q[3] = 0
      BY <1>8, <2>3, Zenon DEF At
    <3>2. h[1] = frame /\ frame.payload = q[4]
      BY <3>1, Zenon DEF h
    <3>3. frame = s[2].frame /\ s[2].part = "body"
      BY <1>6, <2>1, <3>2, RelayAssumption DEF Garbage, NoConn
    <3>4. o \in Spots
      BY <2>1, Zenon DEF Spots
    <3>5. o \in Places
      BY <1>5, <3>2, <3>3, <3>4, Zenon DEF Places, At
    <3>6. move[o] = q
      BY <2>1, <2>3, <3>1, <3>5, Zenon DEF move
    <3> QED
      BY <3>5, <3>6, Zenon
  <2>4. CASE ~(q[2] = i /\ q[1] \in {"stream", "hold"})
    <3>1. q \in Places
      BY <1>3, <1>8, <2>4, Zenon DEF At, Places, Unmoved, wg
    <3>2. move[q] = q
      BY <2>4, <3>1, Zenon DEF move
    <3> QED
      BY <3>1, <3>2, Zenon
  <2> QED
    BY <2>2, <2>3, <2>4, Zenon
<1>14. Once'
  BY <1>1, <1>13, Moves, Zenon
<1> QED
  BY <1>9, <1>10, <1>11, <1>12, <1>14, Zenon DEF Sourced

(* The frame in hand becomes a packet in the queue of a connection of its  *)
(* destination, or is dropped.                                             *)
LEMMA forwardPackets == ASSUME PacketInv, NEW i \in DOMAIN conn, forward(i) PROVE Sourced' /\ Once'
<1> DEFINE frame == conn[i].hold[1]
           target == conn[i].hold[2]
           packet == Recv(i, frame)
           move == [o \in Places |->
                      IF o[1] = "hold" /\ o[2] = i
                      THEN <<"queue", target, Len(conn[target].sendq) + 1, o[4]>> ELSE o]
<1> HIDE DEF move
<1>1. RegInv /\ Sourced /\ Once
  BY Zenon DEF PacketInv
<1>2. /\ UNCHANGED <<client, conns, sent, wg, faults>> /\ DOMAIN conn' = DOMAIN conn /\ conn[i].hold # <<>>
      /\ \A j \in DOMAIN conn :
           /\ conn'[j].owner = conn[j].owner /\ conn'[j].stream = conn[j].stream
           /\ conn'[j].hold = IF j = i THEN <<>> ELSE conn[j].hold
           /\ \/ conn'[j].sendq = conn[j].sendq
              \/ /\ j = target /\ conn[i].hold \notin {<<>>, <<Garbage, NoConn>>}
                 /\ conn'[j].sendq = Append(conn[j].sendq, packet)
  BY <1>1, forwardParts, Zenon
<1>3. Unmoved /\ sent' = sent /\ inbox' = inbox /\ got' = got
  BY <1>2, Zenon DEF Unmoved, wg
<1>4. ASSUME conn[i].hold \notin {<<>>, <<Garbage, NoConn>>}
      PROVE  /\ [src |-> ConnKey(i), frame |-> frame] \in sent /\ target \in DOMAIN conn
             /\ ConnKey(target) = frame.dst /\ frame \in Frames /\ packet \in Packets
             /\ packet.dst = ConnKey(target) /\ packet.payload = frame.payload /\ Was(packet)
             /\ conn[target].sendq \in Seq(Packets)
  <2>1. /\ [src |-> ConnKey(i), frame |-> frame] \in sent /\ target \in DOMAIN conn
        /\ ConnKey(target) = frame.dst
    BY <1>1, <1>4, Zenon DEF Sourced, HoldSent
  <2>2. conn[i] \in Connections /\ conn[target] \in Connections
    BY <1>1, <2>1, ConnType, Zenon
  <2>3. frame \in Frames
    BY <1>4, <2>2, Zenon DEF Connections, Holds
  <2>4. /\ packet = [src |-> ConnKey(i), dst |-> frame.dst, payload |-> frame.payload]
        /\ ConnKey(i) \in Keys
    BY <2>2, Zenon DEF Recv, ConnKey, Keys, Connections
  <2>5. packet \in Packets /\ packet.src = ConnKey(i) /\ packet.dst = frame.dst
        /\ packet.payload = frame.payload
    BY <2>3, <2>4 DEF Packets, Frames
  <2>6. frame = [dst |-> frame.dst, payload |-> frame.payload]
    BY <2>3, Zenon DEF Frames
  <2> HIDE DEF frame, packet
  <2>7. Was(packet)
    BY <2>1, <2>5, <2>6, Zenon DEF Was
  <2> QED
    BY <2>1, <2>2, <2>3, <2>5, <2>7, Zenon DEF Connections
<1>11. StreamSent /\ HoldSent /\ QueueSent /\ sent \subseteq sent'
  BY <1>1, <1>3, Zenon DEF Sourced
<1>5. StreamSent'
  BY <1>2, <1>3, <1>11, StreamSame, Zenon
<1>6. HoldSent'
  <2>1. \A j \in DOMAIN conn \ {i} : conn'[j].hold = conn[j].hold
    BY <1>2, Zenon
  <2>2. conn'[i].hold = <<>>
    BY <1>2, Zenon
  <2> QED
    BY <1>3, <1>11, <2>1, <2>2, HoldOne, Zenon
<1> HIDE DEF packet
<1>7. QueueSent'
  <2> SUFFICES ASSUME NEW j \in DOMAIN conn, NEW n \in DOMAIN conn'[j].sendq
               PROVE  conn'[j].sendq[n].dst = ConnKey(j) /\ Was(conn'[j].sendq[n])
    BY <1>3, <1>11, QueueAll, Zenon
  <2>1. CASE conn'[j].sendq = conn[j].sendq
    BY <1>1, <2>1, Zenon DEF Sourced, QueueSent
  <2>2. CASE /\ j = target /\ conn[i].hold \notin {<<>>, <<Garbage, NoConn>>}
             /\ conn'[j].sendq = Append(conn[j].sendq, packet)
    <3>1. \/ n \in DOMAIN conn[j].sendq /\ conn'[j].sendq[n] = conn[j].sendq[n]
          \/ conn'[j].sendq[n] = packet
      <4>1. conn[j].sendq \in Seq(Packets) /\ packet \in Packets
        BY <1>4, <2>2, Zenon
      <4> QED
        BY <2>2, <4>1, Added
    <3>2. CASE n \in DOMAIN conn[j].sendq /\ conn'[j].sendq[n] = conn[j].sendq[n]
      BY <1>1, <3>2, Zenon DEF Sourced, QueueSent
    <3>3. CASE conn'[j].sendq[n] = packet
      BY <1>4, <2>2, <3>3, Zenon
    <3> QED
      BY <3>1, <3>2, <3>3, Zenon
  <2> QED
    BY <1>2, <2>1, <2>2, Zenon
<1>8. InboxSent' /\ GotSent'
  BY <1>1, <1>3, Zenon DEF Sourced, InboxSent, GotSent, Was
<1>9. \A q \in Places' : \E o \in Places : o[4] = q[4] /\ q = move[o]
  <2> SUFFICES ASSUME NEW q \in Spots, At(q)' PROVE \E o \in Places : o[4] = q[4] /\ q = move[o]
    BY Zenon DEF Places, Spots
  <2>1. q = <<q[1], q[2], q[3], q[4]>> /\ q[3] \in Nat /\ q[4] \in Payloads /\ i \in Nat
    BY <1>1, LenProperties DEF Spots, RegInv, TypeOK
  <2>2. CASE At(q) /\ ~(q[1] = "hold" /\ q[2] = i)
    <3>1. q \in Places
      BY <2>2, Zenon DEF Places
    <3>2. move[q] = q
      BY <2>2, <3>1, Zenon DEF move
    <3> QED
      BY <3>1, <3>2, Zenon
  <2>3. CASE q[1] \in {"inbox", "got"}
    <3>1. At(q)
      BY <1>3, <2>3, Zenon DEF At
    <3> QED
      BY <2>2, <2>3, <3>1, Zenon
  <2>4. CASE q[1] = "stream"
    <3>1. At(q)
      BY <1>2, <2>4, Zenon DEF At
    <3> QED
      BY <2>2, <2>4, <3>1, Zenon
  <2>5. CASE q[1] = "hold"
    <3>1. q[2] \in DOMAIN conn /\ conn'[q[2]].hold # <<>>
      BY <1>2, <2>5, Zenon DEF At
    <3>2. q[2] # i
      BY <1>2, <3>1, Zenon
    <3>3. At(q)
      BY <1>2, <2>5, <3>1, <3>2, Zenon DEF At
    <3> QED
      BY <2>2, <3>2, <3>3, Zenon
  <2>6. CASE q[1] = "queue"
    <3> DEFINE j == q[2]
               o == <<"hold", i, 0, q[4]>>
    <3>1. j \in DOMAIN conn /\ q[3] \in DOMAIN conn'[j].sendq /\ conn'[j].sendq[q[3]].payload = q[4]
      BY <1>2, <2>6, Zenon DEF At
    <3>2. CASE q[3] \in DOMAIN conn[j].sendq /\ conn'[j].sendq[q[3]] = conn[j].sendq[q[3]]
      <4>1. At(q)
        BY <2>6, <3>1, <3>2, Zenon DEF At
      <4> QED
        BY <2>2, <2>6, <4>1, Zenon
    <3>3. CASE /\ j = target /\ conn[i].hold \notin {<<>>, <<Garbage, NoConn>>}
               /\ q[3] = Len(conn[target].sendq) + 1 /\ conn'[j].sendq[q[3]] = packet
      <4>1. frame.payload = q[4]
        BY <1>4, <3>1, <3>3, Zenon
      <4>2. o \in Spots
        BY <2>1, Zenon DEF Spots
      <4>3. o \in Places
        BY <1>2, <4>1, <4>2, Zenon DEF Places, At
      <4>4. move[o] = <<"queue", target, Len(conn[target].sendq) + 1, q[4]>>
        BY <4>3, Zenon DEF move
      <4>5. q = <<"queue", target, Len(conn[target].sendq) + 1, q[4]>>
        BY <2>1, <2>6, <3>3, Zenon
      <4> HIDE DEF target
      <4> QED
        BY <4>3, <4>4, <4>5, Zenon
    <3>4. CASE conn'[j].sendq = conn[j].sendq
      BY <3>1, <3>2, <3>4, Zenon
    <3>5. CASE /\ j = target /\ conn[i].hold \notin {<<>>, <<Garbage, NoConn>>}
               /\ conn'[j].sendq = Append(conn[j].sendq, packet)
      <4>1. \/ q[3] \in DOMAIN conn[j].sendq /\ conn'[j].sendq[q[3]] = conn[j].sendq[q[3]]
            \/ q[3] = Len(conn[j].sendq) + 1 /\ conn'[j].sendq[q[3]] = packet
        <5>1. conn[j].sendq \in Seq(Packets) /\ packet \in Packets
          BY <1>4, <3>5, Zenon
        <5> HIDE DEF j
        <5> QED
          BY <3>1, <3>5, <5>1, Added
      <4> QED
        BY <3>2, <3>3, <3>5, <4>1, ZenonT(30)
    <3> QED
      BY <1>2, <3>1, <3>4, <3>5, Zenon
  <2> QED
    BY <2>3, <2>4, <2>5, <2>6, Zenon DEF Spots
<1>10. Once'
  BY <1>1, <1>9, Moves, Zenon
<1> QED
  BY <1>5, <1>6, <1>7, <1>8, <1>10, Zenon DEF Sourced

(* The client takes the head of its queue; the inbox takes it or drops it. *)
LEMMA ReceivePackets == ASSUME PacketInv, NEW c \in Clients, Receive(c) PROVE Sourced' /\ Once'
<1> DEFINE i == client[c].cur
           s == conn[i].sendq
           r == [conn[i] EXCEPT !.sendq = Tail(s)]
           move == [o \in Places |->
                      IF o[1] = "queue" /\ o[2] = i
                      THEN IF o[3] = 1 THEN <<"inbox", c, Len(inbox[c]) + 1, o[4]>>
                                       ELSE <<"queue", i, o[3] - 1, o[4]>>
                      ELSE o]
<1> HIDE DEF move
<1>1. RegInv /\ Sourced /\ Once
  BY Zenon DEF PacketInv
<1>2. i \in DOMAIN conn /\ conn[i] \in Connections /\ conn[i].owner = c /\ ConnKey(i) = KeyOf[c]
  BY <1>1, CurrentConn, Zenon DEF RegInv, Owned, Receive, ConnKey
<1>3. /\ conn' = [conn EXCEPT ![i] = r] /\ s # <<>> /\ DeliverRelayPacket(c, Head(s))
      /\ sent' = sent /\ got' = got
  BY Zenon DEF Receive
<1>4. /\ s \in Seq(Packets) /\ Head(s) = s[1] /\ s[1] \in Packets /\ 1 \in DOMAIN s
      /\ \A n \in DOMAIN Tail(s) : n \in Nat /\ n >= 1 /\ n + 1 \in DOMAIN s /\ Tail(s)[n] = s[n + 1]
  <2>1. s \in Seq(Packets)
    BY <1>2, Zenon DEF Connections
  <2>2. /\ Head(s) = s[1] /\ s[1] \in Packets /\ DOMAIN s = 1 .. Len(s) /\ Len(s) >= 1
        /\ Len(s) \in Nat /\ DOMAIN Tail(s) = 1 .. Len(s) - 1
        /\ \A n \in DOMAIN Tail(s) : n + 1 \in DOMAIN s /\ Tail(s)[n] = s[n + 1]
    BY <1>3, <2>1, AfterOne, LenProperties, Zenon
  <2> HIDE DEF s
  <2> QED
    BY <2>1, <2>2
<1>5. /\ inbox \in [Clients -> Seq(Packets)] /\ inbox[c] \in Seq(Packets)
      /\ \A d \in Clients \ {c} : inbox'[d] = inbox[d]
      /\ inbox'[c] = inbox[c] \/ inbox'[c] = Append(inbox[c], s[1])
  <2>1. inbox \in [Clients -> Seq(Packets)] /\ inbox[c] \in Seq(Packets)
    BY <1>1, Zenon DEF RegInv, TypeOK
  <2> DEFINE more == Append(inbox[c], s[1])
  <2>2. inbox' = [inbox EXCEPT ![c] = more] \/ inbox' = inbox
    BY <1>3, <1>4, Zenon DEF DeliverRelayPacket
  <2> HIDE DEF more
  <2>3. /\ \A d \in Clients \ {c} : inbox'[d] = inbox[d]
        /\ inbox'[c] = inbox[c] \/ inbox'[c] = more
    BY <2>1, <2>2, Zenon
  <2> QED
    BY <2>1, <2>3, Zenon DEF more
<1>6. \A n \in DOMAIN inbox'[c] : \/ n \in DOMAIN inbox[c] /\ inbox'[c][n] = inbox[c][n]
                                  \/ n = Len(inbox[c]) + 1 /\ inbox'[c][n] = s[1]
  <2>1. CASE inbox'[c] = inbox[c]
    BY <2>1, Zenon
  <2>2. CASE inbox'[c] = Append(inbox[c], s[1])
    <3> HIDE DEF s
    <3> QED
      BY <1>4, <1>5, <2>2, Added
  <2> QED
    BY <1>5, <2>1, <2>2, Zenon
<1>7. r.sendq = Tail(s) /\ r.owner = conn[i].owner /\ r.stream = conn[i].stream /\ r.hold = conn[i].hold
  BY <1>2, Zenon DEF Connections
<1> HIDE DEF r
<1>8. /\ Unmoved /\ conn'[i].sendq = Tail(s)
      /\ conn'[i].stream = conn[i].stream /\ conn'[i].hold = conn[i].hold
      /\ \A j \in DOMAIN conn \ {i} : conn'[j] = conn[j]
  BY <1>2, <1>3, <1>7, Zenon DEF Unmoved
<1>9. \A n \in DOMAIN s : s[n].dst = ConnKey(i) /\ Was(s[n])
  BY <1>1, <1>2, Zenon DEF Sourced, QueueSent
<1> HIDE DEF s
<1>17. StreamSent /\ HoldSent /\ QueueSent /\ sent \subseteq sent'
  BY <1>1, <1>3, Zenon DEF Sourced
<1>18. \A j \in DOMAIN conn : conn'[j].stream = conn[j].stream /\ conn'[j].hold = conn[j].hold
  BY <1>8, Zenon
<1>10. StreamSent'
  BY <1>8, <1>17, <1>18, StreamSame, Zenon
<1>11. HoldSent'
  BY <1>8, <1>17, <1>18, HoldSame, Zenon
<1>12. QueueSent'
  <2> SUFFICES ASSUME NEW j \in DOMAIN conn, NEW n \in DOMAIN conn'[j].sendq
               PROVE  conn'[j].sendq[n].dst = ConnKey(j) /\ Was(conn'[j].sendq[n])
    BY <1>8, <1>17, QueueAll, Zenon
  <2>1. CASE j = i
    BY <1>4, <1>8, <1>9, <2>1
  <2>2. CASE j # i
    BY <1>8, <1>17, <2>2, Zenon DEF QueueSent
  <2> QED
    BY <2>1, <2>2, Zenon
<1>13. InboxSent'
  <2> SUFFICES ASSUME NEW d \in Clients, NEW n \in DOMAIN inbox'[d]
               PROVE  inbox'[d][n].dst = KeyOf[d] /\ Was(inbox[d][n])'
    BY Zenon DEF InboxSent
  <2>1. CASE n \in DOMAIN inbox[d] /\ inbox'[d][n] = inbox[d][n]
    BY <1>1, <1>3, <2>1, Zenon DEF Sourced, InboxSent, Was
  <2>2. CASE d = c /\ inbox'[d][n] = s[1]
    BY <1>2, <1>3, <1>4, <1>9, <2>2, Zenon DEF Was
  <2> QED
    BY <1>5, <1>6, <2>1, <2>2, Zenon
<1>14. GotSent'
  BY <1>1, <1>3, Zenon DEF Sourced, GotSent, Was
<1>15. \A q \in Places' : \E o \in Places : o[4] = q[4] /\ q = move[o]
  <2> SUFFICES ASSUME NEW q \in Spots, At(q)' PROVE \E o \in Places : o[4] = q[4] /\ q = move[o]
    BY Zenon DEF Places, Spots
  <2>1. q = <<q[1], q[2], q[3], q[4]>> /\ q[3] \in Nat /\ q[4] \in Payloads /\ i \in Nat
    BY <1>1, <1>2, LenProperties DEF Spots, RegInv, TypeOK
  <2>2. CASE At(q) /\ ~(q[1] = "queue" /\ q[2] = i)
    <3>1. q \in Places
      BY <2>2, Zenon DEF Places
    <3>2. move[q] = q
      BY <2>2, <3>1, Zenon DEF move
    <3> QED
      BY <3>1, <3>2, Zenon
  <2>3. CASE q[1] = "queue" /\ q[2] = i
    <3> DEFINE o == <<"queue", i, q[3] + 1, q[4]>>
    <3>1. q[3] \in DOMAIN Tail(s) /\ Tail(s)[q[3]].payload = q[4]
      BY <1>8, <2>3, Zenon DEF At
    <3>2. q[3] + 1 \in DOMAIN s /\ s[q[3] + 1].payload = q[4] /\ q[3] >= 1
      BY <1>4, <3>1, Zenon
    <3>3. o \in Spots
      BY <2>1 DEF Spots
    <3>4. o \in Places
      BY <1>2, <3>2, <3>3, Zenon DEF Places, At, s
    <3>5. o[3] # 1 /\ o[3] - 1 = q[3]
      BY <2>1, <3>2
    <3>6. move[o] = q
      BY <2>1, <2>3, <3>4, <3>5, Zenon DEF move
    <3> QED
      BY <3>4, <3>6, Zenon
  <2>4. CASE q[1] = "inbox" /\ q[2] = c /\ q[3] = Len(inbox[c]) + 1 /\ inbox'[c][q[3]] = s[1]
    <3> DEFINE o == <<"queue", i, 1, q[4]>>
    <3>1. s[1].payload = q[4]
      BY <2>4 DEF At
    <3>2. o \in Spots
      BY <2>1, Zenon DEF Spots
    <3>3. o \in Places
      BY <1>2, <1>4, <3>1, <3>2, Zenon DEF Places, At, s
    <3>4. move[o] = q
      BY <2>1, <2>4, <3>3, Zenon DEF move
    <3> QED
      BY <3>3, <3>4, Zenon
  <2>5. CASE q[1] = "inbox" /\ ~(q[2] = c /\ q[3] = Len(inbox[c]) + 1 /\ inbox'[c][q[3]] = s[1])
    <3>1. q[2] \in Clients /\ q[3] \in DOMAIN inbox'[q[2]] /\ inbox'[q[2]][q[3]].payload = q[4]
      BY <2>5, Zenon DEF At
    <3>2. q[3] \in DOMAIN inbox[q[2]] /\ inbox'[q[2]][q[3]] = inbox[q[2]][q[3]]
      BY <1>5, <1>6, <2>5, <3>1, Zenon
    <3>3. At(q)
      BY <2>5, <3>1, <3>2, Zenon DEF At
    <3> QED
      BY <2>2, <2>5, <3>3, Zenon
  <2>6. CASE q[1] \in {"stream", "hold", "got"} \/ (q[1] = "queue" /\ q[2] # i)
    <3>1. At(q)
      BY <1>3, <1>8, <2>6, ZenonT(30) DEF At, Unmoved
    <3> QED
      BY <2>2, <2>6, <3>1, Zenon
  <2> QED
    BY <2>3, <2>4, <2>5, <2>6, Zenon DEF Spots
<1>16. Once'
  BY <1>1, <1>15, Moves, Zenon
<1> QED
  BY <1>10, <1>11, <1>12, <1>13, <1>14, <1>16, Zenon DEF Sourced

(* WireGuard takes the head of the inbox.                                  *)
LEMMA receiveRelayPackets == ASSUME PacketInv, NEW c \in Clients, receiveRelay(c) PROVE Sourced' /\ Once'
<1> DEFINE s == inbox[c]
           move == [o \in Places |->
                      IF o[1] = "inbox" /\ o[2] = c
                      THEN IF o[3] = 1 THEN <<"got", c, Len(got[c]) + 1, o[4]>>
                                       ELSE <<"inbox", c, o[3] - 1, o[4]>>
                      ELSE o]
<1> HIDE DEF move
<1>1. RegInv /\ Sourced /\ Once
  BY Zenon DEF PacketInv
<1>2. /\ inbox \in [Clients -> Seq(Packets)] /\ got \in [Clients -> Seq(Packets)]
      /\ s \in Seq(Packets) /\ got[c] \in Seq(Packets)
  BY <1>1, Zenon DEF RegInv, TypeOK
<1>3. /\ s # <<>> /\ inbox' = [inbox EXCEPT ![c] = Tail(s)] /\ got' = [got EXCEPT ![c] = Append(@, Head(s))]
      /\ conn' = conn /\ sent' = sent
  BY Zenon DEF receiveRelay
<1>4. /\ Head(s) = s[1] /\ s[1] \in Packets /\ 1 \in DOMAIN s
      /\ \A n \in DOMAIN Tail(s) : n \in Nat /\ n >= 1 /\ n + 1 \in DOMAIN s /\ Tail(s)[n] = s[n + 1]
  <2>1. /\ Head(s) = s[1] /\ s[1] \in Packets /\ DOMAIN s = 1 .. Len(s) /\ Len(s) >= 1
        /\ Len(s) \in Nat /\ DOMAIN Tail(s) = 1 .. Len(s) - 1
        /\ \A n \in DOMAIN Tail(s) : n + 1 \in DOMAIN s /\ Tail(s)[n] = s[n + 1]
    BY <1>2, <1>3, AfterOne, LenProperties, Zenon
  <2> HIDE DEF s
  <2> QED
    BY <2>1
<1>5. /\ inbox'[c] = Tail(s) /\ \A d \in Clients \ {c} : inbox'[d] = inbox[d] /\ got'[d] = got[d]
      /\ got'[c] = Append(got[c], s[1])
  BY <1>2, <1>3, <1>4, Zenon
<1>6. \A n \in DOMAIN got'[c] : \/ n \in DOMAIN got[c] /\ got'[c][n] = got[c][n]
                                \/ n = Len(got[c]) + 1 /\ got'[c][n] = s[1]
  BY <1>2, <1>4, <1>5, Added
<1>7. \A n \in DOMAIN s : s[n].dst = KeyOf[c] /\ Was(s[n])
  BY <1>1, Zenon DEF Sourced, InboxSent
<1>13. sent' = sent
  BY <1>3, Zenon
<1> HIDE DEF s
<1>8. StreamSent' /\ HoldSent' /\ QueueSent'
  BY <1>1, <1>3, Zenon DEF Sourced, StreamSent, HoldSent, QueueSent, Was, ConnKey
<1>9. InboxSent'
  <2> SUFFICES ASSUME NEW d \in Clients, NEW n \in DOMAIN inbox'[d]
               PROVE  inbox'[d][n].dst = KeyOf[d] /\ Was(inbox[d][n])'
    BY Zenon DEF InboxSent
  <2>1. CASE d # c
    <3>1. inbox'[d] = inbox[d]
      BY <1>5, <2>1, Zenon
    <3>2. inbox[d][n].dst = KeyOf[d] /\ Was(inbox[d][n])
      BY <1>1, <3>1, Zenon DEF Sourced, InboxSent
    <3> QED
      BY <1>13, <3>1, <3>2, Zenon DEF Was
  <2>2. CASE d = c
    <3>1. n + 1 \in DOMAIN s /\ inbox'[d][n] = s[n + 1]
      BY <1>4, <1>5, <2>2, Zenon
    <3> QED
      BY <1>3, <1>7, <2>2, <3>1 DEF Was
  <2> QED
    BY <2>1, <2>2, Zenon
<1>10. GotSent'
  <2> SUFFICES ASSUME NEW d \in Clients, NEW n \in DOMAIN got'[d]
               PROVE  got'[d][n].dst = KeyOf[d] /\ Was(got[d][n])'
    BY Zenon DEF GotSent
  <2>1. CASE n \in DOMAIN got[d] /\ got'[d][n] = got[d][n]
    <3>1. got[d][n].dst = KeyOf[d] /\ Was(got[d][n])
      BY <1>1, <2>1, Zenon DEF Sourced, GotSent
    <3> QED
      BY <1>13, <2>1, <3>1, Zenon DEF Was
  <2>2. CASE d = c /\ got'[d][n] = s[1]
    BY <1>4, <1>7, <1>13, <2>2, Zenon DEF Was
  <2> QED
    BY <1>5, <1>6, <2>1, <2>2, Zenon
<1>11. \A q \in Places' : \E o \in Places : o[4] = q[4] /\ q = move[o]
  <2> SUFFICES ASSUME NEW q \in Spots, At(q)' PROVE \E o \in Places : o[4] = q[4] /\ q = move[o]
    BY Zenon DEF Places, Spots
  <2>1. q = <<q[1], q[2], q[3], q[4]>> /\ q[3] \in Nat /\ q[4] \in Payloads
    BY DEF Spots
  <2>2. CASE At(q) /\ ~(q[1] = "inbox" /\ q[2] = c)
    <3>1. q \in Places
      BY <2>2, Zenon DEF Places
    <3>2. move[q] = q
      BY <2>2, <3>1, Zenon DEF move
    <3> QED
      BY <3>1, <3>2, Zenon
  <2>3. CASE q[1] = "inbox" /\ q[2] = c
    <3> DEFINE o == <<"inbox", c, q[3] + 1, q[4]>>
    <3>1. q[3] \in DOMAIN Tail(s) /\ Tail(s)[q[3]].payload = q[4]
      BY <1>5, <2>3, Zenon DEF At
    <3>2. q[3] + 1 \in DOMAIN s /\ s[q[3] + 1].payload = q[4] /\ q[3] >= 1
      BY <1>4, <3>1, Zenon
    <3>3. o \in Spots
      BY <2>1 DEF Spots
    <3>4. o \in Places
      BY <3>2, <3>3, Zenon DEF Places, At, s
    <3>5. o[3] # 1 /\ o[3] - 1 = q[3]
      BY <2>1, <3>2
    <3>6. move[o] = q
      BY <2>1, <2>3, <3>4, <3>5, Zenon DEF move
    <3> QED
      BY <3>4, <3>6, Zenon
  <2>4. CASE q[1] = "got" /\ q[2] = c /\ q[3] = Len(got[c]) + 1 /\ got'[c][q[3]] = s[1]
    <3> DEFINE o == <<"inbox", c, 1, q[4]>>
    <3>1. s[1].payload = q[4]
      BY <2>4, Zenon DEF At
    <3>2. o \in Spots
      BY <2>1, Zenon DEF Spots
    <3>3. o \in Places
      BY <1>4, <3>1, <3>2, Zenon DEF Places, At, s
    <3>4. move[o] = q
      BY <2>1, <2>4, <3>3, Zenon DEF move
    <3> QED
      BY <3>3, <3>4, Zenon
  <2>5. CASE q[1] = "got" /\ ~(q[2] = c /\ q[3] = Len(got[c]) + 1 /\ got'[c][q[3]] = s[1])
    <3>1. q[2] \in Clients /\ q[3] \in DOMAIN got'[q[2]] /\ got'[q[2]][q[3]].payload = q[4]
      BY <2>5, Zenon DEF At
    <3>2. q[3] \in DOMAIN got[q[2]] /\ got'[q[2]][q[3]] = got[q[2]][q[3]]
      BY <1>5, <1>6, <2>5, <3>1, Zenon
    <3>3. At(q)
      BY <2>5, <3>1, <3>2, Zenon DEF At
    <3> QED
      BY <2>2, <2>5, <3>3, Zenon
  <2>6. CASE q[1] \in {"stream", "hold", "queue"} \/ (q[1] = "inbox" /\ q[2] # c)
    <3>1. At(q)
      BY <1>3, <1>5, <2>6, Zenon DEF At
    <3> QED
      BY <2>2, <2>6, <3>1, Zenon
  <2> QED
    BY <2>3, <2>4, <2>5, <2>6, Zenon DEF Spots
<1>12. Once'
  BY <1>1, <1>11, Moves, Zenon
<1> QED
  BY <1>8, <1>9, <1>10, <1>12, Zenon DEF Sourced

-----------------------------------------------------------------------------
LEMMA PacketInit == Init => PacketInv
<1> SUFFICES ASSUME Init PROVE PacketInv
  BY Zenon
<1>1. /\ DOMAIN conn = {} /\ \A c \in Clients : DOMAIN inbox[c] = {} /\ DOMAIN got[c] = {}
  BY DEF Init
<1>2. Sourced
  BY <1>1, Zenon DEF Sourced, StreamSent, HoldSent, QueueSent, InboxSent, GotSent
<1>3. Places = {}
  BY <1>1, Zenon DEF Places, At
<1> QED
  BY <1>2, <1>3, RegInit, Zenon DEF PacketInv, Once

LEMMA PacketNext == PacketInv /\ [Next]_vars => PacketInv'
<1> SUFFICES ASSUME PacketInv, [Next]_vars PROVE PacketInv'
  BY Zenon
<1>1. RegInv /\ RegInv' /\ Sourced /\ Once
  BY RegNext, Zenon DEF PacketInv
<1>2. ASSUME NEW c \in Clients, ClientStep(c) \/ Close(c) \/ receiveRelay(c) PROVE Sourced' /\ Once'
  BY <1>1, <1>2, ClientShrinks, ShrinkStep, ReceivePackets, receiveRelayPackets, Zenon DEF ClientStep
<1>3. ASSUME NEW c \in Clients, NEW frame \in Frames, Send(c, frame) \/ SendTimeout(c, frame)
      PROVE  Sourced' /\ Once'
  BY <1>3, SendPackets, Zenon
<1>4. ASSUME NEW i \in DOMAIN conn, ServerStep(i) \/ NetworkFault(i) PROVE Sourced' /\ Once'
  BY <1>1, <1>4, ServerShrinks, ShrinkStep, ReadPackets, forwardPackets, Zenon DEF ServerStep
<1>5. ASSUME UNCHANGED vars PROVE Sourced' /\ Once'
  <2>1. Shrinks
    BY <1>5, Zenon DEF Shrinks, vars, wg
  <2> QED
    BY <1>1, <2>1, ShrinkStep, Zenon
<1> QED
  BY <1>1, <1>2, <1>3, <1>4, <1>5, Zenon DEF Next, PacketInv

(* What a client delivers was sent to it by the source it names, and       *)
(* nothing is delivered twice, through any number of reconnects.           *)
THEOREM EachDeliveredOnce == Spec => []DeliveredOnce
<1>1. PacketInv => DeliveredOnce
  <2> SUFFICES ASSUME PacketInv, NEW c \in Clients
               PROVE  /\ \A n \in DOMAIN got[c] :
                           /\ got[c][n].dst = KeyOf[c]
                           /\ [src |-> got[c][n].src,
                               frame |-> [dst |-> KeyOf[c], payload |-> got[c][n].payload]] \in sent
                      /\ \A m, n \in DOMAIN got[c] : m # n => got[c][m].payload # got[c][n].payload
    BY Zenon DEF DeliveredOnce
  <2>1. \A n \in DOMAIN got[c] : got[c][n].dst = KeyOf[c] /\ Was(got[c][n])
    BY Zenon DEF PacketInv, Sourced, GotSent
  <2>2. got[c] \in Seq(Packets)
    BY Zenon DEF PacketInv, RegInv, TypeOK
  <2>3. \A n \in DOMAIN got[c] : n \in Nat /\ got[c][n] \in Packets
    BY <2>2, LenProperties, ElementOfSeq
  <2>4. \A n \in DOMAIN got[c] : <<"got", c, n, got[c][n].payload>> \in Places
    <3> TAKE n \in DOMAIN got[c]
    <3>1. <<"got", c, n, got[c][n].payload>> \in Spots
      BY <2>3, Zenon DEF Spots, Packets
    <3> QED
      BY <3>1, Zenon DEF Places, At
  <2>5. \A m, n \in DOMAIN got[c] : got[c][m].payload = got[c][n].payload => m = n
    BY <2>4, Zenon DEF PacketInv, Once
  <2> QED
    BY <2>1, <2>5, Zenon DEF Was
<1>2. Spec => []PacketInv
  BY PacketInit, PacketNext, PTL DEF Spec
<1> QED
  BY <1>1, <1>2, PTL
=============================================================================
