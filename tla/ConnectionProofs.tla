-------------------------- MODULE ConnectionProofs --------------------------
(***************************************************************************)
(* For any boards, ports, line capacity and number of handshakes: the type *)
(* invariant of Connection, that connect() and accept() settle the socket, *)
(* and that no handshake packet is built from an uninitialised member.     *)
(*                                                                         *)
(* The three hold together.  An ACK is well typed only if the              *)
(* remote_sequence it carries has been written, which follows from the     *)
(* state of the socket that sends it, which follows from the call it is    *)
(* in; and the port a server writes down comes out of a SYN, so what SYNs  *)
(* carry is part of the invariant.                                         *)
(***************************************************************************)
EXTENDS Connection, TLAPS

(* What a packet on a line satisfies beyond its type. *)
GoodPacket ==
    { p \in Packet : /\ p.type = "SYN" => p.arg \in Port
                     /\ p.type # "CLOSE" => p.port # Undef }

HasPeer(s) == s.remote_port # Undef /\ s.remote_sequence # Undef

(* What the socket s of board n satisfies while n is in the call c. *)
GoodServer(s, c) ==
    /\ c \in {"none", "accept"}
    /\ s.state # "SYN_SENT"
    /\ c = "none" => s.state # "PENDING"
    /\ c = "accept" => s.state \in {"PENDING", "OPEN", "CLOSED"}
    /\ s.state \in {"SYN_RECVED", "PENDING", "OPEN"} => HasPeer(s)

GoodClient(s, c) ==
    /\ c \in {"none", "connect"}
    /\ s.state \notin {"LISTENING", "PENDING"}
    /\ c = "none" => s.state \in {"CLOSED", "OPEN"}
    /\ s.state = "SYN_SENT" => s.remote_port # Undef
    /\ s.state \in {"SYN_RECVED", "OPEN"} => HasPeer(s)

GoodSocket(n, s, c) ==
    /\ s \in Socket
    /\ n \in Servers => GoodServer(s, c)
    /\ n \notin Servers => GoodClient(s, c)

GoodLines(lines) ==
    /\ lines \in [Route -> Seq(GoodPacket)]
    /\ \A r \in Route : Len(lines[r]) <= LineCap

IInv ==
    /\ sock \in [Node -> Socket]
    /\ call \in [Node -> {"none", "accept", "connect"}]
    /\ \A n \in Node : GoodSocket(n, sock[n], call[n])
    /\ GoodLines(net)

-----------------------------------------------------------------------------
(* The lines stay good when a good packet enters one and when the oldest
   packet of one leaves.                                                    *)
LEMMA TransmitGood ==
    ASSUME NEW lines, GoodLines(lines), NEW p \in GoodPacket
    PROVE  GoodLines(Transmit(lines, p))
  <1> DEFINE new == Transmit(lines, p)
  <1>1. ASSUME NEW r \in Route
        PROVE  new[r] \in Seq(GoodPacket) /\ Len(new[r]) <= LineCap
    <2>1. new[r] = IF r = <<p.src, p.dst>> /\ Len(lines[r]) < LineCap
                   THEN Append(lines[r], p) ELSE lines[r]
      BY <1>1 DEF Transmit
    <2>2. lines[r] \in Seq(GoodPacket) /\ Len(lines[r]) <= LineCap
      BY <1>1 DEF GoodLines
    <2> QED
      BY <2>1, <2>2, LineCapAssumption
  <1>2. new = [r \in Route |-> new[r]]
    BY DEF Transmit
  <1> QED
    BY <1>1, <1>2 DEF GoodLines

LEMMA ConsumeGood ==
    ASSUME NEW lines, GoodLines(lines), NEW r \in Route, lines[r] # <<>>
    PROVE  /\ GoodLines(Consume(lines, r))
           /\ Head(lines[r]) \in GoodPacket
  <1>1. lines[r] \in Seq(GoodPacket) /\ Len(lines[r]) <= LineCap
    BY DEF GoodLines
  <1>2. /\ Head(lines[r]) \in GoodPacket
        /\ Tail(lines[r]) \in Seq(GoodPacket)
        /\ Len(Tail(lines[r])) <= LineCap
    BY <1>1, LineCapAssumption
  <1> QED
    BY <1>1, <1>2 DEF GoodLines, Consume

(* A sequence counter that is incremented stays one. *)
LEMMA SeqStep ==
    ASSUME NEW k \in SeqNum
    PROVE  (k + 1) % SeqMod \in SeqNum
  BY SocketAssumption DEF SeqNum

LEMMA PortFacts == \A n \in Node : PortOf[n] \in Nat /\ PortOf[n] \in Port /\ PortOf[n] # Undef
  BY SocketAssumption DEF Port

-----------------------------------------------------------------------------
(* The packets a good socket builds are good. *)
LEMMA CloseGood ==
    ASSUME NEW n \in Node, NEW s \in Socket
    PROVE  ClosePacket(n, s) \in GoodPacket
  BY DEF ClosePacket, ToRemote, GoodPacket, Packet, MessageType, Socket

LEMMA SynGood ==
    ASSUME NEW n \in Node, NEW s \in Socket, s.remote_port # Undef
    PROVE  SynPacket(n, s) \in GoodPacket
  BY PortFacts DEF SynPacket, ToRemote, GoodPacket, Packet, MessageType, Socket

LEMMA AckGood ==
    ASSUME NEW n \in Node, NEW s \in Socket, HasPeer(s)
    PROVE  AckPacket(n, s) \in GoodPacket
  BY DEF AckPacket, ToRemote, GoodPacket, Packet, MessageType, Socket, HasPeer

(* Hanging up leaves the lines good and the socket closed. *)
LEMMA HangUpGood ==
    ASSUME NEW lines, GoodLines(lines), NEW n \in Node, NEW s \in Socket
    PROVE  /\ GoodLines(LinesAfterDisconnect(lines, n, s))
           /\ GoodSocket(n, Disconnected(s), "none")
  <1>1. GoodLines(LinesAfterDisconnect(lines, n, s))
    BY CloseGood, TransmitGood DEF LinesAfterDisconnect
  <1>2. GoodSocket(n, Disconnected(s), "none")
    BY DEF GoodSocket, GoodServer, GoodClient, Disconnected, Socket, ConnectionState
  <1> QED
    BY <1>1, <1>2

-----------------------------------------------------------------------------
(* The handlers keep a socket good, whatever good packet they are given.  The
   port test of the interface is not needed for that.                       *)
LEMMA RingTyped ==
    ASSUME NEW ring \in Seq(Nat), NEW frame \in Nat
    PROVE  RingPut(ring, frame) \in Seq(Nat)
  <1>1. CASE Len(ring) < RingCap
    BY <1>1 DEF RingPut
  <1>2. CASE Len(ring) >= RingCap
    <2>1. Tail(ring) \in Seq(Nat)
      BY <1>2, SocketAssumption
    <2> QED
      BY <2>1, <1>2, SocketAssumption DEF RingPut
  <1> QED
    BY <1>1, <1>2, SocketAssumption

LEMMA OpenGood ==
    ASSUME NEW s \in Socket, HasPeer(s), s.state = "OPEN",
           NEW p \in GoodPacket, NEW next
    PROVE  LET t == OpenOnData(s, p, next)
           IN  t \in Socket /\ HasPeer(t) /\ t.state \in {"OPEN", "CLOSED"}
  <1>1. Accept(s, p) \in Socket /\ HasPeer(Accept(s, p)) /\ Accept(s, p).state = "OPEN"
    <2>1. RingPut(s.ringbuf, p.arg) \in Seq(Nat)
      BY RingTyped DEF Socket, GoodPacket, Packet
    <2>2. p.seq \in SeqNum /\ p.seq # Undef
      BY SocketAssumption DEF GoodPacket, Packet, SeqNum
    <2> QED
      BY <2>1, <2>2 DEF Accept, Socket, HasPeer
  <1>2. p.seq \in SeqNum /\ p.type \in MessageType
    BY DEF GoodPacket, Packet
  <1>3. CASE p.type = "CLOSE"
    BY <1>3 DEF OpenOnData, Socket, ConnectionState, HasPeer
  <1>4. CASE p.type = "ACK"
    BY <1>4, <1>2 DEF OpenOnData, Socket, ConnectionState, HasPeer
  <1>5. CASE p.type = "DATA" /\ p.seq = next
    BY <1>5, <1>1 DEF OpenOnData
  <1>6. CASE p.type \notin {"CLOSE", "ACK"} /\ ~(p.type = "DATA" /\ p.seq = next)
    BY <1>6 DEF OpenOnData
  <1> QED
    BY <1>3, <1>4, <1>5, <1>6

LEMMA ServerGood ==
    ASSUME NEW s \in Socket, NEW c, GoodServer(s, c), NEW p \in GoodPacket, NEW r \in Node
    PROVE  ServerOnData(s, r, p) \in Socket /\ GoodServer(ServerOnData(s, r, p), c)
  <1> DEFINE t == ServerOnData(s, r, p)
  <1>1. CASE s.state = "LISTENING" /\ p.type = "SYN"
    <2>1. p.arg \in Port /\ p.arg # Undef /\ p.seq \in SeqNum /\ p.seq # Undef
      BY <1>1, SocketAssumption DEF GoodPacket, Packet, Port, SeqNum
    <2>2. t = AdoptPeer(s, r, p)
      BY <1>1 DEF ServerOnData
    <2>3. c = "none"
      BY <1>1 DEF GoodServer
    <2>4. t \in Socket
      BY <2>1, <2>2 DEF AdoptPeer, Socket, ConnectionState, Address
    <2>5. t.state = "SYN_RECVED" /\ HasPeer(t)
      BY <2>1, <2>2 DEF AdoptPeer, Socket, HasPeer
    <2> QED
      BY <2>3, <2>4, <2>5 DEF GoodServer
  <1>2. CASE /\ s.state \in {"SYN_RECVED", "PENDING"} /\ s.remote = r
             /\ p.type = "CLOSE"
    <2>1. t = [s EXCEPT !.state = "CLOSED"]
      BY <1>2 DEF ServerOnData
    <2> QED
      BY <2>1 DEF GoodServer, Socket, ConnectionState
  <1>3. CASE s.state = "PENDING" /\ s.remote = r /\ p.type = "ACK"
    <2>1. t = [s EXCEPT !.state = "OPEN"]
      BY <1>3 DEF ServerOnData
    <2>2. t \in Socket /\ t.state = "OPEN" /\ HasPeer(t)
      BY <1>3, <2>1 DEF GoodServer, Socket, ConnectionState, HasPeer
    <2> QED
      BY <2>2, <1>3 DEF GoodServer
  <1>4. CASE s.state = "OPEN" /\ s.remote = r
    <2>1. t = OpenOnData(s, p, NextForServer(s))
      BY <1>4 DEF ServerOnData
    <2>2. HasPeer(s)
      BY <1>4 DEF GoodServer
    <2>3. t \in Socket /\ HasPeer(t) /\ t.state \in {"OPEN", "CLOSED"}
      BY <1>4, <2>1, <2>2, OpenGood
    <2> QED
      BY <2>3 DEF GoodServer
  <1>5. CASE t = s
    BY <1>5
  <1> QED
    BY <1>1, <1>2, <1>3, <1>4, <1>5 DEF ServerOnData

LEMMA ClientGood ==
    ASSUME NEW s \in Socket, NEW c, GoodClient(s, c), NEW p \in GoodPacket, NEW r \in Node
    PROVE  ClientOnData(s, r, p) \in Socket /\ GoodClient(ClientOnData(s, r, p), c)
  <1> DEFINE t == ClientOnData(s, r, p)
  <1>1. CASE s.state = "SYN_SENT" /\ s.remote = r /\ p.type = "SYN"
    <2>1. p.seq \in SeqNum /\ p.seq # Undef
      BY SocketAssumption DEF GoodPacket, Packet, SeqNum
    <2>2. t = [s EXCEPT !.remote_sequence = p.seq, !.state = "SYN_RECVED"]
      BY <1>1 DEF ClientOnData
    <2>3. t \in Socket
      BY <2>1, <2>2 DEF Socket, ConnectionState
    <2>4. t.state = "SYN_RECVED" /\ HasPeer(t) /\ c # "none"
      BY <1>1, <2>1, <2>2 DEF Socket, HasPeer, GoodClient
    <2> QED
      BY <2>3, <2>4 DEF GoodClient
  <1>2. CASE /\ s.state \in {"SYN_SENT", "SYN_RECVED"} /\ s.remote = r
             /\ p.type = "CLOSE"
    <2>1. t = [s EXCEPT !.state = "CLOSED"]
      BY <1>2 DEF ClientOnData
    <2> QED
      BY <2>1 DEF GoodClient, Socket, ConnectionState
  <1>3. CASE s.state = "OPEN" /\ s.remote = r
    <2>1. t = OpenOnData(s, p, NextForClient(s))
      BY <1>3 DEF ClientOnData
    <2>2. HasPeer(s)
      BY <1>3 DEF GoodClient
    <2>3. t \in Socket /\ HasPeer(t) /\ t.state \in {"OPEN", "CLOSED"}
      BY <1>3, <2>1, <2>2, OpenGood
    <2> QED
      BY <2>3 DEF GoodClient
  <1>4. CASE t = s
    BY <1>4
  <1> QED
    BY <1>1, <1>2, <1>3, <1>4 DEF ClientOnData

(* A delivered packet leaves the socket that handles it, and the lines, good. *)
LEMMA DeliveryGood ==
    ASSUME NEW n \in Node, NEW s, NEW c, GoodSocket(n, s, c),
           NEW lines, GoodLines(lines), NEW r \in Route, lines[r] # <<>>
    PROVE  LET p == Head(lines[r])
           IN  /\ GoodSocket(n, Received(n, s, p), c)
               /\ GoodLines(LinesAfter(lines, r, n, s, p))
  <1> DEFINE p == Head(lines[r])
             d == Dispatched(s, p)
             t == Received(n, s, p)
  <1>1. p \in GoodPacket /\ GoodLines(Consume(lines, r))
    BY ConsumeGood
  <1>2. p.src \in Node
    BY <1>1 DEF GoodPacket, Packet
  <1>3. GoodSocket(n, d, c) /\ d.state = s.state
    BY <1>2 DEF GoodSocket, GoodServer, GoodClient, HasPeer, Dispatched, Socket, Address
  <1>4. GoodSocket(n, t, c)
    <2>1. CASE n \in Servers
      BY <2>1, <1>1, <1>2, <1>3, ServerGood DEF GoodSocket, Received
    <2>2. CASE n \notin Servers
      BY <2>2, <1>1, <1>2, <1>3, ClientGood DEF GoodSocket, Received
    <2> QED
      BY <2>1, <2>2
  <1>5. ASSUME Acknowledges(s, p)
        PROVE  HasPeer(t)
    <2>1. d.state = "OPEN" /\ HasPeer(d)
      BY <1>3, <1>5 DEF Acknowledges, GoodSocket, GoodServer, GoodClient
    <2>2. t = OpenOnData(d, p, NextForServer(d)) \/ t = OpenOnData(d, p, NextForClient(d))
      <3>1. d.remote = p.src
        BY DEF Dispatched, GoodSocket, Socket
      <3> QED
        BY <2>1, <3>1 DEF Received, ServerOnData, ClientOnData
    <2> QED
      BY <2>1, <2>2, <1>1, <1>3, OpenGood DEF GoodSocket
  <1>6. GoodLines(LinesAfter(lines, r, n, s, p))
    <2>1. CASE Acknowledges(s, p)
      <3>1. AckPacket(n, t) \in GoodPacket
        BY <2>1, <1>4, <1>5, AckGood DEF GoodSocket
      <3> QED
        BY <2>1, <3>1, <1>1, TransmitGood DEF LinesAfter
    <2>2. CASE ~Acknowledges(s, p)
      BY <2>2, <1>1 DEF LinesAfter
    <2> QED
      BY <2>1, <2>2
  <1> QED
    BY <1>4, <1>6

-----------------------------------------------------------------------------
(* A step that replaces one board's socket and call by good ones, and the
   lines by good lines, preserves the invariant.                            *)
LEMMA OneBoard ==
    ASSUME IInv, NEW n \in Node, NEW s, NEW c,
           GoodSocket(n, s, c), c \in {"none", "accept", "connect"},
           sock' = [sock EXCEPT ![n] = s],
           call' = [call EXCEPT ![n] = c],
           GoodLines(net')
    PROVE  IInv'
  <1>1. s \in Socket
    BY DEF GoodSocket
  <1>2. ASSUME NEW m \in Node
        PROVE  GoodSocket(m, sock[m], call[m])'
    <2>1. CASE m = n
      <3>1. sock'[m] = s /\ call'[m] = c
        BY <2>1 DEF IInv
      <3> QED
        BY <2>1, <3>1 DEF GoodSocket, GoodServer, GoodClient
    <2>2. CASE m # n
      <3>1. sock'[m] = sock[m] /\ call'[m] = call[m]
        BY <2>2 DEF IInv
      <3>2. GoodSocket(m, sock[m], call[m])
        BY DEF IInv
      <3> QED
        BY <3>1, <3>2 DEF GoodSocket, GoodServer, GoodClient
    <2> QED
      BY <2>1, <2>2
  <1> QED
    BY <1>1, <1>2 DEF IInv, GoodLines

(* The same of a step after which n is in the same call as before. *)
LEMMA SameCall ==
    ASSUME IInv, NEW n \in Node, NEW s, GoodSocket(n, s, call[n]),
           sock' = [sock EXCEPT ![n] = s], call' = call, GoodLines(net')
    PROVE  IInv'
  <1>1. call' = [call EXCEPT ![n] = call[n]] /\ call[n] \in {"none", "accept", "connect"}
    BY DEF IInv
  <1> QED
    BY <1>1, OneBoard

LEMMA NewSocketTyped == NewSocket \in Socket
  BY SocketAssumption
     DEF NewSocket, Socket, ConnectionState, Address, SeqNum

LEMMA InitGood == Init => IInv
  <1> SUFFICES ASSUME Init PROVE IInv
    OBVIOUS
  <1>1. NewSocket.state = "CLOSED"
    BY DEF NewSocket
  <1>2. \A n \in Node : GoodSocket(n, NewSocket, "none")
    BY <1>1, NewSocketTyped DEF GoodSocket, GoodServer, GoodClient
  <1>3. GoodLines(EmptyLines)
    BY LineCapAssumption DEF GoodLines, EmptyLines
  <1> QED
    BY <1>2, <1>3, NewSocketTyped DEF Init, IInv

(* What IInv says of one board, ready for use. *)
LEMMA BoardFacts ==
    ASSUME IInv, NEW n \in Node
    PROVE  /\ sock[n] \in Socket /\ GoodSocket(n, sock[n], call[n])
           /\ n \in Servers => GoodServer(sock[n], call[n])
           /\ n \in Clients => GoodClient(sock[n], call[n]) /\ n \notin Servers
           /\ GoodLines(net)
  BY DEF IInv, GoodSocket, Clients

(* Where a call ends by hanging up. *)
LEMMA HangUpStep ==
    ASSUME IInv, NEW n \in Node,
           call' = [call EXCEPT ![n] = "none"],
           sock' = [sock EXCEPT ![n] = Disconnected(@)],
           net' = LinesAfterDisconnect(net, n, sock[n])
    PROVE  IInv'
  <1>1. sock' = [sock EXCEPT ![n] = Disconnected(sock[n])]
    OBVIOUS
  <1>2. GoodSocket(n, Disconnected(sock[n]), "none") /\ GoodLines(net')
    BY BoardFacts, HangUpGood
  <1> QED
    BY <1>1, <1>2, OneBoard

LEMMA AcceptBeginGood ==
    ASSUME IInv, NEW n \in Servers, AcceptBegin(n)
    PROVE  IInv'
  <1> DEFINE s == sock[n]
             t == [AfterSyn(s) EXCEPT !.state = "PENDING"]
  <1>1. n \in Node
    BY SocketAssumption
  <1>2. s \in Socket /\ HasPeer(s) /\ GoodLines(net)
    BY <1>1, BoardFacts DEF AcceptBegin, GoodServer
  <1>3. GoodLines(net')
    BY <1>1, <1>2, AckGood, SynGood, TransmitGood DEF AcceptBegin, HasPeer
  <1>4. t \in Socket /\ t.state = "PENDING" /\ HasPeer(t)
    <2>1. (s.sequence_number + 1) % SeqMod \in SeqNum
      BY <1>2, SeqStep DEF Socket
    <2> QED
      BY <1>2, <2>1 DEF AfterSyn, Socket, ConnectionState, HasPeer
  <1>5. GoodSocket(n, t, "accept")
    BY <1>4 DEF GoodSocket, GoodServer
  <1> QED
    BY <1>1, <1>3, <1>5, OneBoard DEF AcceptBegin

LEMMA ConnectBeginGood ==
    ASSUME IInv, NEW n \in Clients, NEW server \in Servers, ConnectBegin(n, server)
    PROVE  IInv'
  <1> DEFINE s == [sock[n] EXCEPT !.remote = server, !.remote_port = PortOf[server]]
             t == [AfterSyn(s) EXCEPT !.state = "SYN_SENT"]
  <1>1. n \in Node /\ n \notin Servers /\ server \in Node
    BY SocketAssumption DEF Clients
  <1>2. PortOf[server] \in Port /\ PortOf[server] # Undef
    BY <1>1, PortFacts
  <1>3. s \in Socket /\ s.remote_port # Undef
    BY <1>1, <1>2, BoardFacts DEF Socket, Address
  <1>4. GoodLines(net')
    BY <1>1, <1>3, BoardFacts, SynGood, TransmitGood DEF ConnectBegin
  <1>5. t \in Socket /\ t.state = "SYN_SENT" /\ t.remote_port # Undef
    <2>1. (s.sequence_number + 1) % SeqMod \in SeqNum
      BY <1>3, SeqStep DEF Socket
    <2> QED
      BY <1>3, <2>1 DEF AfterSyn, Socket, ConnectionState
  <1>6. GoodSocket(n, t, "connect")
    BY <1>1, <1>5 DEF GoodSocket, GoodClient
  <1> QED
    BY <1>1, <1>4, <1>6, OneBoard DEF ConnectBegin

LEMMA ConnectReturnGood ==
    ASSUME IInv, NEW n \in Clients, ConnectReturn(n)
    PROVE  IInv'
  <1>1. n \in Node /\ n \notin Servers
    BY DEF Clients
  <1>2. CASE sock[n].state = "SYN_RECVED"
    <2> DEFINE t == [sock[n] EXCEPT !.state = "OPEN"]
    <2>1. sock[n] \in Socket /\ HasPeer(sock[n]) /\ GoodLines(net)
      BY <1>1, <1>2, BoardFacts DEF GoodClient, Clients
    <2>2. GoodLines(net')
      BY <1>1, <1>2, <2>1, AckGood, TransmitGood DEF ConnectReturn
    <2>3. t \in Socket /\ t.state = "OPEN" /\ HasPeer(t)
      BY <2>1 DEF Socket, ConnectionState, HasPeer
    <2>4. GoodSocket(n, t, "none")
      BY <1>1, <2>3 DEF GoodSocket, GoodClient
    <2>5. sock' = [sock EXCEPT ![n] = t]
      BY <1>2 DEF ConnectReturn
    <2> QED
      BY <1>1, <2>2, <2>4, <2>5, OneBoard DEF ConnectReturn
  <1>3. CASE sock[n].state # "SYN_RECVED"
    BY <1>1, <1>3, HangUpStep DEF ConnectReturn
  <1> QED
    BY <1>2, <1>3

LEMMA StepGood == IInv /\ [Next]_vars => IInv'
  <1> SUFFICES ASSUME IInv, [Next]_vars PROVE IInv'
    OBVIOUS
  <1>1. ASSUME NEW n \in Servers, Listen(n) PROVE IInv'
    <2> DEFINE t == [sock[n] EXCEPT !.state = "LISTENING"]
    <2>1. n \in Node /\ sock[n] \in Socket /\ call[n] = "none" /\ GoodLines(net)
      BY <1>1, SocketAssumption, BoardFacts DEF Listen, Idle
    <2>2. GoodSocket(n, t, call[n])
      BY <1>1, <2>1 DEF GoodSocket, GoodServer, Socket, ConnectionState
    <2>3. sock' = [sock EXCEPT ![n] = t] /\ call' = call /\ GoodLines(net')
      BY <1>1, <2>1 DEF Listen, GoodLines
    <2> QED
      BY <2>1, <2>2, <2>3, SameCall
  <1>2. ASSUME NEW n \in Servers, AcceptBegin(n) PROVE IInv'
    BY <1>2, AcceptBeginGood
  <1>3. ASSUME NEW n \in Servers, AcceptReturn(n) PROVE IInv'
    <2>1. n \in Node
      BY SocketAssumption
    <2>2. CASE sock[n].state = "OPEN"
      <3>1. GoodSocket(n, sock[n], "none") /\ GoodLines(net)
        BY <1>3, <2>1, <2>2, BoardFacts DEF GoodSocket, GoodServer
      <3>2. sock' = [sock EXCEPT ![n] = sock[n]] /\ GoodLines(net')
        BY <1>3, <2>1, <2>2, <3>1 DEF AcceptReturn, IInv, GoodLines
      <3> QED
        BY <1>3, <2>1, <3>1, <3>2, OneBoard DEF AcceptReturn
    <2>3. CASE sock[n].state # "OPEN"
      BY <1>3, <2>1, <2>3, HangUpStep DEF AcceptReturn
    <2> QED
      BY <2>2, <2>3
  <1>4. ASSUME NEW n \in Servers, AcceptTimeout(n) PROVE IInv'
    BY <1>4, SocketAssumption, HangUpStep DEF AcceptTimeout
  <1>5. ASSUME NEW n \in Clients, NEW server \in Servers, ConnectBegin(n, server)
        PROVE  IInv'
    BY <1>5, ConnectBeginGood
  <1>6. ASSUME NEW n \in Clients, ConnectReturn(n) PROVE IInv'
    BY <1>6, ConnectReturnGood
  <1>7. ASSUME NEW n \in Clients, ConnectTimeout(n) PROVE IInv'
    <2> DEFINE t == [sock[n] EXCEPT !.state = "CLOSED"]
    <2>1. n \in Node /\ n \notin Servers /\ sock[n] \in Socket /\ GoodLines(net)
      BY BoardFacts DEF Clients
    <2>2. GoodSocket(n, t, "none")
      BY <2>1 DEF GoodSocket, GoodClient, Socket, ConnectionState
    <2>3. sock' = [sock EXCEPT ![n] = t] /\ GoodLines(net')
      BY <1>7, <2>1 DEF ConnectTimeout, GoodLines
    <2> QED
      BY <1>7, <2>1, <2>2, <2>3, OneBoard DEF ConnectTimeout
  <1>8. ASSUME NEW n \in Node, Disconnect(n) PROVE IInv'
    <2>1. call' = [call EXCEPT ![n] = "none"]
      BY <1>8 DEF Disconnect, Idle, IInv
    <2> QED
      BY <1>8, <2>1, HangUpStep DEF Disconnect
  <1>9. ASSUME NEW n \in Recreated, Recreate(n) PROVE IInv'
    <2>1. n \in Node
      BY ConnectionAssumption
    <2>2. GoodSocket(n, NewSocket, "none")
      BY <2>1, NewSocketTyped DEF GoodSocket, GoodServer, GoodClient, NewSocket
    <2>3. GoodLines(net')
      BY <1>9 DEF Recreate, IInv, GoodLines
    <2> QED
      BY <1>9, <2>1, <2>2, <2>3, OneBoard DEF Recreate
  <1>10. ASSUME NEW m \in Node, NEW n \in Node, Deliver(m, n) PROVE IInv'
    <2> DEFINE r == <<m, n>>
               t == Received(n, sock[n], Head(net[r]))
    <2>1. r \in Route /\ net[r] # <<>>
      BY <1>10 DEF Route, Deliver
    <2>2. GoodSocket(n, t, call[n])
          /\ GoodLines(LinesAfter(net, r, n, sock[n], Head(net[r])))
      BY <2>1, BoardFacts, DeliveryGood
    <2>3. /\ sock' = [sock EXCEPT ![n] = t]
          /\ net' = LinesAfter(net, r, n, sock[n], Head(net[r]))
          /\ call' = call
      BY <1>10 DEF Deliver
    <2> QED
      BY <2>2, <2>3, SameCall
  <1>11. ASSUME NEW m \in Node, NEW n \in Node, Lose(m, n) PROVE IInv'
    <2>1. <<m, n>> \in Route /\ net[<<m, n>>] # <<>>
      BY <1>11 DEF Route, Lose
    <2>2. GoodLines(net')
      BY <1>11, <2>1, ConsumeGood DEF Lose, IInv
    <2> QED
      BY <1>11, <2>2 DEF Lose, IInv
  <1>12. ASSUME UNCHANGED vars PROVE IInv'
    BY <1>12 DEF vars, IInv, GoodLines
  <1> QED
    BY <1>1, <1>2, <1>3, <1>4, <1>5, <1>6, <1>7, <1>8, <1>9, <1>10, <1>11, <1>12 DEF Next

LEMMA Invariance == Spec => []IInv
  BY InitGood, StepGood, PTL DEF Spec

-----------------------------------------------------------------------------
(* Every variable keeps its type, for any number of boards: in particular no
   packet is ever built from a sequence number that was never written.      *)
THEOREM TypeCorrect == Spec => []TypeOK
  <1>1. IInv => TypeOK
    <2> SUFFICES ASSUME IInv PROVE TypeOK
      OBVIOUS
    <2>1. \A r \in Route : net[r] \in Seq(Packet)
      <3> SUFFICES ASSUME NEW r \in Route PROVE net[r] \in Seq(Packet)
        OBVIOUS
      <3>1. net[r] \in Seq(GoodPacket) /\ GoodPacket \subseteq Packet
        BY DEF IInv, GoodLines, GoodPacket
      <3> QED
        BY <3>1
    <2>2. \A n \in Servers : GoodServer(sock[n], call[n])
      BY SocketAssumption, BoardFacts
    <2>3. \A n \in Clients : GoodClient(sock[n], call[n])
      BY BoardFacts DEF Clients
    <2> QED
      BY <2>1, <2>2, <2>3 DEF IInv, TypeOK, GoodLines, GoodServer, GoodClient
  <1> QED
    BY Invariance, <1>1, PTL

(* connect() and accept() never return with the socket in a waiting state. *)
THEOREM Settled == Spec => []CallsSettle
  <1>1. IInv => CallsSettle
    <2> SUFFICES ASSUME IInv PROVE CallsSettle
      OBVIOUS
    <2>1. \A n \in Servers : GoodServer(sock[n], call[n])
      BY SocketAssumption, BoardFacts
    <2>2. \A n \in Clients : GoodClient(sock[n], call[n])
      BY BoardFacts DEF Clients
    <2> QED
      BY <2>1, <2>2 DEF CallsSettle, GoodServer, GoodClient
  <1> QED
    BY Invariance, <1>1, PTL

(* remote_port and remote_sequence, which no constructor writes, are written
   before any state that uses them, and no packet but a CLOSE is addressed
   with an unwritten port.                                                  *)
THEOREM Initialised == Spec => []InitialisedBeforeUse
  <1>1. IInv => InitialisedBeforeUse
    <2> SUFFICES ASSUME IInv PROVE InitialisedBeforeUse
      OBVIOUS
    <2>1. \A n \in Servers : GoodServer(sock[n], call[n])
      BY SocketAssumption, BoardFacts
    <2>2. \A n \in Clients : GoodClient(sock[n], call[n])
      BY BoardFacts DEF Clients
    <2>3. ASSUME NEW p \in OnLines(net), p.type # "CLOSE"
          PROVE  p.port # Undef
      <3>1. PICK r \in Route : \E i \in DOMAIN net[r] : p = net[r][i]
        BY DEF OnLines
      <3>2. net[r] \in Seq(GoodPacket)
        BY DEF IInv, GoodLines
      <3>3. p \in GoodPacket
        BY <3>1, <3>2
      <3> QED
        BY <2>3, <3>3 DEF GoodPacket
    <2> QED
      BY <2>1, <2>2, <2>3 DEF InitialisedBeforeUse, GoodServer, GoodClient, HasPeer
  <1> QED
    BY Invariance, <1>1, PTL

=============================================================================
