--------------------------- MODULE HandshakeProofs ---------------------------
(***************************************************************************)
(* That every sequence number a socket has adopted lies behind a socket of *)
(* the other role, for any boards, as long as none is started anew.        *)
(*                                                                         *)
(* A number is adopted from a SYN.  The SYN was counted when it was sent   *)
(* and counters only grow, so what must be carried along the lines is that *)
(* every SYN lies behind the counter of its sender and that SYNs and ACKs  *)
(* only travel between a client and a server.  The latter holds although   *)
(* any packet overwrites remote: a CLOSE from the wrong side also closes   *)
(* the socket whose remote it overwrites.                                  *)
(***************************************************************************)
EXTENDS ConnectionProofs

Opposite(m, n) == (m \in Servers) # (n \in Servers)

(* A socket that may still send SYNs or ACKs sends them to the other role. *)
FacesPeer(n, s) ==
    s.state \in {"SYN_SENT", "SYN_RECVED", "PENDING", "OPEN"} => Opposite(n, s.remote)

(* The packets on the route from m to n, when m has counted up to count. *)
Counted(m, n, count) ==
    { p \in GoodPacket : /\ p.src = m /\ p.type # "DATA"
                         /\ p.type # "CLOSE" => Opposite(m, n)
                         /\ p.type = "SYN" => p.seq < count }

CountedLines(lines, count) ==
    \A m, n \in Node : lines[<<m, n>>] \in Seq(Counted(m, n, count[m]))

Count(sk) == [m \in Node |-> sk[m].sequence_number]

(* The number s has adopted is behind a counter of the other role. *)
Behind(n, s, count) ==
    s.remote_sequence # Undef =>
        \E m \in Node : Opposite(n, m) /\ s.remote_sequence < count[m]

Ahead ==
    /\ IInv
    /\ \A n \in Node : FacesPeer(n, sock[n]) /\ Behind(n, sock[n], Count(sock))
    /\ CountedLines(net, Count(sock))

-----------------------------------------------------------------------------
LEMMA WidenSeq ==
    ASSUME NEW S, NEW T, S \subseteq T, NEW q \in Seq(S)
    PROVE  q \in Seq(T)
  OBVIOUS

(* Counters that have grown disturb nothing. *)
LEMMA CountedGrows ==
    ASSUME NEW lines, NEW c \in [Node -> Nat], NEW d \in [Node -> Nat],
           CountedLines(lines, c), \A m \in Node : c[m] <= d[m]
    PROVE  CountedLines(lines, d)
  <1> SUFFICES ASSUME NEW m \in Node, NEW n \in Node
               PROVE  lines[<<m, n>>] \in Seq(Counted(m, n, d[m]))
    BY DEF CountedLines
  <1>1. lines[<<m, n>>] \in Seq(Counted(m, n, c[m]))
    BY DEF CountedLines
  <1>2. Counted(m, n, c[m]) \subseteq Counted(m, n, d[m])
    <2> SUFFICES ASSUME NEW p \in Counted(m, n, c[m]), p.type = "SYN" PROVE p.seq < d[m]
      BY DEF Counted
    <2>1. p.seq \in Nat /\ p.seq < c[m] /\ c[m] \in Nat /\ d[m] \in Nat /\ c[m] <= d[m]
      BY SocketAssumption DEF Counted, GoodPacket, Packet, SeqNum
    <2> QED
      BY <2>1
  <1> QED
    BY <1>1, <1>2, WidenSeq

LEMMA CountedTransmit ==
    ASSUME NEW lines, NEW count, CountedLines(lines, count), NEW p,
           <<p.src, p.dst>> \in Route => p \in Counted(p.src, p.dst, count[p.src])
    PROVE  CountedLines(Transmit(lines, p), count)
  <1> SUFFICES ASSUME NEW m \in Node, NEW n \in Node
               PROVE  Transmit(lines, p)[<<m, n>>] \in Seq(Counted(m, n, count[m]))
    BY DEF CountedLines
  <1> DEFINE r == <<m, n>>
  <1>1. r \in Route /\ lines[r] \in Seq(Counted(m, n, count[m]))
    BY DEF Route, CountedLines
  <1>2. CASE r = <<p.src, p.dst>> /\ Len(lines[r]) < LineCap
    <2>1. Transmit(lines, p)[r] = Append(lines[r], p)
      BY <1>1, <1>2 DEF Transmit
    <2>2. p \in Counted(m, n, count[m])
      BY <1>1, <1>2
    <2> QED
      BY <1>1, <2>1, <2>2
  <1>3. CASE ~(r = <<p.src, p.dst>> /\ Len(lines[r]) < LineCap)
    <2>1. Transmit(lines, p)[r] = lines[r]
      BY <1>1, <1>3 DEF Transmit
    <2> QED
      BY <1>1, <2>1
  <1> QED
    BY <1>2, <1>3

LEMMA CountedConsume ==
    ASSUME NEW lines, GoodLines(lines), NEW count, CountedLines(lines, count),
           NEW m \in Node, NEW n \in Node, lines[<<m, n>>] # <<>>
    PROVE  /\ CountedLines(Consume(lines, <<m, n>>), count)
           /\ Head(lines[<<m, n>>]) \in Counted(m, n, count[m])
  <1> DEFINE r == <<m, n>>
             rest == Consume(lines, r)
  <1>1. r \in Route /\ lines[r] \in Seq(Counted(m, n, count[m])) /\ DOMAIN lines = Route
    BY DEF Route, CountedLines, GoodLines
  <1>2. /\ Head(lines[r]) \in Counted(m, n, count[m])
        /\ Tail(lines[r]) \in Seq(Counted(m, n, count[m]))
    BY <1>1
  <1>3. ASSUME NEW k \in Node, NEW l \in Node
        PROVE  rest[<<k, l>>] \in Seq(Counted(k, l, count[k]))
    <2>1. CASE <<k, l>> = r
      <3>1. rest[<<k, l>>] = Tail(lines[r]) /\ k = m /\ l = n
        BY <2>1, <1>1 DEF Consume
      <3> QED
        BY <3>1, <1>2
    <2>2. CASE <<k, l>> # r
      <3>1. rest[<<k, l>>] = lines[<<k, l>>]
        BY <2>2, <1>1 DEF Consume
      <3> QED
        BY <3>1 DEF CountedLines
    <2> QED
      BY <2>1, <2>2
  <1> QED
    BY <1>2, <1>3 DEF CountedLines

-----------------------------------------------------------------------------
(* The packets of a socket that faces its peer. *)
LEMMA SynCounted ==
    ASSUME NEW n \in Node, NEW s \in Socket, s.remote_port # Undef, Opposite(n, s.remote),
           NEW count, s.sequence_number < count
    PROVE  SynPacket(n, s) \in Counted(n, s.remote, count)
  BY SynGood DEF SynPacket, ToRemote, Counted

LEMMA AckCounted ==
    ASSUME NEW n \in Node, NEW s \in Socket, HasPeer(s), Opposite(n, s.remote), NEW count
    PROVE  AckPacket(n, s) \in Counted(n, s.remote, count)
  BY AckGood DEF AckPacket, ToRemote, Counted

LEMMA CloseCounted ==
    ASSUME NEW n \in Node, NEW s \in Socket, NEW count
    PROVE  ClosePacket(n, s) \in Counted(n, s.remote, count)
  BY CloseGood DEF ClosePacket, ToRemote, Counted

LEMMA HangUpCounted ==
    ASSUME NEW lines, NEW count, CountedLines(lines, count), NEW n \in Node, NEW s \in Socket
    PROVE  CountedLines(LinesAfterDisconnect(lines, n, s), count)
  <1>1. ClosePacket(n, s).src = n /\ ClosePacket(n, s).dst = s.remote
    BY DEF ClosePacket, ToRemote
  <1> QED
    BY <1>1, CloseCounted, CountedTransmit DEF LinesAfterDisconnect

(* A handler leaves the counter alone, adopts a number from a SYN only, and
   the socket that is not closed by the packet faces its sender.            *)
LEMMA ReceivedFaces ==
    ASSUME NEW m \in Node, NEW n \in Node, NEW s, NEW c, GoodSocket(n, s, c),
           NEW count, NEW p \in Counted(m, n, count)
    PROVE  LET t == Received(n, s, p)
           IN  /\ FacesPeer(n, t)
               /\ t.sequence_number = s.sequence_number
               /\ \/ t.remote_sequence = s.remote_sequence
                  \/ /\ p.type = "SYN" /\ t.remote_sequence = p.seq
                     /\ t.remote_sequence < count /\ Opposite(n, m)
  <1> DEFINE d == Dispatched(s, p)
             t == Received(n, s, p)
  <1>1. /\ s \in Socket /\ p.src = m /\ p.type \in {"ACK", "SYN", "CLOSE"}
        /\ p.type # "CLOSE" => Opposite(n, m)
        /\ p.type = "SYN" => p.seq < count
    BY DEF GoodSocket, Counted, GoodPacket, Packet, MessageType, Opposite
  <1>2. /\ d.remote = m /\ d.state = s.state /\ d.sequence_number = s.sequence_number
        /\ d.remote_sequence = s.remote_sequence
        /\ DOMAIN d = DOMAIN NewSocket
    BY <1>1 DEF Dispatched, Socket, NewSocket
  <1>3. CASE n \in Servers
    <2>1. t = ServerOnData(d, m, p) /\ s.state # "SYN_SENT"
      BY <1>1, <1>3 DEF Received, GoodSocket, GoodServer
    <2>2. CASE d.state = "LISTENING" /\ p.type = "SYN"
      <3>1. t = AdoptPeer(d, m, p)
        BY <2>1, <2>2 DEF ServerOnData
      <3>2. /\ t.remote = m /\ t.remote_sequence = p.seq
            /\ t.sequence_number = d.sequence_number
        BY <3>1, <1>2 DEF AdoptPeer, NewSocket
      <3> QED
        BY <3>2, <1>1, <1>2, <2>2 DEF FacesPeer
    <2>3. CASE d.state \in {"SYN_RECVED", "PENDING", "OPEN"} /\ p.type = "CLOSE"
      <3>1. t = [d EXCEPT !.state = "CLOSED"]
        BY <2>1, <2>3, <1>2 DEF ServerOnData, OpenOnData
      <3> QED
        BY <3>1, <1>2 DEF FacesPeer, NewSocket
    <2>4. CASE d.state = "PENDING" /\ p.type = "ACK"
      <3>1. t = [d EXCEPT !.state = "OPEN"]
        BY <2>1, <2>4, <1>2 DEF ServerOnData
      <3> QED
        BY <3>1, <2>4, <1>1, <1>2 DEF FacesPeer, NewSocket
    <2>5. CASE d.state = "OPEN" /\ p.type = "ACK"
      <3>1. t = [d EXCEPT !.last_recved_ack = p.seq]
        BY <2>1, <2>5, <1>2 DEF ServerOnData, OpenOnData
      <3> QED
        BY <3>1, <2>5, <1>1, <1>2 DEF FacesPeer, NewSocket
    <2>6. CASE \/ d.state \in {"SYN_RECVED", "PENDING", "OPEN"} /\ p.type = "SYN"
               \/ d.state = "SYN_RECVED" /\ p.type = "ACK"
               \/ d.state = "CLOSED"
               \/ d.state = "LISTENING" /\ p.type # "SYN"
      <3>1. t = d
        BY <2>1, <2>6, <1>2 DEF ServerOnData, OpenOnData
      <3> QED
        BY <3>1, <2>6, <1>1, <1>2 DEF FacesPeer
    <2>7. d.state \in {"CLOSED", "LISTENING", "SYN_RECVED", "PENDING", "OPEN"}
      BY <1>1, <1>2, <2>1 DEF Socket, ConnectionState
    <2> QED
      BY <1>1, <2>2, <2>3, <2>4, <2>5, <2>6, <2>7
  <1>4. CASE n \notin Servers
    <2>1. t = ClientOnData(d, m, p) /\ s.state \notin {"LISTENING", "PENDING"}
      BY <1>1, <1>4 DEF Received, GoodSocket, GoodClient
    <2>2. CASE d.state = "SYN_SENT" /\ p.type = "SYN"
      <3>1. t = [d EXCEPT !.remote_sequence = p.seq, !.state = "SYN_RECVED"]
        BY <2>1, <2>2, <1>2 DEF ClientOnData
      <3>2. /\ t.remote = m /\ t.remote_sequence = p.seq
            /\ t.sequence_number = d.sequence_number
        BY <3>1, <1>2 DEF NewSocket
      <3> QED
        BY <3>2, <1>1, <1>2, <2>2 DEF FacesPeer
    <2>3. CASE d.state \in {"SYN_SENT", "SYN_RECVED", "OPEN"} /\ p.type = "CLOSE"
      <3>1. t = [d EXCEPT !.state = "CLOSED"]
        BY <2>1, <2>3, <1>2 DEF ClientOnData, OpenOnData
      <3> QED
        BY <3>1, <1>2 DEF FacesPeer, NewSocket
    <2>4. CASE d.state = "OPEN" /\ p.type = "ACK"
      <3>1. t = [d EXCEPT !.last_recved_ack = p.seq]
        BY <2>1, <2>4, <1>2 DEF ClientOnData, OpenOnData
      <3> QED
        BY <3>1, <2>4, <1>1, <1>2 DEF FacesPeer, NewSocket
    <2>5. CASE \/ d.state \in {"SYN_RECVED", "OPEN"} /\ p.type = "SYN"
               \/ d.state \in {"SYN_SENT", "SYN_RECVED"} /\ p.type = "ACK"
               \/ d.state = "CLOSED"
      <3>1. t = d
        BY <2>1, <2>5, <1>2 DEF ClientOnData, OpenOnData
      <3> QED
        BY <3>1, <2>5, <1>1, <1>2 DEF FacesPeer
    <2>6. d.state \in {"CLOSED", "SYN_SENT", "SYN_RECVED", "OPEN"}
      BY <1>1, <1>2, <2>1 DEF Socket, ConnectionState
    <2> QED
      BY <1>1, <2>2, <2>3, <2>4, <2>5, <2>6
  <1> QED
    BY <1>3, <1>4

-----------------------------------------------------------------------------
(* The step of one board whose counter does not fall. *)
LEMMA OneBoardAhead ==
    ASSUME Ahead, IInv', NEW n \in Node, NEW t \in Socket,
           sock' = [sock EXCEPT ![n] = t],
           t.sequence_number >= sock[n].sequence_number,
           FacesPeer(n, t), Behind(n, t, Count(sock')),
           CountedLines(net', Count(sock'))
    PROVE  Ahead'
  <1>1. sock \in [Node -> Socket]
    BY DEF Ahead, IInv
  <1>2. ASSUME NEW m \in Node
        PROVE  /\ Count(sock)[m] \in Nat /\ Count(sock')[m] \in Nat
               /\ Count(sock)[m] <= Count(sock')[m]
    BY <1>1, SocketAssumption DEF Count, Socket, SeqNum
  <1>3. ASSUME NEW m \in Node
        PROVE  FacesPeer(m, sock'[m]) /\ Behind(m, sock'[m], Count(sock'))
    <2>1. CASE m = n
      BY <1>1, <2>1
    <2>2. CASE m # n
      <3>1. sock'[m] = sock[m] /\ FacesPeer(m, sock[m]) /\ Behind(m, sock[m], Count(sock))
        BY <1>1, <2>2 DEF Ahead
      <3>2. sock[m].remote_sequence # Undef => sock[m].remote_sequence \in Nat
        BY <1>1, SocketAssumption DEF Socket, SeqNum
      <3>3. ASSUME sock[m].remote_sequence # Undef
            PROVE  \E k \in Node : /\ Opposite(m, k)
                                   /\ sock[m].remote_sequence < Count(sock')[k]
        <4>1. PICK k \in Node : /\ Opposite(m, k)
                                 /\ sock[m].remote_sequence < Count(sock)[k]
          BY <3>1, <3>3 DEF Behind
        <4>2. sock[m].remote_sequence < Count(sock')[k]
          <5>1. sock[m].remote_sequence \in Nat
            BY <3>2, <3>3
          <5>2. /\ Count(sock)[k] \in Nat /\ Count(sock')[k] \in Nat
                /\ Count(sock)[k] <= Count(sock')[k]
            BY <1>2
          <5> QED
            BY <4>1, <5>1, <5>2
        <4> QED
          BY <4>1, <4>2
      <3> QED
        BY <3>1, <3>3 DEF Behind
    <2> QED
      BY <2>1, <2>2
  <1> QED
    BY <1>3 DEF Ahead, FacesPeer, Behind, CountedLines, Count, Counted

(* The same of a step that does not count. *)
LEMMA Uncounted ==
    ASSUME Ahead, IInv', NEW n \in Node, NEW t \in Socket,
           sock' = [sock EXCEPT ![n] = t],
           t.sequence_number = sock[n].sequence_number,
           FacesPeer(n, t), Behind(n, t, Count(sock)),
           CountedLines(net', Count(sock))
    PROVE  Ahead'
  <1>1. sock \in [Node -> Socket] /\ sock[n].sequence_number \in Nat
    BY SocketAssumption DEF Ahead, IInv, Socket, SeqNum
  <1>2. Count(sock') = Count(sock)
    BY <1>1 DEF Count
  <1>3. Behind(n, t, Count(sock')) /\ CountedLines(net', Count(sock'))
    BY <1>2
  <1>4. t.sequence_number >= sock[n].sequence_number
    BY <1>1
  <1> QED
    BY <1>3, <1>4, OneBoardAhead

(* What Ahead says of one board. *)
LEMMA AheadFacts ==
    ASSUME Ahead, NEW n \in Node
    PROVE  /\ IInv /\ sock[n] \in Socket /\ sock[n].sequence_number \in SeqNum
           /\ FacesPeer(n, sock[n]) /\ Behind(n, sock[n], Count(sock))
           /\ CountedLines(net, Count(sock))
  BY DEF Ahead, IInv, Socket

(* Where a call ends by hanging up. *)
LEMMA HangUpAhead ==
    ASSUME Ahead, IInv', NEW n \in Node,
           sock' = [sock EXCEPT ![n] = Disconnected(@)],
           net' = LinesAfterDisconnect(net, n, sock[n])
    PROVE  Ahead'
  <1> DEFINE t == Disconnected(sock[n])
  <1>1. /\ t \in Socket /\ t.state = "CLOSED"
        /\ t.sequence_number = sock[n].sequence_number
        /\ t.remote_sequence = sock[n].remote_sequence
    BY AheadFacts DEF Disconnected, Socket, ConnectionState
  <1>2. FacesPeer(n, t) /\ Behind(n, t, Count(sock))
    BY <1>1, AheadFacts DEF FacesPeer, Behind
  <1>3. CountedLines(net', Count(sock))
    BY AheadFacts, HangUpCounted
  <1>4. sock' = [sock EXCEPT ![n] = t]
    OBVIOUS
  <1> QED
    BY <1>1, <1>2, <1>3, <1>4, Uncounted

(* A SYN is counted by its sender, whose counter is below the bound.  s is
   the socket that sends it and t the socket afterwards.                    *)
LEMMA SynAhead ==
    ASSUME SynsBelowWrap, Ahead, IInv', NEW n \in Node, NEW s \in Socket, NEW t \in Socket, NEW lines,
           s.sequence_number = sock[n].sequence_number,
           s.sequence_number < MaxSyn,
           s.remote_sequence = sock[n].remote_sequence,
           s.remote_port # Undef, Opposite(n, s.remote),
           t.sequence_number = (s.sequence_number + 1) % SeqMod,
           t.remote_sequence = s.remote_sequence, t.remote = s.remote,
           CountedLines(lines, Count(sock)),
           sock' = [sock EXCEPT ![n] = t],
           net' = Transmit(lines, SynPacket(n, s))
    PROVE  Ahead'
  <1>1. t.sequence_number = s.sequence_number + 1 /\ s.sequence_number \in Nat
    <2>1. /\ s.sequence_number \in Nat /\ MaxSyn \in Nat /\ SeqMod \in Nat
          /\ s.sequence_number < MaxSyn /\ MaxSyn < SeqMod
      BY ConnectionAssumption, SocketAssumption DEF SynsBelowWrap, Socket, SeqNum
    <2>2. s.sequence_number + 1 \in 0 .. SeqMod - 1
      BY <2>1
    <2>3. (s.sequence_number + 1) % SeqMod = s.sequence_number + 1
      BY <2>1, <2>2
    <2> QED
      BY <2>1, <2>3
  <1>2. sock \in [Node -> Socket]
    BY DEF Ahead, IInv
  <1>3. /\ Count(sock) \in [Node -> Nat] /\ Count(sock') \in [Node -> Nat]
        /\ \A m \in Node : Count(sock)[m] <= Count(sock')[m]
        /\ Count(sock')[n] = s.sequence_number + 1
    <2>1. \A m \in Node : sock[m].sequence_number \in Nat /\ sock'[m].sequence_number \in Nat
      BY <1>2, SocketAssumption DEF Socket, SeqNum
    <2>2. sock'[n] = t /\ \A m \in Node : m # n => sock'[m] = sock[m]
      BY <1>2
    <2>3. \A m \in Node : sock[m].sequence_number <= sock'[m].sequence_number
      BY <1>1, <2>1, <2>2
    <2> QED
      BY <1>1, <2>1, <2>2, <2>3 DEF Count
  <1>4. CountedLines(lines, Count(sock'))
    BY <1>3, CountedGrows
  <1>5. SynPacket(n, s) \in Counted(n, s.remote, Count(sock')[n])
    BY <1>1, <1>3, SynCounted
  <1>6. SynPacket(n, s).src = n /\ SynPacket(n, s).dst = s.remote
    BY DEF SynPacket, ToRemote
  <1>7. CountedLines(net', Count(sock'))
    BY <1>4, <1>5, <1>6, CountedTransmit
  <1>8. FacesPeer(n, t)
    BY DEF FacesPeer
  <1>9. Behind(n, t, Count(sock'))
    <2> SUFFICES ASSUME t.remote_sequence # Undef
                 PROVE  \E m \in Node : Opposite(n, m) /\ t.remote_sequence < Count(sock')[m]
      BY DEF Behind
    <2>1. t.remote_sequence = sock[n].remote_sequence /\ t.remote_sequence \in Nat
      BY SocketAssumption DEF Socket, SeqNum
    <2>2. PICK m \in Node : Opposite(n, m) /\ t.remote_sequence < Count(sock)[m]
      BY <2>1, AheadFacts DEF Behind
    <2>3. /\ Count(sock)[m] \in Nat /\ Count(sock')[m] \in Nat
          /\ Count(sock)[m] <= Count(sock')[m]
      BY <1>3
    <2> QED
      BY <2>1, <2>2, <2>3
  <1>10. t.sequence_number >= sock[n].sequence_number
    BY <1>1
  <1> QED
    BY <1>7, <1>8, <1>9, <1>10, OneBoardAhead

-----------------------------------------------------------------------------
LEMMA AheadInit == Init => Ahead
  <1> SUFFICES ASSUME Init PROVE Ahead
    OBVIOUS
  <1>1. \A n \in Node : FacesPeer(n, sock[n]) /\ Behind(n, sock[n], Count(sock))
    BY DEF Init, NewSocket, FacesPeer, Behind
  <1>2. CountedLines(net, Count(sock))
    <2> SUFFICES ASSUME NEW m \in Node, NEW n \in Node
                 PROVE  net[<<m, n>>] \in Seq(Counted(m, n, Count(sock)[m]))
      BY DEF CountedLines
    <2>1. net[<<m, n>>] = <<>>
      BY DEF Init, EmptyLines, Route
    <2> QED
      BY <2>1
  <1> QED
    BY <1>1, <1>2, InitGood DEF Ahead

(* A step that leaves the lines and the numbers alone, and opens nothing. *)
LEMMA QuietAhead ==
    ASSUME Ahead, IInv', NEW n \in Node, NEW state \in {"CLOSED", "LISTENING"},
           sock' = [sock EXCEPT ![n].state = state], net' = net
    PROVE  Ahead'
  <1> DEFINE t == [sock[n] EXCEPT !.state = state]
  <1>1. /\ t \in Socket /\ t.state = state
        /\ t.sequence_number = sock[n].sequence_number
        /\ t.remote_sequence = sock[n].remote_sequence
    BY AheadFacts DEF Socket, ConnectionState
  <1>2. FacesPeer(n, t) /\ Behind(n, t, Count(sock))
    BY <1>1, AheadFacts DEF FacesPeer, Behind
  <1>3. CountedLines(net', Count(sock)) /\ sock' = [sock EXCEPT ![n] = t]
    BY AheadFacts
  <1> QED
    BY <1>1, <1>2, <1>3, Uncounted

LEMMA AcceptBeginAhead ==
    ASSUME SynsBelowWrap, Ahead, IInv', NEW n \in Servers, AcceptBegin(n)
    PROVE  Ahead'
  <1> DEFINE s == sock[n]
             t == [AfterSyn(s) EXCEPT !.state = "PENDING"]
             lines == Transmit(net, AckPacket(n, s))
  <1>1. n \in Node
    BY SocketAssumption
  <1>2. s \in Socket /\ HasPeer(s) /\ s.state = "SYN_RECVED" /\ Opposite(n, s.remote)
    BY <1>1, AheadFacts, BoardFacts DEF AcceptBegin, GoodServer, FacesPeer
  <1>3. CountedLines(lines, Count(sock))
    <2>1. AckPacket(n, s).src = n /\ AckPacket(n, s).dst = s.remote
      BY DEF AckPacket, ToRemote
    <2> QED
      BY <1>1, <1>2, <2>1, AheadFacts, AckCounted, CountedTransmit
  <1>4. /\ t \in Socket /\ t.remote = s.remote /\ t.remote_sequence = s.remote_sequence
        /\ t.sequence_number = (s.sequence_number + 1) % SeqMod
    <2>1. (s.sequence_number + 1) % SeqMod \in SeqNum
      BY <1>2, SeqStep DEF Socket
    <2> QED
      BY <1>2, <2>1 DEF AfterSyn, Socket, ConnectionState
  <1> QED
    BY <1>1, <1>2, <1>3, <1>4, SynAhead DEF AcceptBegin, HasPeer

LEMMA ConnectBeginAhead ==
    ASSUME SynsBelowWrap, Ahead, IInv', NEW n \in Clients, NEW server \in Servers,
           ConnectBegin(n, server)
    PROVE  Ahead'
  <1> DEFINE s == [sock[n] EXCEPT !.remote = server, !.remote_port = PortOf[server]]
             t == [AfterSyn(s) EXCEPT !.state = "SYN_SENT"]
  <1>1. n \in Node /\ n \notin Servers /\ server \in Node
    BY SocketAssumption DEF Clients
  <1>2. PortOf[server] \in Port /\ PortOf[server] # Undef
    BY <1>1, PortFacts
  <1>3. /\ s \in Socket /\ s.remote_port # Undef /\ s.remote = server
        /\ s.sequence_number = sock[n].sequence_number
        /\ s.remote_sequence = sock[n].remote_sequence
    BY <1>1, <1>2, AheadFacts DEF Socket, Address
  <1>4. Opposite(n, s.remote)
    BY <1>1, <1>3 DEF Opposite
  <1>5. /\ t \in Socket /\ t.remote = s.remote /\ t.remote_sequence = s.remote_sequence
        /\ t.sequence_number = (s.sequence_number + 1) % SeqMod
    <2>1. (s.sequence_number + 1) % SeqMod \in SeqNum
      BY <1>3, SeqStep DEF Socket
    <2> QED
      BY <1>3, <2>1 DEF AfterSyn, Socket, ConnectionState
  <1>6. CountedLines(net, Count(sock))
    BY <1>1, AheadFacts
  <1> QED
    BY <1>1, <1>3, <1>4, <1>5, <1>6, SynAhead DEF ConnectBegin

LEMMA ConnectReturnAhead ==
    ASSUME Ahead, IInv', NEW n \in Clients, ConnectReturn(n)
    PROVE  Ahead'
  <1>1. n \in Node /\ n \notin Servers
    BY DEF Clients
  <1>2. CASE sock[n].state = "SYN_RECVED"
    <2> DEFINE s == sock[n]
               t == [s EXCEPT !.state = "OPEN"]
    <2>1. s \in Socket /\ HasPeer(s) /\ Opposite(n, s.remote)
      BY <1>1, <1>2, AheadFacts, BoardFacts DEF GoodClient, Clients, FacesPeer
    <2>2. AckPacket(n, s).src = n /\ AckPacket(n, s).dst = s.remote
      BY DEF AckPacket, ToRemote
    <2>3. CountedLines(net', Count(sock))
      <3>1. net' = Transmit(net, AckPacket(n, s)) /\ CountedLines(net, Count(sock))
        BY <1>1, <1>2, AheadFacts DEF ConnectReturn
      <3>2. AckPacket(n, s) \in Counted(n, s.remote, Count(sock)[n])
        BY <1>1, <2>1, AckCounted
      <3> QED
        BY <2>2, <3>1, <3>2, CountedTransmit
    <2>4. /\ t \in Socket /\ t.remote = s.remote /\ t.remote_sequence = s.remote_sequence
          /\ t.sequence_number = s.sequence_number
      BY <2>1 DEF Socket, ConnectionState
    <2>5. FacesPeer(n, t) /\ Behind(n, t, Count(sock))
      BY <1>1, <2>1, <2>4, AheadFacts DEF FacesPeer, Behind
    <2>6. sock' = [sock EXCEPT ![n] = t]
      BY <1>2 DEF ConnectReturn
    <2> QED
      BY <1>1, <2>3, <2>4, <2>5, <2>6, Uncounted
  <1>3. CASE sock[n].state # "SYN_RECVED"
    BY <1>1, <1>3, HangUpAhead DEF ConnectReturn
  <1> QED
    BY <1>2, <1>3

LEMMA DeliverAhead ==
    ASSUME Ahead, IInv', NEW m \in Node, NEW n \in Node, Deliver(m, n)
    PROVE  Ahead'
  <1> DEFINE r == <<m, n>>
             s == sock[n]
             p == Head(net[r])
             t == Received(n, s, p)
             count == Count(sock)
  <1>1. /\ r \in Route /\ net[r] # <<>>
        /\ sock' = [sock EXCEPT ![n] = t]
        /\ net' = LinesAfter(net, r, n, s, p)
    BY DEF Route, Deliver
  <1>2. /\ GoodSocket(n, s, call[n]) /\ GoodLines(net) /\ s \in Socket
        /\ CountedLines(net, count) /\ Behind(n, s, count)
    BY AheadFacts, BoardFacts
  <1>3. CountedLines(Consume(net, r), count) /\ p \in Counted(m, n, count[m])
    BY <1>1, <1>2, CountedConsume
  <1>4. /\ FacesPeer(n, t) /\ t.sequence_number = s.sequence_number
        /\ \/ t.remote_sequence = s.remote_sequence
           \/ t.remote_sequence < count[m] /\ Opposite(n, m)
    BY <1>2, <1>3, ReceivedFaces
  <1>5. GoodSocket(n, t, call[n]) /\ t \in Socket
    BY <1>1, <1>2, DeliveryGood DEF GoodSocket
  <1>6. Behind(n, t, count)
    BY <1>2, <1>4 DEF Behind
  <1>7. p.type # "DATA"
    BY <1>3 DEF Counted
  <1>8. CountedLines(net', count)
    BY <1>1, <1>3, <1>7 DEF LinesAfter, Acknowledges
  <1> QED
    BY <1>1, <1>4, <1>5, <1>6, <1>8, Uncounted

LEMMA LoseAhead ==
    ASSUME Ahead, IInv', NEW m \in Node, NEW n \in Node, Lose(m, n)
    PROVE  Ahead'
  <1>1. /\ net[<<m, n>>] # <<>> /\ net' = Consume(net, <<m, n>>)
        /\ sock' = sock
    BY DEF Lose
  <1>2. CountedLines(net', Count(sock))
    BY <1>1, AheadFacts, BoardFacts, CountedConsume
  <1>3. sock' = [sock EXCEPT ![n] = sock[n]]
    BY <1>1 DEF Ahead, IInv
  <1> QED
    BY <1>2, <1>3, AheadFacts, Uncounted

LEMMA AheadStep ==
    ASSUME Recreated = {}, SynsBelowWrap
    PROVE  Ahead /\ [Next]_vars => Ahead'
  <1> SUFFICES ASSUME Ahead, [Next]_vars PROVE Ahead'
    OBVIOUS
  <1>0. IInv'
    BY StepGood, Zenon DEF Ahead
  <1>1. ASSUME NEW n \in Servers, Listen(n) PROVE Ahead'
    BY <1>0, <1>1, SocketAssumption, QuietAhead DEF Listen
  <1>2. ASSUME NEW n \in Servers, AcceptBegin(n) PROVE Ahead'
    BY <1>0, <1>2, AcceptBeginAhead
  <1>3. ASSUME NEW n \in Servers, AcceptReturn(n) PROVE Ahead'
    <2>1. n \in Node
      BY SocketAssumption
    <2>2. CASE sock[n].state = "OPEN"
      <3>1. sock' = [sock EXCEPT ![n] = sock[n]] /\ CountedLines(net', Count(sock))
        BY <1>3, <2>1, <2>2, AheadFacts DEF AcceptReturn, Ahead, IInv
      <3> QED
        BY <1>0, <2>1, <3>1, AheadFacts, Uncounted
    <2>3. CASE sock[n].state # "OPEN"
      BY <1>0, <1>3, <2>1, <2>3, HangUpAhead DEF AcceptReturn
    <2> QED
      BY <2>2, <2>3
  <1>4. ASSUME NEW n \in Servers, AcceptTimeout(n) PROVE Ahead'
    BY <1>0, <1>4, SocketAssumption, HangUpAhead DEF AcceptTimeout
  <1>5. ASSUME NEW n \in Clients, NEW server \in Servers, ConnectBegin(n, server)
        PROVE  Ahead'
    BY <1>0, <1>5, ConnectBeginAhead
  <1>6. ASSUME NEW n \in Clients, ConnectReturn(n) PROVE Ahead'
    BY <1>0, <1>6, ConnectReturnAhead
  <1>7. ASSUME NEW n \in Clients, ConnectTimeout(n) PROVE Ahead'
    BY <1>0, <1>7, QuietAhead DEF ConnectTimeout, Clients
  <1>8. ASSUME NEW n \in Node, Disconnect(n) PROVE Ahead'
    BY <1>0, <1>8, HangUpAhead DEF Disconnect
  <1>9. ASSUME NEW m \in Node, NEW n \in Node, Deliver(m, n) PROVE Ahead'
    BY <1>0, <1>9, DeliverAhead
  <1>10. ASSUME NEW m \in Node, NEW n \in Node, Lose(m, n) PROVE Ahead'
    BY <1>0, <1>10, LoseAhead
  <1>11. ASSUME UNCHANGED vars PROVE Ahead'
    BY <1>0, <1>11 DEF vars, Ahead, FacesPeer, Behind, CountedLines, Count
  <1> QED
    BY <1>1, <1>2, <1>3, <1>4, <1>5, <1>6, <1>7, <1>8, <1>9, <1>10, <1>11 DEF Next

(* Nobody is connected out of nothing: as long as SYNs stay below the wrap of
   the counter, every number a socket has adopted is that of a SYN which a
   socket of the other role has sent and counted, for any number of boards,
   retries and losses, when no socket is started anew.                      *)
THEOREM NumbersLieBehind ==
    ASSUME Recreated = {}
    PROVE  Spec => []PeerIsAhead
  <1>1. CASE SynsBelowWrap
    <2>1. Ahead => PeerIsAhead
      <3> SUFFICES ASSUME Ahead PROVE PeerIsAhead
        OBVIOUS
      <3>1. ASSUME NEW n \in Node, sock[n].remote_sequence # Undef
            PROVE  \E m \in Node : /\ Opposite(n, m)
                                   /\ sock[n].remote_sequence < sock[m].sequence_number
        BY <3>1, AheadFacts DEF Behind, Count
      <3>2. \A n \in Clients : n \in Node /\ n \notin Servers
        BY DEF Clients
      <3>3. \A n \in Servers : n \in Node
        BY SocketAssumption
      <3> QED
        BY <3>1, <3>2, <3>3 DEF PeerIsAhead, Opposite, Clients
    <2>2. Ahead /\ [Next]_vars => Ahead'
      BY <1>1, AheadStep
    <2> QED
      BY AheadInit, <2>1, <2>2, PTL DEF Spec
  <1>2. CASE ~SynsBelowWrap
    <2>1. PeerIsAhead
      BY <1>2 DEF PeerIsAhead
    <2> QED
      BY <2>1, PTL
  <1> QED
    BY <1>1, <1>2
=============================================================================
