---------------------------- MODULE StreamProofs ----------------------------
(***************************************************************************)
(* The type invariant of Stream, for any lengths of messages and bursts,   *)
(* any ring, line capacity, losses and number of connections; and why      *)
(* ConnectedExchange fails: as long as the sequence numbers stay below the *)
(* wrap, no frame of data is taken until a board is reset.                 *)
(*                                                                         *)
(* The number that the receiver has adopted came in a SYN, which was       *)
(* counted when it was sent, so it is behind the sender's counter.  write  *)
(* numbers its first frame one beyond the counter, so it is never the      *)
(* successor of what was adopted; and a SYN that the receiver has yet to   *)
(* adopt is only followed, on the same line, by frames that were numbered  *)
(* after it was counted.  Nothing is taken, so every ACK is behind the     *)
(* counter too, and no burst ever advances it.                             *)
(*                                                                         *)
(* The types are those of ConnectionProofs, whose steps are also steps of  *)
(* Stream; to them come the locals of write and the numbers of the frames. *)
(***************************************************************************)
EXTENDS Stream, TLAPS

Forward == <<Sender, Receiver>>
Back    == <<Receiver, Sender>>

(* A socket and a packet, as far as the argument needs their types. *)
PlainSocket ==
    [state : ConnectionState, remote : Address, remote_port : Nat \cup {Undef},
     remote_sequence : SeqNum \cup {Undef}, sequence_number : SeqNum,
     last_recved_ack : SeqNum \cup {Undef}, zero_read_count : Nat, ringbuf : Seq(Nat)]

PlainPacket ==
    { p \in [type : MessageType, src : Node, dst : Address, port : Nat \cup {Undef},
             seq : SeqNum \cup {Undef}, arg : Nat] : p.type # "ACK" => p.seq \in SeqNum }

(* What a socket satisfies whatever the other one does. *)
Sane(n, s) ==
    /\ s \in PlainSocket /\ s.remote # n
    /\ s.state \in {"SYN_RECVED", "PENDING", "OPEN"} => s.remote_sequence # Undef

(* The lines: nobody sends to himself, and a packet tells its sender. *)
PlainLines(lines) ==
    /\ lines \in [Route -> Seq(PlainPacket)]
    /\ \A n \in Node : lines[<<n, n>>] = <<>>
    /\ \A m, n \in Node : \A i \in DOMAIN lines[<<m, n>>] : lines[<<m, n>>][i].src = m

(* No frame among the packets of f follows heard. *)
NoneFollows(f, heard) ==
    \A j \in DOMAIN f : f[j].type = "DATA" => heard + 1 < f[j].seq

(* The line to the receiver, whose sender has counted up to count. *)
ForwardApart(f, count) ==
    /\ \A i \in DOMAIN f : f[i].type = "SYN" => f[i].seq < count
    /\ \A i, j \in DOMAIN f :
          i < j /\ f[i].type = "SYN" /\ f[j].type = "DATA" => f[i].seq + 1 < f[j].seq

(* The line back. *)
BackApart(b, count) ==
    \A i \in DOMAIN b :
        /\ b[i].type # "DATA"
        /\ b[i].type = "ACK" => b[i].seq \in Nat /\ b[i].seq < count

(* What the receiver has heard is behind the counter and no frame follows it. *)
HeardApart(s, f, count) ==
    s.remote_sequence # Undef => s.remote_sequence < count /\ NoneFollows(f, s.remote_sequence)

(* The sender's counter leaves room for a burst, and no ACK has reached it. *)
CounterApart(s) ==
    /\ s.sequence_number + BurstSz < SeqMod
    /\ s.last_recved_ack \in Nat /\ s.last_recved_ack < s.sequence_number

(* Sockets and lines together. *)
Apart(sk, lines) ==
    LET count == sk[Sender].sequence_number
    IN  /\ DOMAIN sk = Node
        /\ \A n \in Node : Sane(n, sk[n])
        /\ PlainLines(lines)
        /\ ForwardApart(lines[Forward], count)
        /\ BackApart(lines[Back], count)
        /\ HeardApart(sk[Receiver], lines[Forward], count)
        /\ CounterApart(sk[Sender])
        /\ sk[Receiver].ringbuf = <<>>

(* The locals of write. *)
GoodWrite ==
    /\ w \in [active : BOOLEAN, len : Nat, pos : Nat, n : 0 .. BurstSz,
              sent : 0 .. BurstSz, noack : Nat]
    /\ w.pos <= w.len
    /\ offered \in Nat

IInv == Apart(sock, net) /\ GoodWrite /\ got = <<>>

Unreset == resets \in Nat /\ (resets = 0 => IInv)

-----------------------------------------------------------------------------
(* Facts of the constants.                                                  *)
LEMMA Boards ==
    /\ Sender \in Node /\ Receiver \in Node /\ Sender # Receiver
    /\ \A n \in Node : n = Sender \/ n = Receiver
    /\ Forward \in Route /\ Back \in Route /\ Forward # Back
    /\ \A m, n \in Node : <<m, n>> \in Route
    /\ \A n \in Node : <<n, n>> # Forward /\ <<n, n>> # Back
  BY StreamAssumption DEF Forward, Back, Route

LEMMA Sizes ==
    /\ SeqMod \in Nat /\ SeqMod > 2 /\ BurstSz \in Nat /\ BurstSz > 0
    /\ SeqNum \subseteq Nat /\ Undef \notin Nat /\ LineCap \in Nat
  BY StreamAssumption, SocketAssumption, LineCapAssumption DEF SeqNum

-----------------------------------------------------------------------------
(* Lines.                                                                   *)

(* What a packet must satisfy that board n puts on the line. *)
MaySend(n, count, p) ==
    /\ p \in PlainPacket /\ p.src = n /\ p.dst # n
    /\ n = Sender => /\ p.type = "SYN" => p.seq < count
                     /\ p.type = "DATA" => count < p.seq
    /\ n = Receiver => /\ p.type # "DATA"
                       /\ p.type = "ACK" => p.seq \in Nat /\ p.seq < count

LEMMA PlainTransmit ==
    ASSUME NEW lines, PlainLines(lines), NEW p \in PlainPacket, p.dst # p.src
    PROVE  PlainLines(Transmit(lines, p))
  <1> DEFINE new == Transmit(lines, p)
  <1>1. \A r \in Route : new[r] = IF r = <<p.src, p.dst>> /\ Len(lines[r]) < LineCap
                                  THEN Append(lines[r], p) ELSE lines[r]
    BY DEF Transmit
  <1>2. \A r \in Route : lines[r] \in Seq(PlainPacket)
    BY DEF PlainLines
  <1>3. new \in [Route -> Seq(PlainPacket)]
    <2>1. ASSUME NEW r \in Route PROVE new[r] \in Seq(PlainPacket)
      <3>1. /\ lines[r] \in Seq(PlainPacket)
            /\ new[r] = Append(lines[r], p) \/ new[r] = lines[r]
        BY <1>1, <1>2
      <3> QED
        BY <3>1
    <2> QED
      BY <2>1 DEF Transmit
  <1>4. ASSUME NEW n \in Node PROVE new[<<n, n>>] = <<>>
    <2>1. <<n, n>> \in Route /\ <<n, n>> # <<p.src, p.dst>> /\ lines[<<n, n>>] = <<>>
      BY Boards DEF PlainLines
    <2> QED
      BY <2>1, <1>1
  <1>5. ASSUME NEW m \in Node, NEW n \in Node, NEW i \in DOMAIN new[<<m, n>>]
        PROVE  new[<<m, n>>][i].src = m
    <2> DEFINE r == <<m, n>>
    <2>1. r \in Route /\ lines[r] \in Seq(PlainPacket)
      BY <1>2, Boards
    <2>2. CASE r = <<p.src, p.dst>> /\ Len(lines[r]) < LineCap
      <3>1. new[r] = Append(lines[r], p) /\ p.src = m
        BY <1>1, <2>1, <2>2
      <3>2. CASE i = Len(lines[r]) + 1
        BY <3>1, <3>2, <2>1
      <3>3. CASE i # Len(lines[r]) + 1
        <4>1. i \in DOMAIN lines[r] /\ new[r][i] = lines[r][i]
          BY <3>1, <3>3, <2>1
        <4> QED
          BY <4>1 DEF PlainLines
      <3> QED
        BY <3>2, <3>3
    <2>3. CASE ~(r = <<p.src, p.dst>> /\ Len(lines[r]) < LineCap)
      BY <1>1, <2>1, <2>3 DEF PlainLines
    <2> QED
      BY <2>2, <2>3
  <1> QED
    BY <1>3, <1>4, <1>5 DEF PlainLines

(* A packet that may be sent keeps sockets and lines apart. *)
LEMMA SendApart ==
    ASSUME NEW sk, NEW lines, Apart(sk, lines), NEW n \in Node, NEW p,
           MaySend(n, sk[Sender].sequence_number, p)
    PROVE  Apart(sk, Transmit(lines, p))
  <1> DEFINE count == sk[Sender].sequence_number
             new == Transmit(lines, p)
             f == lines[Forward]
             b == lines[Back]
  <1>1. PlainLines(new)
    BY PlainTransmit DEF Apart, MaySend
  <1>2. /\ f \in Seq(PlainPacket) /\ b \in Seq(PlainPacket)
        /\ count \in Nat
        /\ p.src = n /\ p.type = "DATA" => p.seq \in Nat
    BY Boards, Sizes DEF Apart, PlainLines, Sane, PlainSocket, MaySend, PlainPacket
  <1>3. \/ new[Forward] = f
        \/ new[Forward] = Append(f, p) /\ n = Sender
    BY Boards DEF Transmit, MaySend, Forward
  <1>4. \/ new[Back] = b
        \/ new[Back] = Append(b, p) /\ n = Receiver
    BY Boards DEF Transmit, MaySend, Back
  <1>5. ForwardApart(new[Forward], count)
    <2>1. CASE new[Forward] = Append(f, p) /\ n = Sender
      <3> DEFINE g == Append(f, p)
      <3>1. /\ DOMAIN g = DOMAIN f \cup {Len(f) + 1} /\ g[Len(f) + 1] = p
            /\ \A i \in DOMAIN f : g[i] = f[i] /\ i \in Nat /\ i < Len(f) + 1
        BY <1>2
      <3>2. \A i \in DOMAIN f : f[i].type = "SYN" => f[i].seq \in Nat
        <4>1. \A i \in DOMAIN f : f[i] \in PlainPacket
          BY <1>2
        <4>2. \A q \in PlainPacket : q.type = "SYN" => q.seq \in Nat
          BY Sizes DEF PlainPacket
        <4> QED
          BY <4>1, <4>2
      <3>3. \A i \in DOMAIN g : g[i].type = "SYN" => g[i].seq < count
        BY <2>1, <3>1 DEF Apart, ForwardApart, MaySend
      <3>4. ASSUME NEW i \in DOMAIN g, NEW j \in DOMAIN g, i < j,
                   g[i].type = "SYN", g[j].type = "DATA"
            PROVE  g[i].seq + 1 < g[j].seq
        <4>1. i \in DOMAIN f /\ g[i] = f[i]
          BY <3>1, <3>4, <1>2
        <4>2. CASE j \in DOMAIN f
          BY <4>1, <4>2, <3>1, <3>4 DEF Apart, ForwardApart
        <4>3. CASE j = Len(f) + 1
          <5>1. g[j] = p /\ p.type = "DATA" /\ count < p.seq /\ p.seq \in Nat
            BY <2>1, <3>1, <3>4, <4>3, <1>2 DEF MaySend
          <5>2. f[i].seq \in Nat /\ f[i].seq < count
            BY <4>1, <3>2, <3>4 DEF Apart, ForwardApart
          <5> QED
            BY <4>1, <5>1, <5>2, <1>2
        <4> QED
          BY <3>1, <4>2, <4>3
      <3> QED
        BY <2>1, <3>3, <3>4 DEF ForwardApart
    <2>2. CASE new[Forward] = f
      BY <2>2 DEF Apart
    <2> QED
      BY <1>3, <2>1, <2>2
  <1>6. BackApart(new[Back], count)
    <2>1. CASE new[Back] = Append(b, p) /\ n = Receiver
      <3> DEFINE g == Append(b, p)
      <3>1. /\ DOMAIN g = DOMAIN b \cup {Len(b) + 1} /\ g[Len(b) + 1] = p
            /\ \A i \in DOMAIN b : g[i] = b[i]
        BY <1>2
      <3>2. BackApart(b, count)
        BY DEF Apart
      <3> QED
        BY <2>1, <3>1, <3>2 DEF BackApart, MaySend
    <2>2. CASE new[Back] = b
      BY <2>2 DEF Apart
    <2> QED
      BY <1>4, <2>1, <2>2
  <1>7. HeardApart(sk[Receiver], new[Forward], count)
    <2> DEFINE heard == sk[Receiver].remote_sequence
    <2>1. CASE new[Forward] = Append(f, p) /\ n = Sender /\ heard # Undef
      <3> DEFINE g == Append(f, p)
      <3>1. /\ DOMAIN g = DOMAIN f \cup {Len(f) + 1} /\ g[Len(f) + 1] = p
            /\ \A i \in DOMAIN f : g[i] = f[i]
        BY <1>2
      <3>2. heard < count /\ NoneFollows(f, heard) /\ heard \in Nat
        BY <2>1, Boards, Sizes DEF Apart, HeardApart, Sane, PlainSocket
      <3>3. p.type = "DATA" => heard + 1 < p.seq
        BY <1>2, <2>1, <3>2 DEF MaySend
      <3> QED
        BY <2>1, <3>1, <3>2, <3>3 DEF HeardApart, NoneFollows
    <2>2. CASE new[Forward] = f \/ heard = Undef
      BY <2>2 DEF Apart, HeardApart
    <2> QED
      BY <1>3, <2>1, <2>2
  <1> QED
    BY <1>1, <1>5, <1>6, <1>7 DEF Apart

(* The oldest packet of a line leaves it. *)
LEMMA PlainConsume ==
    ASSUME NEW lines, PlainLines(lines), NEW m \in Node, NEW n \in Node,
           lines[<<m, n>>] # <<>>
    PROVE  LET r == <<m, n>> new == Consume(lines, r)
           IN  /\ PlainLines(new)
               /\ new[r] = Tail(lines[r]) /\ \A k \in Route \ {r} : new[k] = lines[k]
               /\ m # n /\ Head(lines[r]) \in PlainPacket /\ Head(lines[r]).src = m
  <1> DEFINE r == <<m, n>>
             new == Consume(lines, r)
  <1>1. r \in Route /\ lines[r] \in Seq(PlainPacket) /\ DOMAIN lines = Route
    BY Boards DEF PlainLines
  <1>2. new[r] = Tail(lines[r]) /\ \A k \in Route \ {r} : new[k] = lines[k]
    BY <1>1 DEF Consume
  <1>3. m # n
    BY DEF PlainLines
  <1>4. /\ Head(lines[r]) \in PlainPacket /\ Head(lines[r]) = lines[r][1]
        /\ 1 \in DOMAIN lines[r]
        /\ Tail(lines[r]) \in Seq(PlainPacket)
        /\ \A i \in DOMAIN Tail(lines[r]) :
              i + 1 \in DOMAIN lines[r] /\ Tail(lines[r])[i] = lines[r][i + 1]
    BY <1>1
  <1>5. Head(lines[r]).src = m
    BY <1>4 DEF PlainLines
  <1>6. new \in [Route -> Seq(PlainPacket)]
    <2>1. \A k \in Route : new[k] \in Seq(PlainPacket)
      BY <1>2, <1>4 DEF PlainLines
    <2> QED
      BY <2>1, <1>1 DEF Consume
  <1>7. \A k \in Node : new[<<k, k>>] = <<>>
    BY <1>2, <1>3, Boards DEF PlainLines
  <1>8. ASSUME NEW k \in Node, NEW l \in Node, NEW i \in DOMAIN new[<<k, l>>]
        PROVE  new[<<k, l>>][i].src = k
    <2>1. CASE <<k, l>> = r
      <3>1. k = m /\ l = n /\ new[<<k, l>>] = Tail(lines[r])
        BY <2>1, <1>2
      <3>2. i + 1 \in DOMAIN lines[r] /\ new[<<k, l>>][i] = lines[r][i + 1]
        BY <3>1, <1>4
      <3> QED
        BY <3>1, <3>2 DEF PlainLines
    <2>2. CASE <<k, l>> # r
      <3>1. <<k, l>> \in Route \ {r} /\ new[<<k, l>>] = lines[<<k, l>>]
        BY <2>2, <1>2, Boards
      <3> QED
        BY <3>1 DEF PlainLines
    <2> QED
      BY <2>1, <2>2
  <1> QED
    BY <1>2, <1>3, <1>4, <1>5, <1>6, <1>7, <1>8 DEF PlainLines

(* What is known of the packet p that board n takes from the line and of what
   comes after it.                                                          *)
Taken(sk, lines, n, p) ==
    LET count == sk[Sender].sequence_number
    IN  /\ p \in PlainPacket /\ p.src # n
        /\ n = Sender => /\ p.type # "DATA"
                         /\ p.type = "ACK" => p.seq \in Nat /\ p.seq < count
        /\ n = Receiver =>
              /\ p.type = "SYN" => p.seq < count /\ NoneFollows(lines[Forward], p.seq)
              /\ p.type = "DATA" /\ sk[Receiver].remote_sequence # Undef =>
                    sk[Receiver].remote_sequence + 1 < p.seq

LEMMA ConsumeApart ==
    ASSUME NEW sk, NEW lines, Apart(sk, lines), NEW m \in Node, NEW n \in Node,
           lines[<<m, n>>] # <<>>
    PROVE  LET r == <<m, n>>
           IN  /\ Apart(sk, Consume(lines, r))
               /\ Head(lines[r]).src = m
               /\ Taken(sk, Consume(lines, r), n, Head(lines[r]))
  <1> DEFINE r == <<m, n>>
             new == Consume(lines, r)
             p == Head(lines[r])
             q == Tail(lines[r])
             count == sk[Sender].sequence_number
  <1>1. /\ PlainLines(new) /\ new[r] = q /\ \A k \in Route \ {r} : new[k] = lines[k]
        /\ m # n /\ p \in PlainPacket /\ p.src = m
    BY PlainConsume DEF Apart
  <1>2. lines[r] \in Seq(PlainPacket)
    BY Boards DEF Apart, PlainLines
  <1>3. /\ p = lines[r][1] /\ 1 \in DOMAIN lines[r]
        /\ \A i \in DOMAIN q : /\ i \in Nat /\ i + 1 \in Nat /\ 1 < i + 1
                               /\ i + 1 \in DOMAIN lines[r] /\ q[i] = lines[r][i + 1]
    BY <1>2
  <1>4. CASE n = Receiver
    <2>1. r = Forward /\ new[Forward] = q /\ new[Back] = lines[Back]
      BY <1>1, <1>4, Boards DEF Forward, Back
    <2>2. /\ ForwardApart(lines[r], count)
          /\ HeardApart(sk[Receiver], lines[r], count)
      BY <2>1 DEF Apart
    <2>3. ForwardApart(q, count)
      <3>1. \A i \in DOMAIN q : q[i].type = "SYN" => q[i].seq < count
        BY <1>3, <2>2 DEF ForwardApart
      <3>2. ASSUME NEW i \in DOMAIN q, NEW j \in DOMAIN q, i < j,
                   q[i].type = "SYN", q[j].type = "DATA"
            PROVE  q[i].seq + 1 < q[j].seq
        <4>1. /\ i + 1 \in DOMAIN lines[r] /\ j + 1 \in DOMAIN lines[r] /\ i + 1 < j + 1
              /\ q[i] = lines[r][i + 1] /\ q[j] = lines[r][j + 1]
          BY <1>3, <3>2
        <4> QED
          BY <3>2, <4>1, <2>2 DEF ForwardApart
      <3> QED
        BY <3>1, <3>2 DEF ForwardApart
    <2>4. HeardApart(sk[Receiver], q, count)
      BY <1>3, <2>2 DEF HeardApart, NoneFollows
    <2>5. p.type = "SYN" => p.seq < count /\ NoneFollows(q, p.seq)
      BY <1>3, <2>2 DEF ForwardApart, NoneFollows
    <2>6. p.type = "DATA" /\ sk[Receiver].remote_sequence # Undef =>
              sk[Receiver].remote_sequence + 1 < p.seq
      BY <1>3, <2>2 DEF HeardApart, NoneFollows
    <2> QED
      BY <1>1, <1>4, <2>1, <2>3, <2>4, <2>5, <2>6, Boards DEF Apart, Taken
  <1>5. CASE n = Sender
    <2>1. r = Back /\ new[Back] = q /\ new[Forward] = lines[Forward]
      BY <1>1, <1>5, Boards DEF Forward, Back
    <2>2. BackApart(lines[r], count)
      BY <2>1 DEF Apart
    <2>3. BackApart(q, count)
      BY <1>3, <2>2 DEF BackApart
    <2>4. p.type # "DATA" /\ (p.type = "ACK" => p.seq \in Nat /\ p.seq < count)
      BY <1>3, <2>2 DEF BackApart
    <2> QED
      BY <1>1, <1>5, <2>1, <2>3, <2>4, Boards DEF Apart, Taken
  <1> QED
    BY <1>4, <1>5, Boards

(* A socket changes, and its counter does not fall. *)
LEMMA ChangeApart ==
    ASSUME NEW sk, NEW lines, Apart(sk, lines), NEW n \in Node, NEW t, Sane(n, t),
           t.sequence_number >= sk[n].sequence_number,
           n = Sender => CounterApart(t),
           n = Receiver => /\ HeardApart(t, lines[Forward], sk[Sender].sequence_number)
                           /\ t.ringbuf = <<>>
    PROVE  Apart([sk EXCEPT ![n] = t], lines)
  <1> DEFINE new == [sk EXCEPT ![n] = t]
             f == lines[Forward]
             b == lines[Back]
             count == sk[Sender].sequence_number
  <1>1. /\ DOMAIN new = Node /\ new[n] = t
        /\ \A k \in Node \ {n} : new[k] = sk[k]
    BY DEF Apart
  <1>2. \A k \in Node : Sane(k, new[k])
    BY <1>1 DEF Apart
  <1>3. CASE n = Receiver
    <2>1. new[Sender] = sk[Sender] /\ new[Receiver] = t
      BY <1>1, <1>3, Boards
    <2> QED
      BY <1>1, <1>2, <1>3, <2>1 DEF Apart
  <1>4. CASE n = Sender
    <2>1. new[Sender] = t /\ new[Receiver] = sk[Receiver]
      BY <1>1, <1>4, Boards
    <2>2. count \in Nat /\ t.sequence_number \in Nat /\ count <= t.sequence_number
      BY <1>4, Boards, Sizes DEF Apart, Sane, PlainSocket
    <2>3. ForwardApart(f, t.sequence_number)
      <3>1. ForwardApart(f, count)
        BY DEF Apart
      <3>2. ASSUME NEW i \in DOMAIN f, f[i].type = "SYN"
            PROVE  f[i].seq < t.sequence_number
        <4>1. f[i] \in PlainPacket
          BY Boards DEF Apart, PlainLines
        <4>2. f[i].seq \in Nat
          BY <4>1, <3>2, Sizes DEF PlainPacket
        <4>3. f[i].seq < count
          BY <3>1, <3>2 DEF ForwardApart
        <4> QED
          BY <2>2, <4>2, <4>3
      <3> QED
        BY <3>1, <3>2 DEF ForwardApart
    <2>4. BackApart(b, t.sequence_number)
      <3>1. BackApart(b, count)
        BY DEF Apart
      <3> QED
        BY <3>1, <2>2 DEF BackApart
    <2>5. HeardApart(sk[Receiver], f, t.sequence_number)
      <3>1. HeardApart(sk[Receiver], f, count)
        BY DEF Apart
      <3>2. sk[Receiver].remote_sequence # Undef => sk[Receiver].remote_sequence \in Nat
        BY Boards, Sizes DEF Apart, Sane, PlainSocket
      <3> QED
        BY <3>1, <3>2, <2>2 DEF HeardApart
    <2> QED
      BY <1>1, <1>2, <1>4, <2>1, <2>3, <2>4, <2>5, Boards DEF Apart
  <1> QED
    BY <1>3, <1>4, Boards

-----------------------------------------------------------------------------
(* The handlers.                                                            *)

(* What a handler makes of a packet, unless it takes a frame. *)
LEMMA Outcomes ==
    ASSUME NEW n \in Node, NEW s \in PlainSocket, NEW p \in PlainPacket,
           s.state = "OPEN" /\ p.type = "DATA" =>
               p.seq # NextForServer(s) /\ p.seq # NextForClient(s)
    PROVE  LET d == Dispatched(s, p)
               t == Received(n, s, p)
           IN  \/ t = d
               \/ t = [d EXCEPT !.state = "CLOSED"]
               \/ d.state = "PENDING" /\ t = [d EXCEPT !.state = "OPEN"]
               \/ p.type = "ACK" /\ t = [d EXCEPT !.last_recved_ack = p.seq]
               \/ p.type = "SYN" /\ t = AdoptPeer(d, p.src, p)
               \/ /\ p.type = "SYN"
                  /\ t = [d EXCEPT !.remote_sequence = p.seq, !.state = "SYN_RECVED"]
  <1> DEFINE d == Dispatched(s, p)
             t == Received(n, s, p)
  <1>1. d.state = s.state /\ d.remote = p.src /\ d.remote_sequence = s.remote_sequence
    BY DEF Dispatched, PlainSocket
  <1>2. CASE d.state = "OPEN"
    <2>1. t = OpenOnData(d, p, NextForServer(d)) \/ t = OpenOnData(d, p, NextForClient(d))
      BY <1>1, <1>2 DEF Received, ServerOnData, ClientOnData
    <2>2. NextForServer(d) = NextForServer(s) /\ NextForClient(d) = NextForClient(s)
      BY <1>1 DEF NextForServer, NextForClient
    <2>3. ~(p.type = "DATA" /\ p.seq \in {NextForServer(d), NextForClient(d)})
      BY <1>1, <1>2, <2>2
    <2>4. ASSUME NEW next, ~(p.type = "DATA" /\ p.seq = next)
          PROVE  \/ OpenOnData(d, p, next) = d
                 \/ OpenOnData(d, p, next) = [d EXCEPT !.state = "CLOSED"]
                 \/ /\ p.type = "ACK"
                    /\ OpenOnData(d, p, next) = [d EXCEPT !.last_recved_ack = p.seq]
      BY <2>4 DEF OpenOnData
    <2> QED
      BY <2>1, <2>3, <2>4
  <1>3. CASE d.state # "OPEN" /\ n \in Servers
    <2>1. t = ServerOnData(d, p.src, p)
      BY <1>3 DEF Received
    <2> QED
      BY <1>1, <1>3, <2>1 DEF ServerOnData
  <1>4. CASE d.state # "OPEN" /\ n \notin Servers
    <2>1. t = ClientOnData(d, p.src, p)
      BY <1>4 DEF Received
    <2> QED
      BY <1>1, <1>4, <2>1 DEF ClientOnData
  <1> QED
    BY <1>2, <1>3, <1>4

(* What a handler makes of any packet. *)
LEMMA AnyOutcome ==
    ASSUME NEW n \in Node, NEW s \in PlainSocket, NEW p \in PlainPacket
    PROVE  LET d == Dispatched(s, p)
               t == Received(n, s, p)
           IN  \/ t = d
               \/ t = [d EXCEPT !.state = "CLOSED"]
               \/ d.state = "PENDING" /\ t = [d EXCEPT !.state = "OPEN"]
               \/ p.type = "ACK" /\ t = [d EXCEPT !.last_recved_ack = p.seq]
               \/ p.type = "SYN" /\ t = AdoptPeer(d, p.src, p)
               \/ /\ p.type = "SYN"
                  /\ t = [d EXCEPT !.remote_sequence = p.seq, !.state = "SYN_RECVED"]
               \/ /\ s.state = "OPEN" /\ p.type = "DATA" /\ t = Accept(d, p)
                  /\ p.seq \in {NextForServer(s), NextForClient(s)}
  <1> DEFINE d == Dispatched(s, p)
             t == Received(n, s, p)
  <1>1. CASE s.state = "OPEN" /\ p.type = "DATA"
    <2>1. d.state = "OPEN" /\ d.remote = p.src /\ d.remote_sequence = s.remote_sequence
      BY <1>1 DEF Dispatched, PlainSocket
    <2>2. t = OpenOnData(d, p, NextForServer(s)) \/ t = OpenOnData(d, p, NextForClient(s))
      BY <2>1 DEF Received, ServerOnData, ClientOnData, NextForServer, NextForClient
    <2>3. ASSUME NEW next
          PROVE  \/ OpenOnData(d, p, next) = d
                 \/ OpenOnData(d, p, next) = Accept(d, p) /\ p.seq = next
      BY <1>1, <2>3 DEF OpenOnData
    <2> QED
      BY <1>1, <2>2, <2>3
  <1>2. CASE ~(s.state = "OPEN" /\ p.type = "DATA")
    <2>1. s.state = "OPEN" /\ p.type = "DATA" =>
              p.seq # NextForServer(s) /\ p.seq # NextForClient(s)
      BY <1>2
    <2>2. \/ t = d
          \/ t = [d EXCEPT !.state = "CLOSED"]
          \/ d.state = "PENDING" /\ t = [d EXCEPT !.state = "OPEN"]
          \/ p.type = "ACK" /\ t = [d EXCEPT !.last_recved_ack = p.seq]
          \/ p.type = "SYN" /\ t = AdoptPeer(d, p.src, p)
          \/ /\ p.type = "SYN"
             /\ t = [d EXCEPT !.remote_sequence = p.seq, !.state = "SYN_RECVED"]
      BY <2>1, Outcomes, ZenonT(60)
    <2> QED
      BY <2>2
  <1> QED
    BY <1>1, <1>2

(* The frame that an open socket is handed is not the next one. *)
LEMMA NotNext ==
    ASSUME NEW sk, NEW lines, Apart(sk, lines), NEW n \in Node, NEW p, Taken(sk, lines, n, p),
           sk[n].state = "OPEN", p.type = "DATA"
    PROVE  /\ n = Receiver /\ sk[n].remote_sequence \in Nat
           /\ sk[n].remote_sequence < sk[Sender].sequence_number
           /\ p.seq # NextForServer(sk[n]) /\ p.seq # NextForClient(sk[n])
  <1> DEFINE heard == sk[n].remote_sequence
             count == sk[Sender].sequence_number
  <1>1. n = Receiver
    BY Boards DEF Taken
  <1>2. heard \in Nat /\ heard # Undef
    BY Boards, Sizes DEF Apart, Sane, PlainSocket
  <1>3. /\ heard < count /\ count \in Nat /\ count + BurstSz < SeqMod
        /\ heard + 1 < p.seq
    BY <1>1, <1>2, Boards, Sizes DEF Apart, HeardApart, CounterApart, Taken, Sane, PlainSocket
  <1>4. heard + 1 \in 0 .. SeqMod - 1
    BY <1>2, <1>3, Sizes
  <1>5. (heard + 1) % SeqMod = heard + 1
    BY <1>4, Sizes
  <1>6. p.seq \in Nat
    BY Sizes DEF Taken, PlainPacket
  <1> QED
    BY <1>1, <1>2, <1>3, <1>5, <1>6 DEF NextForServer, NextForClient

(* A packet taken from the line leaves the socket apart from the lines, and so
   does the ACK that it is answered with.                                   *)
LEMMA ReceivedApart ==
    ASSUME NEW sk, NEW lines, Apart(sk, lines), NEW n \in Node, NEW p, Taken(sk, lines, n, p)
    PROVE  LET t == Received(n, sk[n], p)
               count == sk[Sender].sequence_number
           IN  /\ Sane(n, t) /\ t.sequence_number = sk[n].sequence_number
               /\ n = Sender => CounterApart(t)
               /\ n = Receiver => HeardApart(t, lines[Forward], count) /\ t.ringbuf = <<>>
               /\ Acknowledges(sk[n], p) => MaySend(n, count, AckPacket(n, t))
  <1> DEFINE s == sk[n]
             d == Dispatched(s, p)
             t == Received(n, s, p)
             count == sk[Sender].sequence_number
             f == lines[Forward]
  <1>1. /\ Sane(n, s) /\ s \in PlainSocket /\ p \in PlainPacket /\ p.src \in Node /\ p.src # n
        /\ n = Sender => CounterApart(s)
        /\ n = Receiver => HeardApart(s, f, count) /\ s.ringbuf = <<>>
    BY DEF Apart, Sane, Taken, PlainPacket
  <1>2. /\ d \in PlainSocket /\ d.remote = p.src /\ d.state = s.state
        /\ d.remote_sequence = s.remote_sequence /\ d.sequence_number = s.sequence_number
        /\ d.last_recved_ack = s.last_recved_ack /\ d.ringbuf = s.ringbuf
    BY <1>1 DEF Dispatched, PlainSocket, Address
  <1>3. /\ Sane(n, d)
        /\ n = Sender => CounterApart(d)
        /\ n = Receiver => HeardApart(d, f, count) /\ d.ringbuf = <<>>
    BY <1>1, <1>2 DEF Sane, CounterApart, HeardApart
  <1>4. \/ t = d
        \/ t = [d EXCEPT !.state = "CLOSED"]
        \/ d.state = "PENDING" /\ t = [d EXCEPT !.state = "OPEN"]
        \/ p.type = "ACK" /\ t = [d EXCEPT !.last_recved_ack = p.seq]
        \/ p.type = "SYN" /\ t = AdoptPeer(d, p.src, p)
        \/ /\ p.type = "SYN"
           /\ t = [d EXCEPT !.remote_sequence = p.seq, !.state = "SYN_RECVED"]
    <2>1. s.state = "OPEN" /\ p.type = "DATA" =>
              p.seq # NextForServer(s) /\ p.seq # NextForClient(s)
      BY NotNext
    <2> QED
      BY <1>1, <2>1, Outcomes, ZenonT(40)
  <1> DEFINE Fit(x) == /\ Sane(n, x) /\ x.sequence_number = s.sequence_number
                       /\ n = Sender => CounterApart(x)
                       /\ n = Receiver => HeardApart(x, f, count) /\ x.ringbuf = <<>>
  <1>5. ASSUME t = d PROVE Fit(t)
    BY <1>2, <1>3, <1>5
  <1>6. ASSUME t = [d EXCEPT !.state = "CLOSED"] PROVE Fit(t)
    <2>1. /\ t \in PlainSocket /\ t.state = "CLOSED" /\ t.remote = d.remote
          /\ t.remote_sequence = d.remote_sequence /\ t.sequence_number = d.sequence_number
          /\ t.last_recved_ack = d.last_recved_ack /\ t.ringbuf = d.ringbuf
      BY <1>2, <1>6 DEF PlainSocket, ConnectionState
    <2> QED
      BY <1>2, <1>3, <2>1 DEF Sane, CounterApart, HeardApart
  <1>7. ASSUME d.state = "PENDING", t = [d EXCEPT !.state = "OPEN"] PROVE Fit(t)
    <2>1. /\ t \in PlainSocket /\ t.remote = d.remote
          /\ t.remote_sequence = d.remote_sequence /\ t.sequence_number = d.sequence_number
          /\ t.last_recved_ack = d.last_recved_ack /\ t.ringbuf = d.ringbuf
      BY <1>2, <1>7 DEF PlainSocket, ConnectionState
    <2> QED
      BY <1>2, <1>3, <1>7, <2>1 DEF Sane, CounterApart, HeardApart
  <1>8. ASSUME p.type = "ACK", t = [d EXCEPT !.last_recved_ack = p.seq] PROVE Fit(t)
    <2>1. p.seq \in SeqNum \cup {Undef}
      BY <1>1 DEF PlainPacket
    <2>2. /\ t \in PlainSocket /\ t.remote = d.remote /\ t.state = d.state
          /\ t.remote_sequence = d.remote_sequence /\ t.sequence_number = d.sequence_number
          /\ t.last_recved_ack = p.seq /\ t.ringbuf = d.ringbuf
      BY <1>2, <1>8, <2>1 DEF PlainSocket
    <2>3. n = Sender => p.seq \in Nat /\ p.seq < count
      BY <1>8 DEF Taken
    <2> QED
      BY <1>2, <1>3, <2>2, <2>3 DEF Sane, CounterApart, HeardApart
  <1>9. ASSUME p.type = "SYN",
               \/ t = AdoptPeer(d, p.src, p)
               \/ t = [d EXCEPT !.remote_sequence = p.seq, !.state = "SYN_RECVED"]
        PROVE  Fit(t)
    <2>1. p.seq \in SeqNum /\ p.seq # Undef /\ p.arg \in Nat
      BY <1>1, <1>9, Sizes DEF PlainPacket
    <2>2. /\ t \in PlainSocket /\ t.remote = d.remote
          /\ t.remote_sequence = p.seq /\ t.sequence_number = d.sequence_number
          /\ t.last_recved_ack = d.last_recved_ack /\ t.ringbuf = d.ringbuf
      BY <1>1, <1>2, <1>9, <2>1, ZenonT(40) DEF AdoptPeer, PlainSocket, ConnectionState, Address
    <2>3. n = Receiver => p.seq < count /\ NoneFollows(f, p.seq)
      BY <1>9 DEF Taken
    <2> QED
      BY <1>2, <1>3, <2>1, <2>2, <2>3 DEF Sane, CounterApart, HeardApart
  <1>10. Fit(t)
    BY <1>4, <1>5, <1>6, <1>7, <1>8, <1>9
  <1>11. ASSUME Acknowledges(s, p)
         PROVE  MaySend(n, count, AckPacket(n, t))
    <2>1. s.state = "OPEN" /\ p.type = "DATA"
      BY <1>11 DEF Acknowledges
    <2>2. n = Receiver /\ s.remote_sequence \in Nat /\ s.remote_sequence < count
      BY <2>1, NotNext
    <2>3. t.remote_sequence = s.remote_sequence /\ t.remote = p.src
      BY <1>2, <1>4, <2>1 DEF PlainSocket
    <2>4. t \in PlainSocket
      BY <1>10 DEF Sane
    <2> QED
      BY <1>1, <2>2, <2>3, <2>4, Boards
         DEF MaySend, AckPacket, ToRemote, PlainPacket, PlainSocket, MessageType
  <1> QED
    BY <1>10, <1>11

-----------------------------------------------------------------------------
(* The two instances speak of the same sockets, packets and lines.          *)
LEMMA ConnWords ==
    /\ Conn!NewSocket = NewSocket /\ Conn!EmptyLines = EmptyLines
    /\ Conn!Clients = Clients
    /\ \A lines, p : Conn!Transmit(lines, p) = Transmit(lines, p)
    /\ \A lines, r : Conn!Consume(lines, r) = Consume(lines, r)
    /\ \A n, s : Conn!AckPacket(n, s) = AckPacket(n, s)
    /\ \A n, s : Conn!SynPacket(n, s) = SynPacket(n, s)
    /\ \A s : Conn!AfterSyn(s) = AfterSyn(s)
    /\ \A s : Conn!Disconnected(s) = Disconnected(s)
    /\ \A lines, n, s : Conn!LinesAfterDisconnect(lines, n, s) = LinesAfterDisconnect(lines, n, s)
  <1>1. Conn!NewSocket = NewSocket /\ Conn!EmptyLines = EmptyLines /\ Conn!Clients = Clients
    BY DEF Conn!NewSocket, NewSocket, Conn!EmptyLines, EmptyLines, Conn!Route, Route,
           Conn!Clients, Clients
  <1>2. /\ \A lines, p : Conn!Transmit(lines, p) = Transmit(lines, p)
        /\ \A lines, r : Conn!Consume(lines, r) = Consume(lines, r)
    BY DEF Conn!Transmit, Transmit, Conn!Consume, Consume, Conn!Route, Route
  <1>3. /\ \A n, s : Conn!AckPacket(n, s) = AckPacket(n, s)
        /\ \A n, s : Conn!SynPacket(n, s) = SynPacket(n, s)
        /\ \A n, s : Conn!ClosePacket(n, s) = ClosePacket(n, s)
    BY DEF Conn!AckPacket, AckPacket, Conn!SynPacket, SynPacket, Conn!ClosePacket, ClosePacket,
           Conn!ToRemote, ToRemote
  <1>4. /\ \A s : Conn!AfterSyn(s) = AfterSyn(s)
        /\ \A s : Conn!Disconnected(s) = Disconnected(s)
    BY DEF Conn!AfterSyn, AfterSyn, Conn!Disconnected, Disconnected
  <1>5. \A lines, n, s : Conn!LinesAfterDisconnect(lines, n, s) = LinesAfterDisconnect(lines, n, s)
    BY <1>2, <1>3 DEF Conn!LinesAfterDisconnect, LinesAfterDisconnect
  <1> QED
    BY <1>1, <1>2, <1>3, <1>4, <1>5

LEMMA ConnHandlers ==
    /\ \A n, s, p : Conn!Received(n, s, p) = Received(n, s, p)
    /\ \A lines, r, n, s, p : Conn!LinesAfter(lines, r, n, s, p) = LinesAfter(lines, r, n, s, p)
  <1>1. \A s, p : Conn!Accept(s, p) = Accept(s, p)
    BY DEF Conn!Accept, Accept, Conn!RingPut, RingPut
  <1>2. \A s, p, next : Conn!OpenOnData(s, p, next) = OpenOnData(s, p, next)
    BY <1>1 DEF Conn!OpenOnData, OpenOnData
  <1>3. \A s, r, p : Conn!ServerOnData(s, r, p) = ServerOnData(s, r, p)
    BY <1>2 DEF Conn!ServerOnData, ServerOnData, Conn!AdoptPeer, AdoptPeer,
                Conn!NextForServer, NextForServer
  <1>4. \A s, r, p : Conn!ClientOnData(s, r, p) = ClientOnData(s, r, p)
    BY <1>2 DEF Conn!ClientOnData, ClientOnData, Conn!NextForClient, NextForClient
  <1>5. \A n, s, p : Conn!Received(n, s, p) = Received(n, s, p)
    BY <1>3, <1>4 DEF Conn!Received, Received, Conn!Dispatched, Dispatched
  <1> QED
    BY <1>5, ConnWords DEF Conn!LinesAfter, LinesAfter, Conn!Acknowledges, Acknowledges

LEMMA DataWords ==
    /\ \A lines, p : Data!Transmit(lines, p) = Transmit(lines, p)
    /\ \A lines, r : Data!Consume(lines, r) = Consume(lines, r)
    /\ \A n, s, type, seq, arg : Data!ToRemote(n, s, type, seq, arg) = ToRemote(n, s, type, seq, arg)
    /\ \A s : Data!Disconnected(s) = Disconnected(s)
    /\ \A lines, n, s : Data!LinesAfterDisconnect(lines, n, s) = LinesAfterDisconnect(lines, n, s)
  <1>1. /\ \A lines, p : Data!Transmit(lines, p) = Transmit(lines, p)
        /\ \A lines, r : Data!Consume(lines, r) = Consume(lines, r)
    BY DEF Data!Transmit, Transmit, Data!Consume, Consume, Data!Route, Route
  <1>2. \A n, s, type, seq, arg : Data!ToRemote(n, s, type, seq, arg) = ToRemote(n, s, type, seq, arg)
    BY DEF Data!ToRemote, ToRemote
  <1>3. \A n, s : Data!ClosePacket(n, s) = ClosePacket(n, s)
    BY <1>2 DEF Data!ClosePacket, ClosePacket
  <1>4. \A s : Data!Disconnected(s) = Disconnected(s)
    BY DEF Data!Disconnected, Disconnected
  <1> QED
    BY <1>1, <1>2, <1>3, <1>4 DEF Data!LinesAfterDisconnect, LinesAfterDisconnect

-----------------------------------------------------------------------------
(* What a step does to sockets and lines.                                   *)

(* Neither handshakes nor the burst that follows them reach the wrap, and no
   board has the address that remote holds before any packet.               *)
BelowWrap ==
    /\ MaxSyn + BurstSz < SeqMod /\ 1 + BurstSz < SeqMod
    /\ Address0 \notin Node

(* The facts of one board. *)
LEMMA ApartFacts ==
    ASSUME NEW sk, NEW lines, Apart(sk, lines), NEW n \in Node
    PROVE  /\ Sane(n, sk[n]) /\ sk[n] \in PlainSocket /\ sk[n].remote # n
           /\ n = Sender => CounterApart(sk[n])
           /\ n = Receiver =>
                 /\ HeardApart(sk[n], lines[Forward], sk[Sender].sequence_number)
                 /\ sk[n].ringbuf = <<>>
  BY DEF Apart, Sane

(* A socket that only changes its state, its remote or its port. *)
LEMMA SameNumbers ==
    ASSUME NEW sk, NEW lines, Apart(sk, lines), NEW n \in Node, NEW t, Sane(n, t),
           t.sequence_number = sk[n].sequence_number,
           t.remote_sequence = sk[n].remote_sequence,
           t.last_recved_ack = sk[n].last_recved_ack,
           t.ringbuf = sk[n].ringbuf
    PROVE  Apart([sk EXCEPT ![n] = t], lines)
  <1>1. sk[n].sequence_number \in Nat
    BY ApartFacts, Sizes DEF PlainSocket
  <1>2. t.sequence_number >= sk[n].sequence_number
    BY <1>1
  <1>3. n = Sender => CounterApart(t)
    BY ApartFacts DEF CounterApart
  <1>4. n = Receiver => /\ HeardApart(t, lines[Forward], sk[Sender].sequence_number)
                        /\ t.ringbuf = <<>>
    BY ApartFacts DEF HeardApart
  <1> QED
    BY <1>2, <1>3, <1>4, ChangeApart

LEMMA NewState ==
    ASSUME NEW sk, NEW lines, Apart(sk, lines), NEW n \in Node, NEW state \in ConnectionState,
           state \in {"SYN_RECVED", "PENDING", "OPEN"} => sk[n].remote_sequence # Undef
    PROVE  Apart([sk EXCEPT ![n] = [sk[n] EXCEPT !.state = state]], lines)
  <1> DEFINE t == [sk[n] EXCEPT !.state = state]
  <1>1. /\ t \in PlainSocket /\ t.remote = sk[n].remote /\ t.state = state
        /\ t.sequence_number = sk[n].sequence_number
        /\ t.remote_sequence = sk[n].remote_sequence
        /\ t.last_recved_ack = sk[n].last_recved_ack
        /\ t.ringbuf = sk[n].ringbuf
    BY ApartFacts DEF PlainSocket
  <1>2. Sane(n, t)
    BY <1>1, ApartFacts DEF Sane
  <1> QED
    BY <1>1, <1>2, SameNumbers

LEMMA HangUpApart ==
    ASSUME NEW sk, NEW lines, Apart(sk, lines), NEW n \in Node
    PROVE  Apart([sk EXCEPT ![n] = Disconnected(sk[n])], LinesAfterDisconnect(lines, n, sk[n]))
  <1> DEFINE count == sk[Sender].sequence_number
  <1>1. MaySend(n, count, ClosePacket(n, sk[n]))
    BY ApartFacts DEF MaySend, ClosePacket, ToRemote, PlainPacket, PlainSocket, MessageType
  <1>2. Apart(sk, LinesAfterDisconnect(lines, n, sk[n]))
    BY <1>1, SendApart DEF LinesAfterDisconnect
  <1> QED
    BY <1>2, NewState DEF Disconnected, ConnectionState

(* A socket that has heard a SYN acknowledges it. *)
LEMMA AckApart ==
    ASSUME NEW sk, NEW lines, Apart(sk, lines), NEW n \in Node, sk[n].state = "SYN_RECVED"
    PROVE  Apart(sk, Transmit(lines, AckPacket(n, sk[n])))
  <1> DEFINE s == sk[n]
             count == sk[Sender].sequence_number
  <1>1. s \in PlainSocket /\ s.remote # n /\ s.remote_sequence \in Nat
    <2>1. Sane(n, s)
      BY ApartFacts
    <2> QED
      BY <2>1, Sizes DEF Sane, PlainSocket
  <1>2. n = Receiver => s.remote_sequence < count
    BY <1>1, ApartFacts, Sizes DEF HeardApart
  <1>3. MaySend(n, count, AckPacket(n, s))
    BY <1>1, <1>2, Boards DEF MaySend, AckPacket, ToRemote, PlainPacket, PlainSocket, MessageType
  <1> QED
    BY <1>3, SendApart

(* A SYN is sent and counted.  s is the socket that sends it: that of n, but
   for its remote end.                                                      *)
LEMMA SynApart ==
    ASSUME BelowWrap, NEW sk, NEW lines, Apart(sk, lines), NEW n \in Node, NEW s \in PlainSocket,
           s.remote # n,
           s.sequence_number = sk[n].sequence_number, s.sequence_number < MaxSyn,
           s.remote_sequence = sk[n].remote_sequence,
           s.last_recved_ack = sk[n].last_recved_ack, s.ringbuf = sk[n].ringbuf,
           NEW state \in ConnectionState,
           state \in {"SYN_RECVED", "PENDING", "OPEN"} => s.remote_sequence # Undef
    PROVE  Apart([sk EXCEPT ![n] = [AfterSyn(s) EXCEPT !.state = state]],
                 Transmit(lines, SynPacket(n, s)))
  <1> DEFINE t == [AfterSyn(s) EXCEPT !.state = state]
             new == [sk EXCEPT ![n] = t]
             count == sk[Sender].sequence_number
  <1>1. /\ s.sequence_number \in Nat /\ MaxSyn \in Nat /\ MaxSyn + BurstSz < SeqMod
        /\ SeqMod \in Nat /\ BurstSz \in Nat
    BY Sizes, StreamAssumption DEF BelowWrap, PlainSocket
  <1>2. s.sequence_number + 1 \in 0 .. SeqMod - 1
    BY <1>1
  <1>3. (s.sequence_number + 1) % SeqMod = s.sequence_number + 1
    BY <1>1, <1>2
  <1>4. /\ t \in PlainSocket /\ t.state = state /\ t.remote = s.remote
        /\ t.sequence_number = s.sequence_number + 1
        /\ t.remote_sequence = s.remote_sequence
        /\ t.last_recved_ack = s.last_recved_ack /\ t.ringbuf = s.ringbuf
    BY <1>2, <1>3 DEF AfterSyn, PlainSocket, SeqNum
  <1>5. Sane(n, t)
    BY <1>4 DEF Sane
  <1>6. t.sequence_number >= sk[n].sequence_number
    BY <1>1, <1>4
  <1>7. n = Sender => CounterApart(t)
    BY <1>1, <1>4, ApartFacts DEF CounterApart
  <1>8. n = Receiver => HeardApart(t, lines[Forward], count) /\ t.ringbuf = <<>>
    BY <1>4, ApartFacts DEF HeardApart
  <1>9. Apart(new, lines)
    BY <1>5, <1>6, <1>7, <1>8, ChangeApart
  <1>10. n = Sender => s.sequence_number < new[Sender].sequence_number
    BY <1>1, <1>4 DEF Apart
  <1>11. MaySend(n, new[Sender].sequence_number, SynPacket(n, s))
    <2>1. PortOf[n] \in Nat
      BY SocketAssumption
    <2> QED
      BY <1>10, <2>1 DEF MaySend, SynPacket, ToRemote, PlainPacket, PlainSocket, MessageType
  <1> QED
    BY <1>9, <1>11, SendApart

(* A board takes a packet from a line, and answers it. *)
LEMMA DeliverApart ==
    ASSUME NEW sk, NEW lines, Apart(sk, lines), NEW m \in Node, NEW n \in Node,
           lines[<<m, n>>] # <<>>
    PROVE  LET r == <<m, n>>
               p == Head(lines[r])
           IN  Apart([sk EXCEPT ![n] = Received(n, sk[n], p)],
                     LinesAfter(lines, r, n, sk[n], p))
  <1> DEFINE r == <<m, n>>
             p == Head(lines[r])
             rest == Consume(lines, r)
             t == Received(n, sk[n], p)
             after == LinesAfter(lines, r, n, sk[n], p)
             count == sk[Sender].sequence_number
  <1>1. Apart(sk, rest) /\ Taken(sk, rest, n, p)
    BY ConsumeApart
  <1>2. /\ Sane(n, t) /\ t.sequence_number = sk[n].sequence_number
        /\ n = Sender => CounterApart(t)
        /\ n = Receiver => HeardApart(t, rest[Forward], count) /\ t.ringbuf = <<>>
        /\ Acknowledges(sk[n], p) => MaySend(n, count, AckPacket(n, t))
    BY <1>1, ReceivedApart
  <1>3. sk[n].sequence_number \in Nat
    BY ApartFacts, Sizes DEF PlainSocket
  <1>4. Apart([sk EXCEPT ![n] = t], rest)
    BY <1>1, <1>2, <1>3, ChangeApart
  <1>5. [sk EXCEPT ![n] = t][Sender].sequence_number = count
    BY <1>2, Boards DEF Apart
  <1>6. CASE Acknowledges(sk[n], p)
    BY <1>2, <1>4, <1>5, <1>6, SendApart DEF LinesAfter
  <1>7. CASE ~Acknowledges(sk[n], p)
    BY <1>4, <1>7 DEF LinesAfter
  <1> QED
    BY <1>6, <1>7

-----------------------------------------------------------------------------
(* The actions.                                                             *)
LEMMA InitGood ==
    ASSUME BelowWrap
    PROVE  Init => IInv
  <1> SUFFICES ASSUME Init PROVE IInv
    OBVIOUS
  <1>1. sock = [n \in Node |-> NewSocket] /\ net = EmptyLines
    BY ConnWords DEF Init, Conn!Init
  <1>2. NewSocket \in PlainSocket
    BY Sizes DEF NewSocket, PlainSocket, ConnectionState, Address, SeqNum
  <1>3. \A n \in Node : Sane(n, sock[n])
    BY <1>1, <1>2 DEF Sane, NewSocket, BelowWrap
  <1>4. PlainLines(net) /\ net[Forward] = <<>> /\ net[Back] = <<>>
    BY <1>1, Boards DEF PlainLines, EmptyLines
  <1>5. CounterApart(sock[Sender])
    BY <1>1, Boards DEF CounterApart, NewSocket, BelowWrap
  <1>6. sock[Receiver].remote_sequence = Undef /\ sock[Receiver].ringbuf = <<>>
    BY <1>1, Boards DEF NewSocket
  <1>7. Apart(sock, net)
    BY <1>1, <1>3, <1>4, <1>5, <1>6 DEF Apart, ForwardApart, BackApart, HeardApart
  <1>8. GoodWrite
    BY Sizes DEF Init, Data!NoWrite, GoodWrite
  <1> QED
    BY <1>7, <1>8 DEF IInv, Init

(* The parts of a step that do not touch the data. *)
LEMMA OnlySockets ==
    ASSUME IInv, Apart(sock', net'), w' = w, offered' = offered, got' = got
    PROVE  IInv'
  BY DEF IInv, GoodWrite

LEMMA HandshakeGood ==
    ASSUME BelowWrap, IInv, NEW n \in Node, Handshake(n)
    PROVE  IInv'
  <1> DEFINE s == sock[n]
  <1>1. Apart(sock, net) /\ Sane(n, s) /\ s \in PlainSocket /\ s.remote # n
    BY ApartFacts DEF IInv
  <1>2. w' = w /\ offered' = offered /\ got' = got
    BY DEF Handshake, dataVars
  <1> SUFFICES Apart(sock', net')
    BY <1>2, OnlySockets
  <1>3. CASE Conn!Listen(n)
    <2>1. sock' = [sock EXCEPT ![n] = [sock[n] EXCEPT !.state = "LISTENING"]] /\ net' = net
      BY <1>3 DEF Conn!Listen
    <2> QED
      BY <1>1, <2>1, NewState DEF ConnectionState
  <1>4. CASE Conn!AcceptBegin(n)
    <2> DEFINE lines == Transmit(net, AckPacket(n, s))
    <2>1. /\ s.state = "SYN_RECVED" /\ s.sequence_number < MaxSyn
          /\ net' = Transmit(lines, SynPacket(n, s))
          /\ sock' = [sock EXCEPT ![n] = [AfterSyn(s) EXCEPT !.state = "PENDING"]]
      BY <1>4, ConnWords DEF Conn!AcceptBegin
    <2>2. Apart(sock, lines) /\ s.remote_sequence # Undef
      BY <1>1, <2>1, AckApart DEF Sane
    <2> QED
      BY <1>1, <2>1, <2>2, SynApart DEF ConnectionState
  <1>5. CASE Conn!AcceptReturn(n)
    <2>1. \/ sock' = sock /\ net' = net
          \/ /\ sock' = [sock EXCEPT ![n] = Disconnected(s)]
             /\ net' = LinesAfterDisconnect(net, n, s)
      BY <1>5, ConnWords DEF Conn!AcceptReturn
    <2> QED
      BY <1>1, <2>1, HangUpApart
  <1>6. CASE Conn!AcceptTimeout(n)
    <2>1. /\ sock' = [sock EXCEPT ![n] = Disconnected(s)]
          /\ net' = LinesAfterDisconnect(net, n, s)
      BY <1>6, ConnWords DEF Conn!AcceptTimeout
    <2> QED
      BY <1>1, <2>1, HangUpApart
  <1>7. ASSUME NEW server \in Servers, n \notin Servers, Conn!ConnectBegin(n, server)
        PROVE  Apart(sock', net')
    <2> DEFINE x == [s EXCEPT !.remote = server, !.remote_port = PortOf[server]]
    <2>1. /\ x.sequence_number < MaxSyn
          /\ net' = Transmit(net, SynPacket(n, x))
          /\ sock' = [sock EXCEPT ![n] = [AfterSyn(x) EXCEPT !.state = "SYN_SENT"]]
      BY <1>7, ConnWords DEF Conn!ConnectBegin
    <2>2. server \in Node /\ server # n /\ PortOf[server] \in Nat
      BY <1>7, SocketAssumption
    <2>3. /\ x \in PlainSocket /\ x.remote # n
          /\ x.sequence_number = s.sequence_number /\ x.remote_sequence = s.remote_sequence
          /\ x.last_recved_ack = s.last_recved_ack /\ x.ringbuf = s.ringbuf
      BY <1>1, <2>2 DEF PlainSocket, Address
    <2> QED
      BY <1>1, <2>1, <2>3, SynApart DEF ConnectionState
  <1>8. CASE Conn!ConnectReturn(n)
    <2>1. CASE s.state = "SYN_RECVED"
      <3>1. /\ net' = Transmit(net, AckPacket(n, s))
            /\ sock' = [sock EXCEPT ![n] = [sock[n] EXCEPT !.state = "OPEN"]]
        BY <1>8, <2>1, ConnWords DEF Conn!ConnectReturn
      <3>2. Apart(sock, net') /\ s.remote_sequence # Undef
        BY <1>1, <2>1, <3>1, AckApart DEF Sane
      <3> QED
        BY <3>1, <3>2, NewState DEF ConnectionState
    <2>2. CASE s.state # "SYN_RECVED"
      <3>1. /\ sock' = [sock EXCEPT ![n] = Disconnected(s)]
            /\ net' = LinesAfterDisconnect(net, n, s)
        BY <1>8, <2>2, ConnWords DEF Conn!ConnectReturn
      <3> QED
        BY <1>1, <3>1, HangUpApart
    <2> QED
      BY <2>1, <2>2
  <1>9. CASE Conn!ConnectTimeout(n)
    <2>1. sock' = [sock EXCEPT ![n] = [sock[n] EXCEPT !.state = "CLOSED"]] /\ net' = net
      BY <1>9 DEF Conn!ConnectTimeout
    <2> QED
      BY <1>1, <2>1, NewState DEF ConnectionState
  <1> QED
    BY <1>3, <1>4, <1>5, <1>6, <1>7, <1>8, <1>9 DEF Handshake

LEMMA DisconnectGood ==
    ASSUME IInv, NEW n \in Node, Disconnect(n)
    PROVE  IInv'
  <1>1. /\ sock' = [sock EXCEPT ![n] = Disconnected(sock[n])]
        /\ net' = LinesAfterDisconnect(net, n, sock[n])
        /\ w' = w /\ offered' = offered /\ got' = got
    BY ConnWords DEF Disconnect, Conn!Disconnect, dataVars
  <1> QED
    BY <1>1, HangUpApart, OnlySockets DEF IInv

LEMMA DeliverGood ==
    ASSUME IInv, NEW m \in Node, NEW n \in Node, Deliver(m, n)
    PROVE  IInv'
  <1> DEFINE r == <<m, n>>
             p == Head(net[r])
  <1>1. /\ net[r] # <<>>
        /\ sock' = [sock EXCEPT ![n] = Received(n, sock[n], p)]
        /\ net' = LinesAfter(net, r, n, sock[n], p)
        /\ w' = w /\ offered' = offered /\ got' = got
    BY ConnHandlers DEF Deliver, Conn!Deliver, dataVars
  <1>2. Apart(sock', net')
    BY <1>1, DeliverApart DEF IInv
  <1> QED
    BY <1>1, <1>2, OnlySockets

LEMMA LoseGood ==
    ASSUME IInv, NEW m \in Node, NEW n \in Node, Lose(m, n)
    PROVE  IInv'
  <1>1. /\ net[<<m, n>>] # <<>> /\ net' = Consume(net, <<m, n>>)
        /\ sock' = sock /\ w' = w /\ offered' = offered /\ got' = got
    BY DataWords DEF Lose, Data!Lose
  <1>2. Apart(sock', net')
    BY <1>1, ConsumeApart DEF IInv
  <1> QED
    BY <1>1, <1>2, OnlySockets

(* A burst has as many frames as there is room for in it and are left. *)
LEMMA BurstGood ==
    ASSUME NEW len \in Nat, NEW pos \in Nat, pos <= len, NEW noack \in Nat,
           w' = Data!Burst(len, pos, noack), offered \in Nat, offered' = offered
    PROVE  GoodWrite'
  <1>1. len - pos \in Nat /\ 0 \in 0 .. BurstSz
    BY Sizes
  <1>2. (IF len - pos > BurstSz THEN BurstSz ELSE len - pos) \in 0 .. BurstSz
    BY <1>1, Sizes
  <1> QED
    BY <1>1, <1>2 DEF Data!Burst, GoodWrite

LEMMA WriteBeginGood ==
    ASSUME IInv, WriteBegin
    PROVE  IInv'
  <1>1. PICK len \in Lens : Data!WriteBegin(len)
    BY DEF WriteBegin
  <1>2. /\ w' = Data!Burst(len, 0, 0) /\ offered' = offered /\ got' = got
        /\ sock' = sock /\ net' = net
    BY <1>1 DEF Data!WriteBegin
  <1>3. len \in Nat /\ 0 <= len
    BY StreamAssumption
  <1>4. GoodWrite'
    BY <1>2, <1>3, BurstGood DEF IInv, GoodWrite
  <1> QED
    BY <1>2, <1>4 DEF IInv

(* The frames of a burst are numbered after the counter. *)
LEMMA SlotAfterCounter ==
    ASSUME IInv, NEW i \in 0 .. BurstSz - 1
    PROVE  /\ sock[Sender].sequence_number \in Nat
           /\ Data!SlotSeq(i) = sock[Sender].sequence_number + i + 1
           /\ Data!SlotSeq(i) \in SeqNum
           /\ Data!SlotSeq(i) > sock[Sender].sequence_number
  <1> DEFINE count == sock[Sender].sequence_number
  <1>1. count \in Nat /\ count + BurstSz < SeqMod
    BY ApartFacts, Boards, Sizes DEF IInv, CounterApart, PlainSocket
  <1>2. count + i + 1 \in 0 .. SeqMod - 1
    BY <1>1, Sizes
  <1>3. (count + i + 1) % SeqMod = count + i + 1
    BY <1>2, Sizes
  <1> QED
    BY <1>1, <1>2, <1>3 DEF Data!SlotSeq, SeqNum

LEMMA SendFrameGood ==
    ASSUME IInv, SendFrame
    PROVE  IInv'
  <1> DEFINE s == sock[Sender]
             p == Data!DataPacket(w.sent)
  <1>1. /\ w.sent < w.n /\ net' = Transmit(net, p)
        /\ w' = [w EXCEPT !.sent = @ + 1]
        /\ sock' = sock /\ offered' = offered /\ got' = got
    BY DataWords DEF SendFrame, Data!SendFrame
  <1>2. w.sent \in 0 .. BurstSz - 1 /\ w.sent + 1 \in 0 .. BurstSz
    BY <1>1, Sizes DEF IInv, GoodWrite
  <1>3. GoodWrite'
    BY <1>1, <1>2 DEF IInv, GoodWrite
  <1>4. p = ToRemote(Sender, s, "DATA", Data!SlotSeq(w.sent), offered + w.pos + w.sent + 1)
    BY DataWords DEF Data!DataPacket
  <1>5. offered + w.pos + w.sent + 1 \in Nat
    BY <1>2 DEF IInv, GoodWrite
  <1>6. s \in PlainSocket /\ s.remote # Sender
    BY ApartFacts, Boards DEF IInv
  <1>7. /\ Data!SlotSeq(w.sent) \in SeqNum
        /\ Data!SlotSeq(w.sent) > s.sequence_number /\ s.sequence_number \in Nat
    BY <1>2, SlotAfterCounter
  <1>8. MaySend(Sender, s.sequence_number, p)
    BY <1>4, <1>5, <1>6, <1>7, Boards, Sizes
       DEF MaySend, ToRemote, PlainPacket, PlainSocket, MessageType
  <1>9. Apart(sock', net')
    BY <1>1, <1>8, SendApart, Boards DEF IInv
  <1> QED
    BY <1>1, <1>3, <1>9 DEF IInv

(* No ACK names a frame of the burst: it is repeated or ends in an error. *)
LEMMA NoProgress ==
    ASSUME IInv
    PROVE  ~Data!Progress
  <1> DEFINE ack == sock[Sender].last_recved_ack
             count == sock[Sender].sequence_number
  <1>1. ack \in Nat /\ ack < count /\ count \in Nat /\ count + BurstSz < SeqMod
    BY ApartFacts, Boards, Sizes DEF IInv, CounterApart, PlainSocket
  <1>2. ~Data!FrameFound(ack)
    <2> SUFFICES ASSUME NEW i \in 0 .. w.n - 1, Data!SlotSeq(i) = ack PROVE FALSE
      BY DEF Data!FrameFound, Data!MatchesFrame
    <2>1. i \in 0 .. BurstSz - 1
      BY Sizes DEF IInv, GoodWrite
    <2> QED
      BY <1>1, <2>1, SlotAfterCounter
  <1>3. ~Data!EmptyFound(ack)
    BY <1>1, Sizes DEF Data!EmptyFound
  <1> QED
    BY <1>2, <1>3 DEF Data!Progress

(* write gives up. *)
LEMMA ReturnGood ==
    ASSUME IInv, NEW ret, Data!Return(ret), sock' = sock
    PROVE  IInv'
  <1>1. /\ w' = Data!NoWrite /\ offered' = offered + w.len
        /\ net' = net /\ got' = got
    BY DEF Data!Return
  <1>2. GoodWrite'
    BY <1>1, Sizes DEF Data!NoWrite, IInv, GoodWrite
  <1> QED
    BY <1>1, <1>2 DEF IInv

LEMMA DecideGood ==
    ASSUME IInv, Decide
    PROVE  IInv'
  <1>1. CASE Data!Resend
    <2>1. /\ w' = Data!Burst(w.len, w.pos, w.noack + 1) /\ offered' = offered
          /\ got' = got /\ sock' = sock /\ net' = net
      BY <1>1 DEF Data!Resend
    <2>2. /\ w.len \in Nat /\ w.pos \in Nat /\ w.pos <= w.len
          /\ w.noack + 1 \in Nat /\ offered \in Nat
      BY DEF IInv, GoodWrite
    <2>3. GoodWrite'
      BY <2>1, <2>2, BurstGood
    <2> QED
      BY <2>1, <2>3 DEF IInv
  <1>2. CASE Data!GiveUp
    BY <1>2, ReturnGood DEF Data!GiveUp
  <1>3. CASE Data!Progress
    BY <1>3, NoProgress
  <1>4. CASE Data!OutOfSequence
    BY <1>4, ReturnGood DEF Data!OutOfSequence
  <1> QED
    BY <1>1, <1>2, <1>3, <1>4 DEF Decide

(* There is nothing to read; the third attempt hangs up. *)
LEMMA ReadEndGood ==
    ASSUME IInv, ReadEnd
    PROVE  IInv'
  <1> DEFINE s == sock[Receiver]
  <1>1. s.ringbuf = <<>> /\ s \in PlainSocket /\ Sane(Receiver, s) /\ Apart(sock, net)
    BY ApartFacts, Boards DEF IInv
  <1>2. Data!ReadNothing
    BY <1>1 DEF ReadEnd, Data!ReadFrame
  <1>3. w' = w /\ offered' = offered /\ got' = got
    BY <1>2 DEF Data!ReadNothing
  <1>4. CASE s.zero_read_count < 2
    <2> DEFINE t == [s EXCEPT !.zero_read_count = s.zero_read_count + 1]
    <2>1. sock' = [sock EXCEPT ![Receiver] = t] /\ net' = net
      BY <1>2, <1>4 DEF Data!ReadNothing
    <2>2. /\ t \in PlainSocket /\ t.remote = s.remote /\ t.state = s.state
          /\ t.sequence_number = s.sequence_number
          /\ t.remote_sequence = s.remote_sequence
          /\ t.last_recved_ack = s.last_recved_ack /\ t.ringbuf = s.ringbuf
      BY <1>1 DEF PlainSocket
    <2>3. Sane(Receiver, t)
      BY <1>1, <2>2 DEF Sane
    <2>4. Apart(sock', net')
      BY <1>1, <2>1, <2>2, <2>3, SameNumbers, Boards
    <2> QED
      BY <1>3, <2>4, OnlySockets
  <1>5. CASE ~(s.zero_read_count < 2)
    <2> DEFINE mid == [sock EXCEPT ![Receiver] = Disconnected(s)]
               t == [Disconnected(s) EXCEPT !.zero_read_count = 0]
    <2>1. /\ sock' = [sock EXCEPT ![Receiver] = t]
          /\ net' = LinesAfterDisconnect(net, Receiver, s)
      BY <1>2, <1>5, DataWords DEF Data!ReadNothing
    <2>2. Apart(mid, net')
      BY <1>1, <2>1, HangUpApart, Boards
    <2>3. DOMAIN sock = Node /\ mid[Receiver] = Disconnected(s)
      BY <1>1, Boards DEF Apart
    <2>4. /\ t \in PlainSocket /\ t.remote = s.remote /\ t.state = "CLOSED"
          /\ t.sequence_number = mid[Receiver].sequence_number
          /\ t.remote_sequence = mid[Receiver].remote_sequence
          /\ t.last_recved_ack = mid[Receiver].last_recved_ack
          /\ t.ringbuf = mid[Receiver].ringbuf
      BY <1>1, <2>3 DEF Disconnected, PlainSocket, ConnectionState
    <2>5. Sane(Receiver, t)
      BY <1>1, <2>4 DEF Sane
    <2>6. Apart([mid EXCEPT ![Receiver] = t], net')
      BY <2>2, <2>4, <2>5, SameNumbers, Boards
    <2>7. sock' = [mid EXCEPT ![Receiver] = t]
      BY <2>1, <2>3
    <2> QED
      BY <1>3, <2>6, <2>7, OnlySockets
  <1> QED
    BY <1>4, <1>5

LEMMA StepGood ==
    ASSUME BelowWrap
    PROVE  Unreset /\ [Next]_vars => Unreset'
  <1> SUFFICES ASSUME Unreset, [Next]_vars PROVE Unreset'
    OBVIOUS
  <1>1. ASSUME NEW n \in Node, Handshake(n) PROVE Unreset'
    BY <1>1, HandshakeGood DEF Unreset, Handshake
  <1>2. ASSUME NEW n \in Quitters, Disconnect(n) PROVE Unreset'
    <2>1. n \in Node
      BY StreamAssumption
    <2> QED
      BY <1>2, <2>1, DisconnectGood DEF Unreset, Disconnect
  <1>3. CASE WriteBegin
    BY <1>3, WriteBeginGood DEF Unreset, WriteBegin
  <1>4. CASE SendFrame
    BY <1>4, SendFrameGood DEF Unreset, SendFrame
  <1>5. CASE Decide
    BY <1>5, DecideGood DEF Unreset, Decide
  <1>6. CASE ReadBegin
    <2>1. UNCHANGED <<sock, net, w, offered, got, resets>>
      BY <1>6 DEF ReadBegin, Data!ReadBegin
    <2> QED
      BY <2>1 DEF Unreset, IInv, GoodWrite
  <1>7. CASE ReadEnd
    BY <1>7, ReadEndGood DEF Unreset, ReadEnd
  <1>8. ASSUME NEW m \in Node, NEW n \in Node, Deliver(m, n) PROVE Unreset'
    BY <1>8, DeliverGood DEF Unreset, Deliver
  <1>9. ASSUME NEW m \in Node, NEW n \in Node, Lose(m, n) PROVE Unreset'
    BY <1>9, LoseGood DEF Unreset, Lose
  <1>10. ASSUME NEW n \in Resettable, Reset(n) PROVE Unreset'
    BY <1>10 DEF Unreset, Reset
  <1>11. CASE UNCHANGED vars
    BY <1>11 DEF Unreset, IInv, GoodWrite, vars, dataVars
  <1> QED
    BY <1>1, <1>2, <1>3, <1>4, <1>5, <1>6, <1>7, <1>8, <1>9, <1>10, <1>11 DEF Next

(* A write that returns has given up. *)
NoSuccess == resets = 0 => result.ret # "OK"

LEMMA StepUnsuccessful ==
    ASSUME Unreset, NoSuccess, [Next]_vars
    PROVE  NoSuccess'
  <1> SUFFICES ASSUME resets' = 0 PROVE result'.ret # "OK"
    BY DEF NoSuccess
  <1>1. CASE Decide
    <2>1. resets = 0 /\ IInv /\ result.ret # "OK"
      BY <1>1 DEF Unreset, NoSuccess, Decide
    <2>2. ~Data!Progress
      BY <2>1, NoProgress
    <2> QED
      BY <1>1, <2>1, <2>2 DEF Decide, Data!Resend, Data!GiveUp, Data!OutOfSequence, Data!Return
  <1>2. ASSUME NEW n \in Node, Reset(n) PROVE FALSE
    BY <1>2 DEF Reset, Unreset
  <1>3. CASE UNCHANGED <<result, resets>>
    BY <1>3 DEF NoSuccess
  <1>4. CASE \/ \E n \in Node : Handshake(n) \/ Disconnect(n)
             \/ WriteBegin \/ SendFrame \/ ReadBegin \/ ReadEnd
             \/ \E m, n \in Node : Deliver(m, n) \/ Lose(m, n)
             \/ UNCHANGED vars
    <2>1. UNCHANGED <<result, resets>>
      BY <1>4 DEF Handshake, Disconnect, WriteBegin, Data!WriteBegin, SendFrame, Data!SendFrame,
                  ReadBegin, Data!ReadBegin, ReadEnd, Data!ReadFrame, Data!ReadNothing,
                  Deliver, Lose, Data!Lose, vars, dataVars
    <2> QED
      BY <2>1, <1>3
  <1> QED
    BY <1>1, <1>2, <1>4, StreamAssumption DEF Next

(* What the counted SYN costs. *)
NothingFlows == resets = 0 => Data!Delivered = <<>> /\ result.ret # "OK"

(* How far the fault that ConnectedExchange shows reaches: below the wrap of the
   counters no frame of data is taken and no write reports success until a board
   is reset, in whatever order the two connect, retry, write, read and
   disconnect, for any lengths of messages and bursts and any losses.       *)
THEOREM NoDataWithoutReset ==
    ASSUME BelowWrap
    PROVE  Spec => []NothingFlows
  <1>1. Init => Unreset /\ NoSuccess
    <2>1. Init => IInv
      BY InitGood
    <2>2. Init => resets = 0 /\ result.ret = "none"
      BY DEF Init
    <2> QED
      BY <2>1, <2>2 DEF Unreset, NoSuccess
  <1>2. Unreset /\ NoSuccess /\ [Next]_vars => Unreset' /\ NoSuccess'
    BY StepGood, StepUnsuccessful
  <1>3. Unreset /\ NoSuccess => NothingFlows
    BY DEF Unreset, NoSuccess, IInv, Apart, NothingFlows, Data!Delivered
  <1> QED
    BY <1>1, <1>2, <1>3, PTL DEF Spec

-----------------------------------------------------------------------------
(* Types.  What module ConnectionProofs keeps of the two sockets, the calls
   and the lines, and what write and the frames add to it.                  *)
Types == INSTANCE ConnectionProofs WITH Recreated <- Resettable

Frame == 1 .. MaxFrames

(* The locals of write. *)
WriteInRange ==
    /\ w \in [active : BOOLEAN, len : Nat, pos : Nat, n : 0 .. BurstSz,
              sent : 0 .. BurstSz, noack : Nat]
    /\ w.sent <= w.n /\ w.pos + w.n <= w.len
    /\ IF w.active THEN w.n > 0 ELSE w = Data!NoWrite
    /\ offered \in Nat /\ offered + w.len <= MaxFrames

(* Every frame under way or kept is one that was offered. *)
LinesOffered(lines) ==
    \A r \in Route : \A i \in DOMAIN lines[r] :
        lines[r][i].type = "DATA" => lines[r][i].arg \in Frame

FramesOffered ==
    /\ LinesOffered(net)
    /\ \A n \in Node : sock[n].ringbuf \in Seq(Frame)
    /\ got \in Seq(Frame)

(* While write runs its socket has a peer, and while read runs the receiver is
   in no other call.                                                        *)
CallsApart ==
    /\ w.active => sock[Sender].remote_port # Undef
    /\ reading \in BOOLEAN
    /\ reading => call[Receiver] = "none"

Counted ==
    /\ result.ret \in {"none", "OK", "TIMEOUT", "ACK_OUT_OF_SEQUENCE"}
    /\ losses \in 0 .. MaxLoss /\ resets \in 0 .. MaxResets

TypeInv == Types!IInv /\ WriteInRange /\ FramesOffered /\ CallsApart /\ Counted

LEMMA Caps == MaxSyn \in Nat /\ MaxFrames \in Nat
  BY StreamAssumption

LEMMA TypesAssumed ==
    Types!ConnectionAssumption /\ Types!SocketAssumption /\ Types!LineCapAssumption
  BY StreamAssumption, SocketAssumption, LineCapAssumption
     DEF Types!ConnectionAssumption, Types!SocketAssumption, Types!LineCapAssumption

LEMMA TypesWords ==
    /\ Types!Route = Route /\ Types!SeqNum = SeqNum /\ Types!Port = Port
    /\ \A lines, p : Types!Transmit(lines, p) = Transmit(lines, p)
    /\ \A lines, r : Types!Consume(lines, r) = Consume(lines, r)
    /\ \A s : Types!Disconnected(s) = Disconnected(s)
    /\ \A lines, n, s : Types!LinesAfterDisconnect(lines, n, s) = LinesAfterDisconnect(lines, n, s)
  <1>1. Types!Route = Route /\ Types!SeqNum = SeqNum /\ Types!Port = Port
    BY DEF Types!Route, Route, Types!SeqNum, SeqNum, Types!Port, Port
  <1>2. \A lines, p : Types!Transmit(lines, p) = Transmit(lines, p)
    BY <1>1 DEF Types!Transmit, Transmit
  <1>3. \A lines, r : Types!Consume(lines, r) = Consume(lines, r)
    BY DEF Types!Consume, Consume
  <1>4. \A s : Types!Disconnected(s) = Disconnected(s)
    BY DEF Types!Disconnected, Disconnected
  <1>5. \A n, s : Types!ClosePacket(n, s) = ClosePacket(n, s)
    BY DEF Types!ClosePacket, ClosePacket, Types!ToRemote, ToRemote
  <1>6. \A lines, n, s : Types!LinesAfterDisconnect(lines, n, s) = LinesAfterDisconnect(lines, n, s)
    BY <1>2, <1>5 DEF Types!LinesAfterDisconnect, LinesAfterDisconnect
  <1> QED
    BY <1>1, <1>2, <1>3, <1>4, <1>6

(* The types of Connection are narrower than those of the argument above. *)
LEMMA TypesPlain ==
    /\ Types!Socket \subseteq PlainSocket
    /\ Types!GoodPacket \subseteq PlainPacket
  <1>1. Port \subseteq Nat /\ SeqNum \subseteq Nat
    BY SocketAssumption DEF Port, SeqNum
  <1>2. ASSUME NEW s \in Types!Socket PROVE s \in PlainSocket
    <2>1. s \in [state : ConnectionState, remote : Address, remote_port : Port \cup {Undef},
                 remote_sequence : SeqNum \cup {Undef}, sequence_number : SeqNum,
                 last_recved_ack : SeqNum, zero_read_count : 0 .. 2, ringbuf : Seq(Nat)]
      BY TypesWords DEF Types!Socket, Types!ConnectionState, ConnectionState,
                        Types!Address, Address
    <2>2. 0 .. 2 \subseteq Nat
      OBVIOUS
    <2> QED
      BY <1>1, <2>1, <2>2 DEF PlainSocket
  <1>3. Types!GoodPacket \subseteq PlainPacket
    BY <1>1, TypesWords DEF Types!GoodPacket, Types!Packet, PlainPacket, Types!MessageType, MessageType,
                Types!Address, Address
  <1> QED
    BY <1>2, <1>3

LEMMA TypesFacts ==
    ASSUME Types!IInv
    PROVE  /\ \A n \in Node : sock[n] \in Types!Socket /\ sock[n] \in PlainSocket
           /\ sock \in [Node -> Types!Socket]
           /\ \A n \in Node : Types!GoodSocket(n, sock[n], call[n])
           /\ Types!GoodLines(net) /\ net \in [Route -> Seq(Types!GoodPacket)]
           /\ net \in [Route -> Seq(PlainPacket)]
           /\ call \in [Node -> {"none", "accept", "connect"}]
  <1>1. /\ sock \in [Node -> Types!Socket] /\ Types!GoodLines(net)
        /\ call \in [Node -> {"none", "accept", "connect"}]
        /\ \A n \in Node : Types!GoodSocket(n, sock[n], call[n])
    BY DEF Types!IInv
  <1>2. net \in [Route -> Seq(Types!GoodPacket)]
    BY <1>1, TypesWords DEF Types!GoodLines
  <1>3. \A r \in Route : net[r] \in Seq(PlainPacket)
    <2>1. \A q \in Seq(Types!GoodPacket) : q \in Seq(PlainPacket)
      BY TypesPlain
    <2> QED
      BY <1>2, <2>1
  <1> QED
    BY <1>1, <1>2, <1>3, TypesPlain

-----------------------------------------------------------------------------
(* Frames on the lines and in the rings.                                    *)
LEMMA TransmitOffered ==
    ASSUME NEW lines \in [Route -> Seq(PlainPacket)], LinesOffered(lines),
           NEW p \in PlainPacket, p.type = "DATA" => p.arg \in Frame
    PROVE  /\ Transmit(lines, p) \in [Route -> Seq(PlainPacket)]
           /\ LinesOffered(Transmit(lines, p))
  <1> DEFINE new == Transmit(lines, p)
  <1>1. ASSUME NEW r \in Route
        PROVE  /\ new[r] \in Seq(PlainPacket)
               /\ \A i \in DOMAIN new[r] : new[r][i].type = "DATA" => new[r][i].arg \in Frame
    <2>1. lines[r] \in Seq(PlainPacket)
      OBVIOUS
    <2>2. new[r] = lines[r] \/ new[r] = Append(lines[r], p)
      BY DEF Transmit
    <2>3. \A i \in DOMAIN Append(lines[r], p) :
              \/ i \in DOMAIN lines[r] /\ Append(lines[r], p)[i] = lines[r][i]
              \/ Append(lines[r], p)[i] = p
      BY <2>1
    <2>4. Append(lines[r], p) \in Seq(PlainPacket)
      BY <2>1
    <2> HIDE DEF new
    <2> QED
      BY <2>1, <2>2, <2>3, <2>4 DEF LinesOffered
  <1>2. new = [r \in Route |-> new[r]]
    BY DEF Transmit
  <1> HIDE DEF new
  <1>3. new \in [Route -> Seq(PlainPacket)] /\ LinesOffered(new)
    BY <1>1, <1>2 DEF LinesOffered
  <1> QED
    BY <1>3 DEF new

LEMMA ConsumeOffered ==
    ASSUME NEW lines \in [Route -> Seq(PlainPacket)], LinesOffered(lines),
           NEW r \in Route, lines[r] # <<>>
    PROVE  LET p == Head(lines[r])
           IN  /\ Consume(lines, r) \in [Route -> Seq(PlainPacket)]
               /\ LinesOffered(Consume(lines, r))
               /\ p \in PlainPacket /\ (p.type = "DATA" => p.arg \in Frame)
  <1> DEFINE f == lines[r]
             new == Consume(lines, r)
  <1>1. f \in Seq(PlainPacket) /\ f # <<>>
    OBVIOUS
  <1>2. /\ new[r] = Tail(f) /\ \A k \in Route \ {r} : new[k] = lines[k]
        /\ new = [k \in Route |-> new[k]]
    BY DEF Consume
  <1> HIDE DEF f, new
  <1>3. /\ Tail(f) \in Seq(PlainPacket) /\ Head(f) \in PlainPacket
        /\ 1 \in DOMAIN f /\ Head(f) = f[1]
        /\ \A i \in DOMAIN Tail(f) : i + 1 \in DOMAIN f /\ Tail(f)[i] = f[i + 1]
    BY <1>1
  <1>4. \A i \in DOMAIN f : f[i].type = "DATA" => f[i].arg \in Frame
    BY DEF LinesOffered, f
  <1>5. \A i \in DOMAIN Tail(f) : Tail(f)[i].type = "DATA" => Tail(f)[i].arg \in Frame
    BY <1>3, <1>4
  <1>6. ASSUME NEW k \in Route
        PROVE  /\ new[k] \in Seq(PlainPacket)
               /\ \A i \in DOMAIN new[k] : new[k][i].type = "DATA" => new[k][i].arg \in Frame
    <2>1. CASE k = r
      BY <1>2, <1>3, <1>5, <2>1
    <2>2. CASE k # r
      BY <1>2, <2>2 DEF LinesOffered
    <2> QED
      BY <2>1, <2>2
  <1>7. new \in [Route -> Seq(PlainPacket)] /\ LinesOffered(new)
    BY <1>2, <1>6 DEF LinesOffered
  <1> QED
    BY <1>3, <1>4, <1>7 DEF new, f

LEMMA RingOffered ==
    ASSUME NEW ring \in Seq(Frame), NEW e \in Frame
    PROVE  RingPut(ring, e) \in Seq(Frame)
  <1>1. CASE Len(ring) < RingCap
    BY <1>1 DEF RingPut
  <1>2. CASE Len(ring) >= RingCap
    <2>1. Tail(ring) \in Seq(Frame)
      BY <1>2, SocketAssumption
    <2> QED
      BY <2>1, <1>2, SocketAssumption DEF RingPut
  <1> QED
    BY <1>1, <1>2, SocketAssumption

(* What a socket holds after it has handled a packet. *)
LEMMA ReceivedOffered ==
    ASSUME NEW n \in Node, NEW s \in PlainSocket, s.ringbuf \in Seq(Frame),
           NEW p \in PlainPacket, p.type = "DATA" => p.arg \in Frame
    PROVE  LET t == Received(n, s, p)
           IN  /\ t.ringbuf \in Seq(Frame)
               /\ s.remote_port # Undef => t.remote_port # Undef
  <1> DEFINE d == Dispatched(s, p)
             t == Received(n, s, p)
  <1>1. /\ d \in PlainSocket /\ d.ringbuf = s.ringbuf /\ d.remote_port = s.remote_port
        /\ p.arg # Undef
    BY Sizes DEF Dispatched, PlainSocket, PlainPacket, Address
  <1>2. \/ t = d
        \/ t = [d EXCEPT !.state = "CLOSED"]
        \/ d.state = "PENDING" /\ t = [d EXCEPT !.state = "OPEN"]
        \/ p.type = "ACK" /\ t = [d EXCEPT !.last_recved_ack = p.seq]
        \/ p.type = "SYN" /\ t = AdoptPeer(d, p.src, p)
        \/ /\ p.type = "SYN"
           /\ t = [d EXCEPT !.remote_sequence = p.seq, !.state = "SYN_RECVED"]
        \/ /\ s.state = "OPEN" /\ p.type = "DATA" /\ t = Accept(d, p)
           /\ p.seq \in {NextForServer(s), NextForClient(s)}
    BY AnyOutcome
  <1> HIDE DEF d, t
  <1>3. CASE p.type = "DATA" /\ t = Accept(d, p)
    <2>1. t.ringbuf = RingPut(d.ringbuf, p.arg) /\ t.remote_port = d.remote_port
      BY <1>1, <1>3 DEF Accept, PlainSocket
    <2> QED
      BY <1>1, <1>3, <2>1, RingOffered DEF t
  <1>4. CASE ~(p.type = "DATA" /\ t = Accept(d, p))
    <2>1. t.ringbuf = d.ringbuf /\ t.remote_port \in {d.remote_port, p.arg}
      BY <1>1, <1>2, <1>4 DEF AdoptPeer, PlainSocket
    <2> QED
      BY <1>1, <2>1 DEF t
  <1> QED
    BY <1>3, <1>4

-----------------------------------------------------------------------------
(* The steps.                                                               *)

(* The actions of Stream that are actions of Connection. *)
LEMMA TypesActions ==
    /\ \A n \in Node : /\ Conn!Listen(n) => Types!Listen(n)
                       /\ Conn!AcceptBegin(n) => Types!AcceptBegin(n)
                       /\ Conn!AcceptReturn(n) => Types!AcceptReturn(n)
                       /\ Conn!AcceptTimeout(n) => Types!AcceptTimeout(n)
                       /\ \A server \in Servers :
                             Conn!ConnectBegin(n, server) => Types!ConnectBegin(n, server)
                       /\ Conn!ConnectReturn(n) => Types!ConnectReturn(n)
                       /\ Conn!ConnectTimeout(n) => Types!ConnectTimeout(n)
                       /\ Conn!Disconnect(n) => Types!Disconnect(n)
                       /\ Conn!Recreate(n) => Types!Recreate(n)
    /\ \A m, n \in Node : Conn!Deliver(m, n) => Types!Deliver(m, n)
  <1>1. /\ \A lines, p : Conn!Transmit(lines, p) = Types!Transmit(lines, p)
        /\ \A n, s : Conn!AckPacket(n, s) = Types!AckPacket(n, s)
        /\ \A n, s : Conn!SynPacket(n, s) = Types!SynPacket(n, s)
        /\ \A s : Conn!AfterSyn(s) = Types!AfterSyn(s)
        /\ \A s : Conn!Disconnected(s) = Types!Disconnected(s)
        /\ \A lines, n, s : Conn!LinesAfterDisconnect(lines, n, s)
                                = Types!LinesAfterDisconnect(lines, n, s)
        /\ Conn!NewSocket = Types!NewSocket
        /\ \A n : Conn!Idle(n) = Types!Idle(n)
    BY DEF Conn!Transmit, Types!Transmit, Conn!Route, Types!Route,
           Conn!AckPacket, Types!AckPacket, Conn!SynPacket, Types!SynPacket,
           Conn!ToRemote, Types!ToRemote, Conn!AfterSyn, Types!AfterSyn,
           Conn!Disconnected, Types!Disconnected,
           Conn!LinesAfterDisconnect, Types!LinesAfterDisconnect,
           Conn!ClosePacket, Types!ClosePacket, Conn!NewSocket, Types!NewSocket,
           Conn!Idle, Types!Idle
  <1>2. /\ \A lines, r : Conn!Consume(lines, r) = Types!Consume(lines, r)
        /\ \A s, p : Conn!Accept(s, p) = Types!Accept(s, p)
    BY DEF Conn!Consume, Types!Consume, Conn!Accept, Types!Accept,
           Conn!RingPut, Types!RingPut
  <1>3. \A s, p, next : Conn!OpenOnData(s, p, next) = Types!OpenOnData(s, p, next)
    BY <1>2 DEF Conn!OpenOnData, Types!OpenOnData
  <1>4. \A s, r, p : Conn!ServerOnData(s, r, p) = Types!ServerOnData(s, r, p)
    BY <1>3 DEF Conn!ServerOnData, Types!ServerOnData, Conn!AdoptPeer, Types!AdoptPeer,
                Conn!NextForServer, Types!NextForServer
  <1>5. \A s, r, p : Conn!ClientOnData(s, r, p) = Types!ClientOnData(s, r, p)
    BY <1>3 DEF Conn!ClientOnData, Types!ClientOnData, Conn!NextForClient, Types!NextForClient
  <1>6. \A n, s, p : Conn!Received(n, s, p) = Types!Received(n, s, p)
    BY <1>4, <1>5 DEF Conn!Received, Types!Received, Conn!Dispatched, Types!Dispatched
  <1>7. \A lines, r, n, s, p : Conn!LinesAfter(lines, r, n, s, p) = Types!LinesAfter(lines, r, n, s, p)
    BY <1>1, <1>2, <1>6 DEF Conn!LinesAfter, Types!LinesAfter, Conn!Acknowledges, Types!Acknowledges
  <1>8. ASSUME NEW m \in Node, NEW n \in Node, Conn!Deliver(m, n) PROVE Types!Deliver(m, n)
    BY <1>6, <1>7, <1>8 DEF Conn!Deliver, Types!Deliver, Conn!Hears, Types!Hears
  <1>9. ASSUME NEW n \in Node
        PROVE  /\ Conn!Listen(n) => Types!Listen(n)
               /\ Conn!AcceptBegin(n) => Types!AcceptBegin(n)
               /\ Conn!AcceptReturn(n) => Types!AcceptReturn(n)
               /\ Conn!AcceptTimeout(n) => Types!AcceptTimeout(n)
    BY <1>1 DEF Conn!Listen, Types!Listen, Conn!AcceptBegin, Types!AcceptBegin,
                Conn!AcceptReturn, Types!AcceptReturn, Conn!AcceptTimeout, Types!AcceptTimeout
  <1>10. ASSUME NEW n \in Node
        PROVE  /\ \A server \in Servers :
                     Conn!ConnectBegin(n, server) => Types!ConnectBegin(n, server)
               /\ Conn!ConnectReturn(n) => Types!ConnectReturn(n)
               /\ Conn!ConnectTimeout(n) => Types!ConnectTimeout(n)
               /\ Conn!Disconnect(n) => Types!Disconnect(n)
               /\ Conn!Recreate(n) => Types!Recreate(n)
    BY <1>1 DEF Conn!ConnectBegin, Types!ConnectBegin, Conn!ConnectReturn, Types!ConnectReturn,
                Conn!ConnectTimeout, Types!ConnectTimeout, Conn!Disconnect, Types!Disconnect,
                Conn!Recreate, Types!Recreate
  <1> QED
    BY <1>8, <1>9, <1>10

(* What is proved of Connection holds here after its steps, and after those
   that leave its variables alone.                                          *)
LEMMA ConnectionStep ==
    ASSUME Types!IInv
    PROVE  /\ \A n \in Node : Handshake(n) => Types!IInv'
           /\ \A n \in Node : Disconnect(n) => Types!IInv'
           /\ \A n \in Resettable : Reset(n) => Types!IInv'
           /\ \A m, n \in Node : Deliver(m, n) => Types!IInv'
           /\ UNCHANGED <<sock, call, net>> => Types!IInv'
  <1>1. Types!Next \/ UNCHANGED <<sock, call, net>> => Types!IInv'
    BY TypesAssumed, Types!StepGood DEF Types!vars
  <1>2. ASSUME NEW n \in Node, Handshake(n) PROVE Types!Next
    <2>1. CASE n \in Servers
      BY <1>2, <2>1, TypesActions DEF Handshake, Types!Next
    <2>2. CASE n \notin Servers
      <3>1. n \in Types!Clients
        BY <2>2 DEF Types!Clients
      <3> QED
        BY <1>2, <2>2, <3>1, TypesActions DEF Handshake, Types!Next
    <2> QED
      BY <2>1, <2>2
  <1>3. ASSUME NEW n \in Node, Disconnect(n) PROVE Types!Next
    BY <1>3, TypesActions DEF Disconnect, Types!Next
  <1>4. ASSUME NEW n \in Resettable, Reset(n) PROVE Types!Next
    BY <1>4, TypesActions, StreamAssumption DEF Reset, Types!Next
  <1>5. ASSUME NEW m \in Node, NEW n \in Node, Deliver(m, n) PROVE Types!Next
    BY <1>5, TypesActions DEF Deliver, Types!Next
  <1> QED
    BY <1>1, <1>2, <1>3, <1>4, <1>5

(* A step of board n, outside write and read, that puts no frame on a line. *)
LEMMA BoardTyped ==
    ASSUME TypeInv, NEW n \in Node, Free(n), Types!IInv', LinesOffered(net'),
           sock'[n].ringbuf = sock[n].ringbuf,
           \A m \in Node \ {n} : sock'[m] = sock[m] /\ call'[m] = call[m],
           UNCHANGED <<dataVars, resets>>
    PROVE  TypeInv'
  <1>1. /\ w' = w /\ offered' = offered /\ got' = got /\ reading' = reading
        /\ result' = result /\ losses' = losses /\ resets' = resets
    BY DEF dataVars
  <1>2. WriteInRange'
    BY <1>1 DEF TypeInv, WriteInRange, Data!NoWrite
  <1>3. FramesOffered'
    <2>1. \A m \in Node : sock'[m].ringbuf = sock[m].ringbuf
      OBVIOUS
    <2> QED
      BY <1>1, <2>1 DEF TypeInv, FramesOffered, LinesOffered
  <1>4. CallsApart'
    <2>1. n = Sender => ~w.active
      BY DEF Free
    <2>2. n = Receiver => ~reading
      BY Boards DEF Free
    <2>3. n # Sender => sock'[Sender] = sock[Sender]
      BY Boards
    <2>4. n # Receiver => call'[Receiver] = call[Receiver]
      BY Boards
    <2> QED
      BY <1>1, <2>1, <2>2, <2>3, <2>4 DEF TypeInv, CallsApart
  <1>5. Counted'
    BY <1>1 DEF TypeInv, Counted
  <1> QED
    BY <1>2, <1>3, <1>4, <1>5 DEF TypeInv

(* The packets of the handshake carry no frame. *)
LEMMA NoFrameSent ==
    ASSUME NEW lines \in [Route -> Seq(PlainPacket)], LinesOffered(lines), NEW n \in Node,
           NEW s \in PlainSocket
    PROVE  /\ LinesOffered(Transmit(lines, SynPacket(n, s)))
           /\ LinesOffered(Transmit(lines, AckPacket(n, s)))
           /\ Transmit(lines, AckPacket(n, s)) \in [Route -> Seq(PlainPacket)]
           /\ LinesOffered(LinesAfterDisconnect(lines, n, s))
  <1>1. /\ SynPacket(n, s) \in PlainPacket /\ SynPacket(n, s).type # "DATA"
        /\ AckPacket(n, s) \in PlainPacket /\ AckPacket(n, s).type # "DATA"
        /\ ClosePacket(n, s) \in PlainPacket /\ ClosePacket(n, s).type # "DATA"
    BY SocketAssumption DEF SynPacket, AckPacket, ClosePacket, ToRemote, PlainPacket, PlainSocket, MessageType
  <1> QED
    BY <1>1, TransmitOffered DEF LinesAfterDisconnect

LEMMA HandshakeTyped ==
    ASSUME TypeInv, NEW n \in Node, Handshake(n)
    PROVE  TypeInv'
  <1> DEFINE s == sock[n]
             Quiet == /\ LinesOffered(net')
                      /\ sock'[n].ringbuf = s.ringbuf
                      /\ \A m \in Node \ {n} : sock'[m] = sock[m] /\ call'[m] = call[m]
  <1>1. /\ Types!IInv /\ Types!IInv' /\ LinesOffered(net) /\ Free(n)
        /\ UNCHANGED <<dataVars, resets>>
    BY ConnectionStep DEF TypeInv, FramesOffered, Handshake
  <1>2. /\ s \in PlainSocket /\ net \in [Route -> Seq(PlainPacket)]
        /\ DOMAIN sock = Node /\ DOMAIN call = Node
    BY <1>1, TypesFacts
  <1>3. ASSUME NEW t, t.ringbuf = s.ringbuf, sock' = [sock EXCEPT ![n] = t],
               NEW c, call' = [call EXCEPT ![n] = c], LinesOffered(net')
        PROVE  Quiet
    BY <1>2, <1>3
  <1> SUFFICES Quiet
    BY <1>1, BoardTyped
  <1> HIDE DEF Quiet
  <1>4. CASE Conn!Listen(n)
    <2> DEFINE t == [s EXCEPT !.state = "LISTENING"]
    <2>1. sock' = [sock EXCEPT ![n] = t] /\ net' = net /\ call' = call
      BY <1>4 DEF Conn!Listen
    <2>2. t.ringbuf = s.ringbuf /\ LinesOffered(net')
      BY <1>1, <1>2, <2>1 DEF PlainSocket
    <2>3. call' = [call EXCEPT ![n] = call[n]]
      BY <1>1, <2>1, TypesFacts
    <2> HIDE DEF t
    <2> QED
      BY <1>3, <2>1, <2>2, <2>3
  <1>5. CASE Conn!AcceptBegin(n)
    <2> DEFINE t == [AfterSyn(s) EXCEPT !.state = "PENDING"]
               lines == Transmit(net, AckPacket(n, s))
    <2>1. /\ net' = Transmit(lines, SynPacket(n, s))
          /\ sock' = [sock EXCEPT ![n] = t] /\ call' = [call EXCEPT ![n] = "accept"]
      BY <1>5, ConnWords DEF Conn!AcceptBegin
    <2>2. t.ringbuf = s.ringbuf
      BY <1>2 DEF AfterSyn, PlainSocket
    <2>3. LinesOffered(lines) /\ lines \in [Route -> Seq(PlainPacket)]
      BY <1>1, <1>2, NoFrameSent
    <2> HIDE DEF lines, t
    <2>4. LinesOffered(net')
      BY <1>2, <2>1, <2>3, NoFrameSent
    <2> QED
      BY <1>3, <2>1, <2>2, <2>4
  <1>6. ASSUME sock' = [sock EXCEPT ![n] = Disconnected(s)],
               net' = LinesAfterDisconnect(net, n, s), call' = [call EXCEPT ![n] = "none"]
        PROVE  Quiet
    <2>1. Disconnected(s).ringbuf = s.ringbuf
      BY <1>2 DEF Disconnected, PlainSocket
    <2>2. LinesOffered(net')
      BY <1>1, <1>2, <1>6, NoFrameSent
    <2> QED
      BY <1>3, <1>6, <2>1, <2>2
  <1>7. CASE Conn!AcceptReturn(n)
    <2>1. CASE s.state = "OPEN"
      <3>1. sock' = sock /\ net' = net /\ call' = [call EXCEPT ![n] = "none"]
        BY <1>7, <2>1 DEF Conn!AcceptReturn
      <3>2. sock' = [sock EXCEPT ![n] = s] /\ LinesOffered(net')
        BY <1>1, <3>1, TypesFacts
      <3> QED
        BY <1>3, <3>1, <3>2
    <2>2. CASE s.state # "OPEN"
      BY <1>6, <1>7, <2>2, ConnWords DEF Conn!AcceptReturn
    <2> QED
      BY <2>1, <2>2
  <1>8. CASE Conn!AcceptTimeout(n)
    BY <1>6, <1>8, ConnWords DEF Conn!AcceptTimeout
  <1>9. ASSUME NEW server \in Servers, Conn!ConnectBegin(n, server)
        PROVE  Quiet
    <2> DEFINE x == [s EXCEPT !.remote = server, !.remote_port = PortOf[server]]
               t == [AfterSyn(x) EXCEPT !.state = "SYN_SENT"]
    <2>1. /\ net' = Transmit(net, SynPacket(n, x))
          /\ sock' = [sock EXCEPT ![n] = t] /\ call' = [call EXCEPT ![n] = "connect"]
      BY <1>9, ConnWords DEF Conn!ConnectBegin
    <2>2. server \in Node /\ PortOf[server] \in Nat
      BY SocketAssumption
    <2>3. x \in PlainSocket /\ x.ringbuf = s.ringbuf /\ t.ringbuf = s.ringbuf
      BY <1>2, <2>2 DEF PlainSocket, Address, AfterSyn
    <2> HIDE DEF x, t
    <2>4. LinesOffered(net')
      BY <1>1, <1>2, <2>1, <2>3, NoFrameSent
    <2> QED
      BY <1>3, <2>1, <2>3, <2>4
  <1>10. CASE Conn!ConnectReturn(n)
    <2>1. CASE s.state = "SYN_RECVED"
      <3> DEFINE t == [s EXCEPT !.state = "OPEN"]
      <3>1. /\ net' = Transmit(net, AckPacket(n, s)) /\ sock' = [sock EXCEPT ![n] = t]
            /\ call' = [call EXCEPT ![n] = "none"]
        BY <1>10, <2>1, ConnWords DEF Conn!ConnectReturn
      <3>2. t.ringbuf = s.ringbuf /\ LinesOffered(net')
        BY <1>1, <1>2, <3>1, NoFrameSent DEF PlainSocket
      <3> HIDE DEF t
      <3> QED
        BY <1>3, <3>1, <3>2
    <2>2. CASE s.state # "SYN_RECVED"
      BY <1>6, <1>10, <2>2, ConnWords DEF Conn!ConnectReturn
    <2> QED
      BY <2>1, <2>2
  <1>11. CASE Conn!ConnectTimeout(n)
    <2> DEFINE t == [s EXCEPT !.state = "CLOSED"]
    <2>1. /\ sock' = [sock EXCEPT ![n] = t] /\ net' = net
          /\ call' = [call EXCEPT ![n] = "none"]
      BY <1>11 DEF Conn!ConnectTimeout
    <2>2. t.ringbuf = s.ringbuf /\ LinesOffered(net')
      BY <1>1, <1>2, <2>1 DEF PlainSocket
    <2> HIDE DEF t
    <2> QED
      BY <1>3, <2>1, <2>2
  <1> QED
    BY <1>4, <1>5, <1>7, <1>8, <1>9, <1>10, <1>11 DEF Handshake

LEMMA DisconnectTyped ==
    ASSUME TypeInv, NEW n \in Node, Disconnect(n)
    PROVE  TypeInv'
  <1> DEFINE s == sock[n]
  <1>1. /\ Types!IInv /\ Types!IInv' /\ LinesOffered(net) /\ Free(n)
        /\ UNCHANGED <<dataVars, resets>> /\ call' = call
        /\ sock' = [sock EXCEPT ![n] = Disconnected(s)]
        /\ net' = LinesAfterDisconnect(net, n, s)
    BY ConnectionStep, ConnWords DEF TypeInv, FramesOffered, Disconnect, Conn!Disconnect
  <1>2. /\ s \in PlainSocket /\ net \in [Route -> Seq(PlainPacket)] /\ DOMAIN sock = Node
    BY <1>1, TypesFacts
  <1>3. LinesOffered(net')
    BY <1>1, <1>2, NoFrameSent
  <1>4. sock'[n].ringbuf = s.ringbuf /\ \A m \in Node \ {n} : sock'[m] = sock[m]
    BY <1>1, <1>2 DEF Disconnected, PlainSocket
  <1> QED
    BY <1>1, <1>3, <1>4, BoardTyped

LEMMA DeliverTyped ==
    ASSUME TypeInv, NEW m \in Node, NEW n \in Node, Deliver(m, n)
    PROVE  TypeInv'
  <1> DEFINE r == <<m, n>>
             s == sock[n]
             p == Head(net[r])
             t == Received(n, s, p)
             rest == Consume(net, r)
  <1>1. /\ Types!IInv /\ Types!IInv' /\ LinesOffered(net)
        /\ UNCHANGED <<dataVars, resets>> /\ call' = call /\ net[r] # <<>>
        /\ sock' = [sock EXCEPT ![n] = t]
        /\ net' = LinesAfter(net, r, n, s, p)
    BY ConnectionStep, ConnHandlers DEF TypeInv, FramesOffered, Deliver, Conn!Deliver
  <1>2. /\ s \in PlainSocket /\ net \in [Route -> Seq(PlainPacket)] /\ DOMAIN sock = Node
        /\ s.ringbuf \in Seq(Frame) /\ r \in Route
    BY <1>1, TypesFacts DEF TypeInv, FramesOffered, Route
  <1> HIDE DEF r
  <1>3. /\ rest \in [Route -> Seq(PlainPacket)] /\ LinesOffered(rest)
        /\ p \in PlainPacket /\ (p.type = "DATA" => p.arg \in Frame)
    BY <1>1, <1>2, ConsumeOffered
  <1> HIDE DEF p
  <1>4. t.ringbuf \in Seq(Frame) /\ (s.remote_port # Undef => t.remote_port # Undef)
    BY <1>2, <1>3, ReceivedOffered
  <1>5. sock'[n] = t /\ \A k \in Node \ {n} : sock'[k] = sock[k]
    BY <1>1, <1>2
  <1>6. t \in PlainSocket
    BY <1>1, <1>5, TypesPlain DEF Types!IInv
  <1> HIDE DEF t, rest
  <1>7. LinesOffered(net')
    <2>1. LinesOffered(Transmit(rest, AckPacket(n, t)))
      BY <1>3, <1>6, NoFrameSent
    <2> QED
      BY <1>1, <1>3, <2>1 DEF LinesAfter, rest, t
  <1>8. /\ w' = w /\ offered' = offered /\ got' = got /\ reading' = reading
        /\ result' = result /\ losses' = losses /\ resets' = resets
    BY <1>1 DEF dataVars
  <1>9. WriteInRange' /\ Counted'
    BY <1>8 DEF TypeInv, WriteInRange, Data!NoWrite, Counted
  <1>10. FramesOffered'
    BY <1>4, <1>5, <1>7, <1>8 DEF TypeInv, FramesOffered
  <1>11. CallsApart'
    <2>1. sock'[Sender].remote_port # Undef \/ sock[Sender].remote_port = Undef
      BY <1>4, <1>5, Boards
    <2> QED
      BY <1>1, <1>8, <2>1 DEF TypeInv, CallsApart
  <1> QED
    BY <1>1, <1>9, <1>10, <1>11 DEF TypeInv

LEMMA LoseTyped ==
    ASSUME TypeInv, NEW m \in Node, NEW n \in Node, Lose(m, n)
    PROVE  TypeInv'
  <1> DEFINE r == <<m, n>>
  <1>1. /\ losses < MaxLoss /\ net[r] # <<>> /\ net' = Consume(net, r) /\ losses' = losses + 1
        /\ sock' = sock /\ call' = call /\ w' = w /\ offered' = offered
        /\ result' = result /\ reading' = reading /\ got' = got /\ resets' = resets
    BY DataWords DEF Lose, Data!Lose
  <1>2. /\ Types!IInv /\ LinesOffered(net) /\ net \in [Route -> Seq(PlainPacket)]
        /\ Types!GoodLines(net) /\ r \in Route
    BY TypesFacts DEF TypeInv, FramesOffered, Route
  <1> HIDE DEF r
  <1>3. LinesOffered(net')
    BY <1>1, <1>2, ConsumeOffered
  <1>4. Types!GoodLines(net')
    <2>1. r \in Types!Route /\ net' = Types!Consume(net, r)
      BY <1>1, <1>2, TypesWords
    <2> QED
      BY <1>1, <1>2, <2>1, TypesAssumed, Types!ConsumeGood
  <1>5. Types!IInv'
    BY <1>1, <1>2, <1>4 DEF Types!IInv, Types!GoodSocket, Types!GoodServer, Types!GoodClient
  <1>6. WriteInRange' /\ CallsApart' /\ FramesOffered'
    BY <1>1, <1>3 DEF TypeInv, WriteInRange, Data!NoWrite, CallsApart, FramesOffered
  <1>7. Counted'
    BY <1>1, StreamAssumption DEF TypeInv, Counted
  <1> QED
    BY <1>5, <1>6, <1>7 DEF TypeInv

-----------------------------------------------------------------------------
(* The steps of write and read. *)

(* A burst lies within its message. *)
LEMMA BurstInRange ==
    ASSUME NEW len \in Nat, NEW pos \in Nat, pos < len, NEW noack \in Nat,
           w' = Data!Burst(len, pos, noack),
           offered \in Nat, offered' = offered, offered + len <= MaxFrames
    PROVE  WriteInRange' /\ w'.len = len /\ w'.pos = pos
  <1> DEFINE n == IF len - pos > BurstSz THEN BurstSz ELSE len - pos
  <1>1. n \in 0 .. BurstSz /\ n > 0 /\ pos + n <= len /\ n \in Nat /\ 0 \in 0 .. BurstSz
    BY Sizes
  <1>2. w' = [active |-> TRUE, len |-> len, pos |-> pos, n |-> n, sent |-> 0, noack |-> noack]
    BY DEF Data!Burst
  <1> HIDE DEF n
  <1> QED
    BY <1>1, <1>2 DEF WriteInRange

(* A socket whose call stays what it is. *)
LEMMA EndTyped ==
    ASSUME Types!IInv, NEW n \in Node, NEW t, t \in Types!Socket,
           t.state = sock[n].state, t.remote_port = sock[n].remote_port,
           t.remote_sequence = sock[n].remote_sequence,
           sock' = [sock EXCEPT ![n] = t], call' = call, Types!GoodLines(net')
    PROVE  Types!IInv'
  <1>1. Types!GoodSocket(n, sock[n], call[n])
    BY TypesFacts
  <1>2. Types!GoodSocket(n, t, call[n])
    BY <1>1 DEF Types!GoodSocket, Types!GoodServer, Types!GoodClient, Types!HasPeer
  <1> QED
    BY <1>2, TypesAssumed, Types!SameCall

(* A step of write: the rest of the board stays what it was. *)
LEMMA WriteTyped ==
    ASSUME TypeInv, Types!IInv', WriteInRange', LinesOffered(net'),
           \A n \in Node : /\ sock'[n].ringbuf = sock[n].ringbuf
                           /\ sock'[n].remote_port = sock[n].remote_port,
           w'.active => sock[Sender].remote_port # Undef,
           result'.ret \in {"none", "OK", "TIMEOUT", "ACK_OUT_OF_SEQUENCE"},
           UNCHANGED <<call, reading, got, losses, resets>>
    PROVE  TypeInv'
  <1>1. FramesOffered'
    BY DEF TypeInv, FramesOffered
  <1>2. CallsApart'
    BY Boards DEF TypeInv, CallsApart
  <1>3. Counted'
    BY DEF TypeInv, Counted
  <1> QED
    BY <1>1, <1>2, <1>3 DEF TypeInv

LEMMA WriteBeginTyped ==
    ASSUME TypeInv, WriteBegin
    PROVE  TypeInv'
  <1>1. PICK len \in Lens : Data!WriteBegin(len)
    BY DEF WriteBegin
  <1>2. /\ w' = Data!Burst(len, 0, 0) /\ offered' = offered /\ got' = got
        /\ sock' = sock /\ net' = net /\ call' = call
        /\ offered + len <= MaxFrames /\ sock[Sender].state = "OPEN"
        /\ result' = result /\ reading' = reading /\ losses' = losses /\ resets' = resets
    BY <1>1 DEF Data!WriteBegin, WriteBegin
  <1>3. len \in Nat /\ 0 < len /\ offered \in Nat
    BY StreamAssumption DEF TypeInv, WriteInRange
  <1>4. WriteInRange'
    BY <1>2, <1>3, BurstInRange
  <1>5. Types!IInv /\ Types!IInv' /\ LinesOffered(net')
    BY <1>2, ConnectionStep DEF TypeInv, FramesOffered
  <1>6. sock[Sender].remote_port # Undef
    <2>1. Types!GoodSocket(Sender, sock[Sender], call[Sender])
      BY <1>5, TypesFacts, Boards
    <2> QED
      BY <1>2, <2>1 DEF Types!GoodSocket, Types!GoodServer, Types!GoodClient, Types!HasPeer
  <1>7. result'.ret \in {"none", "OK", "TIMEOUT", "ACK_OUT_OF_SEQUENCE"}
    BY <1>2 DEF TypeInv, Counted
  <1> QED
    BY <1>2, <1>4, <1>5, <1>6, <1>7, WriteTyped

LEMMA SendFrameTyped ==
    ASSUME TypeInv, SendFrame
    PROVE  TypeInv'
  <1> DEFINE s == sock[Sender]
             p == Data!DataPacket(w.sent)
             arg == offered + w.pos + w.sent + 1
  <1>1. /\ w.active /\ w.sent < w.n /\ net' = Transmit(net, p)
        /\ w' = [w EXCEPT !.sent = @ + 1]
        /\ sock' = sock /\ call' = call /\ offered' = offered /\ got' = got
        /\ result' = result /\ reading' = reading /\ losses' = losses /\ resets' = resets
    BY DataWords DEF SendFrame, Data!SendFrame
  <1>2. /\ w.sent + 1 \in 0 .. BurstSz /\ w.sent \in Nat /\ w.n \in Nat
        /\ w.sent + 1 <= w.n /\ w.pos \in Nat /\ w.len \in Nat /\ w.pos + w.n <= w.len
        /\ offered \in Nat /\ offered + w.len <= MaxFrames
    BY <1>1, Sizes DEF TypeInv, WriteInRange
  <1>3. WriteInRange' /\ w'.active
    BY <1>1, <1>2 DEF TypeInv, WriteInRange
  <1>4. arg \in Frame /\ arg \in Nat
    BY <1>2, Caps DEF Frame
  <1>5. /\ s \in Types!Socket /\ s.remote_port # Undef /\ Types!GoodLines(net)
        /\ net \in [Route -> Seq(PlainPacket)] /\ LinesOffered(net)
    BY <1>1, TypesFacts, Boards DEF TypeInv, CallsApart, FramesOffered
  <1>6. Data!SlotSeq(w.sent) \in SeqNum
    <2>1. s.sequence_number \in Nat
      BY <1>5, TypesPlain, Sizes DEF PlainSocket
    <2>2. s.sequence_number + w.sent + 1 \in Nat
      BY <1>2, <2>1
    <2> QED
      BY <2>2, Sizes DEF Data!SlotSeq, SeqNum
  <1>7. p = ToRemote(Sender, s, "DATA", Data!SlotSeq(w.sent), arg)
    BY DataWords DEF Data!DataPacket
  <1> HIDE DEF arg
  <1>8. p \in Types!GoodPacket /\ p.arg = arg
    BY <1>4, <1>5, <1>6, <1>7, TypesWords, Boards
       DEF ToRemote, Types!GoodPacket, Types!Packet, Types!MessageType, Types!Socket
  <1> HIDE DEF p
  <1>9. LinesOffered(net')
    BY <1>1, <1>4, <1>5, <1>8, TypesPlain, TransmitOffered
  <1>10. Types!GoodLines(net')
    <2>1. net' = Types!Transmit(net, p)
      BY <1>1, TypesWords
    <2> QED
      BY <1>5, <1>8, <2>1, TypesAssumed, Types!TransmitGood
  <1>11. Types!IInv'
    BY <1>1, <1>10 DEF TypeInv, Types!IInv, Types!GoodSocket, Types!GoodServer, Types!GoodClient
  <1>12. result'.ret \in {"none", "OK", "TIMEOUT", "ACK_OUT_OF_SEQUENCE"}
    BY <1>1 DEF TypeInv, Counted
  <1> QED
    BY <1>1, <1>3, <1>5, <1>9, <1>11, <1>12, WriteTyped

(* The counter may wrap here: an ACK of the last number matches every empty
   slot, and each adds its index.                                           *)
LEMMA AdvanceTyped ==
    ASSUME TypeInv, Data!BurstOver,
           NEW ack, Data!FrameFound(ack) \/ Data!EmptyFound(ack)
    PROVE  /\ (sock[Sender].sequence_number + Data!SlotAdvance(ack)) % SeqMod \in SeqNum
           /\ Data!NextPos(ack) \in Nat /\ Data!NextPos(ack) <= w.len
  <1> DEFINE k == Data!FrameSlot(ack)
  <1>1. /\ w.n \in Nat /\ w.pos \in Nat /\ w.len \in Nat /\ w.pos + w.n <= w.len
        /\ BurstSz \in Nat
    BY Sizes DEF TypeInv, WriteInRange
  <1>2. Data!FrameFound(ack) => k \in 0 .. w.n - 1
    BY DEF Data!FrameFound, Data!FrameSlot
  <1>3. Data!EmptySlotSum \in Int
    <2>1. (BurstSz - w.n) * (BurstSz + w.n - 1) \in Int
      BY <1>1
    <2> QED
      BY <2>1 DEF Data!EmptySlotSum
  <1> HIDE DEF k
  <1>4. Data!SlotAdvance(ack) \in Int
    <2>1. (IF Data!FrameFound(ack) THEN k ELSE 0) \in Int
      BY <1>1, <1>2
    <2>2. (IF Data!EmptyFound(ack) THEN Data!EmptySlotSum ELSE 0) \in Int
      BY <1>3
    <2> QED
      BY <2>1, <2>2 DEF Data!SlotAdvance, k
  <1>5. sock[Sender].sequence_number \in Nat
    BY TypesFacts, Boards, Sizes DEF TypeInv, PlainSocket
  <1>6. (sock[Sender].sequence_number + Data!SlotAdvance(ack)) % SeqMod \in SeqNum
    BY <1>4, <1>5, Sizes DEF SeqNum
  <1>7. Data!NextPos(ack) \in Nat /\ Data!NextPos(ack) <= w.len
    BY <1>1, <1>2 DEF Data!NextPos, k
  <1> QED
    BY <1>6, <1>7

LEMMA DecideTyped ==
    ASSUME TypeInv, Decide
    PROVE  TypeInv'
  <1> DEFINE ack == sock[Sender].last_recved_ack
             s == sock[Sender]
             next == Data!NextPos(ack)
             c == (s.sequence_number + Data!SlotAdvance(ack)) % SeqMod
  <1>1. /\ call' = call /\ resets' = resets /\ net' = net /\ got' = got
        /\ reading' = reading /\ losses' = losses /\ Data!BurstOver
    BY DEF Decide, Data!Resend, Data!GiveUp, Data!Progress, Data!OutOfSequence, Data!Return
  <1>2. /\ Types!IInv /\ LinesOffered(net) /\ w.n > 0 /\ w.noack \in Nat
        /\ w.pos \in Nat /\ w.len \in Nat /\ w.n \in Nat /\ w.pos + w.n <= w.len
        /\ offered \in Nat /\ offered + w.len <= MaxFrames /\ w.active
        /\ s.remote_port # Undef
    BY <1>1 DEF TypeInv, WriteInRange, FramesOffered, CallsApart, Data!BurstOver
  <1>3. /\ Types!IInv'
        /\ \A n \in Node : /\ sock'[n].ringbuf = sock[n].ringbuf
                           /\ sock'[n].remote_port = sock[n].remote_port
    <2>1. CASE sock' = sock
      BY <1>1, <1>2, <2>1, ConnectionStep
    <2>2. CASE Data!Progress
      <3> DEFINE t == [s EXCEPT !.sequence_number = c]
      <3>1. c \in SeqNum
        BY <1>1, <2>2, AdvanceTyped DEF Data!Progress
      <3>2. sock' = [sock EXCEPT ![Sender] = t]
        BY <2>2 DEF Data!Progress
      <3> HIDE DEF c
      <3>3. /\ sock \in [Node -> Types!Socket] /\ s \in Types!Socket /\ Types!GoodLines(net')
        BY <1>1, <1>2, TypesFacts, Boards
      <3>4. /\ t \in Types!Socket /\ t.state = s.state /\ t.remote_port = s.remote_port
            /\ t.remote_sequence = s.remote_sequence /\ t.ringbuf = s.ringbuf
        BY <3>1, <3>3, TypesWords DEF Types!Socket
      <3> HIDE DEF t
      <3>5. Types!IInv'
        BY <1>1, <1>2, <3>2, <3>3, <3>4, EndTyped, Boards
      <3> QED
        BY <3>2, <3>3, <3>4, <3>5, Boards
    <2> QED
      BY <2>1, <2>2 DEF Decide, Data!Resend, Data!GiveUp, Data!OutOfSequence
  <1>4. \/ \E ret \in {"OK", "TIMEOUT", "ACK_OUT_OF_SEQUENCE"} : Data!Return(ret)
        \/ \E pos, noack \in Nat :
              /\ pos < w.len /\ w' = Data!Burst(w.len, pos, noack)
              /\ offered' = offered /\ result' = result
    <2>1. CASE Data!Resend
      <3>1. w.pos < w.len /\ w.noack + 1 \in Nat
        BY <1>2
      <3> QED
        BY <1>2, <2>1, <3>1 DEF Data!Resend
    <2>2. CASE Data!Progress
      <3>1. next \in Nat /\ next <= w.len
        BY <1>1, <2>2, AdvanceTyped DEF Data!Progress
      <3>2. \/ Data!Return("OK")
            \/ /\ next # w.len /\ w' = Data!Burst(w.len, next, w.noack)
               /\ offered' = offered /\ result' = result
        BY <2>2 DEF Data!Progress
      <3> HIDE DEF next
      <3>3. next # w.len => next < w.len
        BY <1>2, <3>1
      <3> QED
        BY <1>2, <3>1, <3>2, <3>3
    <2> QED
      BY <2>1, <2>2 DEF Decide, Data!GiveUp, Data!OutOfSequence
  <1> HIDE DEF ack, s, next, c
  <1>5. /\ WriteInRange'
        /\ result'.ret \in {"none", "OK", "TIMEOUT", "ACK_OUT_OF_SEQUENCE"}
    <2>1. ASSUME NEW ret \in {"OK", "TIMEOUT", "ACK_OUT_OF_SEQUENCE"}, Data!Return(ret)
          PROVE  /\ WriteInRange' /\ result'.ret = ret
      <3>1. /\ w' = Data!NoWrite /\ offered' = offered + w.len /\ result'.ret = ret
        BY <2>1 DEF Data!Return
      <3>2. w'.len = 0 /\ offered' \in Nat /\ offered' + 0 <= MaxFrames
        BY <1>2, <3>1, Caps DEF Data!NoWrite
      <3> QED
        BY <3>1, <3>2, Sizes DEF WriteInRange, Data!NoWrite
    <2>2. ASSUME NEW pos \in Nat, NEW noack \in Nat, pos < w.len,
                 w' = Data!Burst(w.len, pos, noack), offered' = offered, result' = result
          PROVE  WriteInRange' /\ result' = result
      BY <1>2, <2>2, BurstInRange
    <2>3. result.ret \in {"none", "OK", "TIMEOUT", "ACK_OUT_OF_SEQUENCE"}
      BY DEF TypeInv, Counted
    <2> QED
      BY <1>4, <2>1, <2>2, <2>3
  <1>6. LinesOffered(net')
    BY <1>1, <1>2
  <1> QED
    BY <1>1, <1>2, <1>3, <1>5, <1>6, WriteTyped DEF s

(* A step of read: what write does and the sender's socket stay. *)
LEMMA ReadTyped ==
    ASSUME TypeInv, Types!IInv', LinesOffered(net'),
           sock'[Sender] = sock[Sender], sock'[Receiver].ringbuf \in Seq(Frame),
           got' \in Seq(Frame), reading' \in BOOLEAN,
           reading' => call'[Receiver] = "none",
           UNCHANGED <<w, offered, result, losses, resets>>
    PROVE  TypeInv'
  <1>1. WriteInRange'
    BY DEF TypeInv, WriteInRange, Data!NoWrite
  <1>2. FramesOffered'
    BY Boards DEF TypeInv, FramesOffered
  <1>3. CallsApart' /\ Counted'
    BY DEF TypeInv, CallsApart, Counted
  <1> QED
    BY <1>1, <1>2, <1>3 DEF TypeInv

LEMMA ReadBeginTyped ==
    ASSUME TypeInv, ReadBegin
    PROVE  TypeInv'
  <1>1. /\ call[Receiver] = "none" /\ reading' = TRUE
        /\ UNCHANGED <<sock, call, net, got, w, offered, result, losses, resets>>
    BY DEF ReadBegin, Data!ReadBegin
  <1>2. Types!IInv'
    BY <1>1, ConnectionStep DEF TypeInv
  <1>3. LinesOffered(net') /\ sock'[Receiver].ringbuf \in Seq(Frame) /\ got' \in Seq(Frame)
    BY <1>1, Boards DEF TypeInv, FramesOffered
  <1> QED
    BY <1>1, <1>2, <1>3, ReadTyped

LEMMA ReadEndTyped ==
    ASSUME TypeInv, ReadEnd
    PROVE  TypeInv'
  <1> DEFINE s == sock[Receiver]
  <1>1. /\ call[Receiver] = "none" /\ reading' = FALSE /\ call' = call
        /\ UNCHANGED <<w, offered, result, losses, resets>>
    BY DEF ReadEnd, Data!ReadFrame, Data!ReadNothing
  <1>2. /\ Types!IInv /\ LinesOffered(net) /\ s.ringbuf \in Seq(Frame) /\ got \in Seq(Frame)
        /\ call[Receiver] = "none" /\ Receiver \in Node
    BY <1>1, Boards DEF TypeInv, FramesOffered
  <1>3. /\ s \in Types!Socket /\ s \in PlainSocket /\ Types!GoodLines(net)
        /\ sock \in [Node -> Types!Socket] /\ net \in [Route -> Seq(PlainPacket)]
    BY <1>2, TypesFacts
  <1>4. CASE Data!ReadFrame
    <2> DEFINE t == [s EXCEPT !.ringbuf = Tail(s.ringbuf)]
    <2>1. /\ s.ringbuf # <<>> /\ got' = Append(got, Head(s.ringbuf)) /\ net' = net
          /\ sock' = [sock EXCEPT ![Receiver] = t]
      BY <1>4 DEF Data!ReadFrame
    <2>2. Tail(s.ringbuf) \in Seq(Frame) /\ got' \in Seq(Frame)
      BY <1>2, <2>1
    <2>3. Tail(s.ringbuf) \in Seq(Nat)
      BY <1>3, <2>1 DEF PlainSocket
    <2>4. /\ t \in Types!Socket /\ t.state = s.state /\ t.remote_port = s.remote_port
          /\ t.remote_sequence = s.remote_sequence /\ t.ringbuf = Tail(s.ringbuf)
      BY <1>3, <2>3 DEF Types!Socket
    <2> HIDE DEF t
    <2>5. Types!IInv'
      BY <1>1, <1>2, <1>3, <2>1, <2>4, EndTyped
    <2>6. sock'[Sender] = sock[Sender] /\ sock'[Receiver] = t /\ LinesOffered(net')
      BY <1>2, <1>3, <2>1, Boards
    <2> QED
      BY <1>1, <2>2, <2>4, <2>5, <2>6, ReadTyped
  <1>5. CASE Data!ReadNothing /\ s.zero_read_count < 2
    <2> DEFINE t == [s EXCEPT !.zero_read_count = s.zero_read_count + 1]
    <2>1. net' = net /\ got' = got /\ sock' = [sock EXCEPT ![Receiver] = t]
      BY <1>5 DEF Data!ReadNothing
    <2>2. s.zero_read_count + 1 \in 0 .. 2
      BY <1>3, <1>5 DEF Types!Socket
    <2>3. /\ t \in Types!Socket /\ t.state = s.state /\ t.remote_port = s.remote_port
          /\ t.remote_sequence = s.remote_sequence /\ t.ringbuf = s.ringbuf
      BY <1>3, <2>2 DEF Types!Socket
    <2> HIDE DEF t
    <2>4. Types!IInv'
      BY <1>1, <1>2, <1>3, <2>1, <2>3, EndTyped
    <2>5. sock'[Sender] = sock[Sender] /\ sock'[Receiver] = t /\ LinesOffered(net')
      BY <1>2, <1>3, <2>1, Boards
    <2> QED
      BY <1>1, <1>2, <2>1, <2>3, <2>4, <2>5, ReadTyped
  <1>6. CASE Data!ReadNothing /\ ~(s.zero_read_count < 2)
    <2> DEFINE t == [Disconnected(s) EXCEPT !.zero_read_count = 0]
    <2>1. /\ net' = LinesAfterDisconnect(net, Receiver, s) /\ got' = got
          /\ sock' = [sock EXCEPT ![Receiver] = t]
      BY <1>6, DataWords DEF Data!ReadNothing
    <2>2. /\ t \in Types!Socket /\ t.state = "CLOSED" /\ t.ringbuf = s.ringbuf
      <3>1. 0 \in 0 .. 2 /\ "CLOSED" \in Types!ConnectionState
        BY DEF Types!ConnectionState
      <3> QED
        BY <1>3, <3>1 DEF Types!Socket, Disconnected
    <2> HIDE DEF t
    <2>3. Types!GoodSocket(Receiver, t, "none")
      BY <2>2 DEF Types!GoodSocket, Types!GoodServer, Types!GoodClient
    <2>4. Types!GoodLines(net')
      <3>1. net' = Types!LinesAfterDisconnect(net, Receiver, s)
        BY <2>1, TypesWords
      <3> QED
        BY <1>2, <1>3, <3>1, TypesAssumed, Types!HangUpGood
    <2>5. Types!IInv'
      BY <1>1, <1>2, <2>1, <2>3, <2>4, TypesAssumed, Types!SameCall
    <2>6. LinesOffered(net')
      BY <1>2, <1>3, <2>1, NoFrameSent
    <2>7. sock'[Sender] = sock[Sender] /\ sock'[Receiver] = t
      BY <1>2, <1>3, <2>1, Boards
    <2> QED
      BY <1>1, <1>2, <2>1, <2>2, <2>5, <2>6, <2>7, ReadTyped
  <1> QED
    BY <1>4, <1>5, <1>6 DEF ReadEnd

LEMMA ResetTyped ==
    ASSUME TypeInv, NEW n \in Resettable, Reset(n)
    PROVE  TypeInv'
  <1>1. /\ sock' = [sock EXCEPT ![n] = NewSocket] /\ call' = [call EXCEPT ![n] = "none"]
        /\ net' = net /\ got' = got /\ result' = result /\ losses' = losses
        /\ resets < MaxResets /\ resets' = resets + 1 /\ n \in Node
    BY ConnWords, StreamAssumption DEF Reset, Conn!Recreate
  <1>2. Types!IInv /\ Types!IInv'
    BY ConnectionStep DEF TypeInv
  <1>3. /\ DOMAIN sock = Node /\ DOMAIN call = Node
        /\ offered \in Nat /\ w.len \in Nat /\ offered + w.len <= MaxFrames
    BY <1>2, TypesFacts DEF TypeInv, WriteInRange
  <1>4. WriteInRange'
    <2>1. CASE n = Sender
      <3>1. w' = Data!NoWrite /\ offered' = offered + w.len
        BY <2>1 DEF Reset
      <3>2. w'.len = 0 /\ offered' \in Nat /\ offered' + 0 <= MaxFrames
        BY <1>3, <3>1, Caps DEF Data!NoWrite
      <3> QED
        BY <3>1, <3>2, Sizes DEF WriteInRange, Data!NoWrite
    <2>2. CASE n # Sender
      <3>1. w' = w /\ offered' = offered
        BY <2>2 DEF Reset
      <3> QED
        BY <3>1 DEF TypeInv, WriteInRange, Data!NoWrite
    <2> QED
      BY <2>1, <2>2
  <1>5. FramesOffered'
    <2>1. NewSocket.ringbuf \in Seq(Frame)
      BY DEF NewSocket
    <2>2. \A m \in Node : sock'[m].ringbuf \in Seq(Frame)
      BY <1>1, <1>3, <2>1 DEF TypeInv, FramesOffered
    <2> QED
      BY <1>1, <2>2 DEF TypeInv, FramesOffered, LinesOffered
  <1>6. CallsApart'
    <2>1. CASE n = Sender
      <3>1. /\ ~w'.active /\ reading' = reading /\ call'[Receiver] = call[Receiver]
        BY <1>1, <2>1, Boards DEF Reset, Data!NoWrite
      <3> QED
        BY <3>1 DEF TypeInv, CallsApart
    <2>2. CASE n # Sender
      <3>1. /\ w' = w /\ reading' = FALSE /\ sock'[Sender] = sock[Sender]
        BY <1>1, <2>2, Boards DEF Reset
      <3> QED
        BY <3>1 DEF TypeInv, CallsApart
    <2> QED
      BY <2>1, <2>2
  <1>7. Counted'
    BY <1>1, StreamAssumption DEF TypeInv, Counted
  <1> QED
    BY <1>2, <1>4, <1>5, <1>6, <1>7 DEF TypeInv

LEMMA TypeInit == Init => TypeInv
  <1> SUFFICES ASSUME Init PROVE TypeInv
    OBVIOUS
  <1>1. Types!IInv
    <2>1. Types!Init
      BY DEF Init, Conn!Init, Types!Init, Conn!NewSocket, Types!NewSocket,
             Conn!EmptyLines, Types!EmptyLines, Conn!Route, Types!Route
    <2> QED
      BY <2>1, TypesAssumed, Types!InitGood
  <1>2. WriteInRange
    BY Sizes, Caps DEF Init, WriteInRange, Data!NoWrite
  <1>3. FramesOffered
    <2>1. sock = [n \in Node |-> NewSocket] /\ net = EmptyLines /\ got = <<>>
      BY ConnWords DEF Init, Conn!Init
    <2>2. \A r \in Route : DOMAIN net[r] = {}
      BY <2>1 DEF EmptyLines
    <2>3. \A n \in Node : sock[n].ringbuf = <<>>
      BY <2>1 DEF NewSocket
    <2>4. <<>> \in Seq(Frame)
      OBVIOUS
    <2> QED
      BY <2>1, <2>2, <2>3, <2>4 DEF FramesOffered, LinesOffered
  <1>4. CallsApart
    BY DEF Init, CallsApart, Data!NoWrite
  <1>5. Counted
    <2>1. result.ret = "none" /\ losses = 0 /\ resets = 0 /\ MaxLoss \in Nat /\ MaxResets \in Nat
      BY StreamAssumption DEF Init
    <2> QED
      BY <2>1 DEF Counted
  <1> QED
    BY <1>1, <1>2, <1>3, <1>4, <1>5 DEF TypeInv

LEMMA TypeStep == TypeInv /\ [Next]_vars => TypeInv'
  <1> SUFFICES ASSUME TypeInv, [Next]_vars PROVE TypeInv'
    OBVIOUS
  <1>1. ASSUME NEW n \in Node, Handshake(n) PROVE TypeInv'
    BY <1>1, HandshakeTyped
  <1>2. ASSUME NEW n \in Quitters, Disconnect(n) PROVE TypeInv'
    BY <1>2, DisconnectTyped, StreamAssumption
  <1>3. CASE WriteBegin
    BY <1>3, WriteBeginTyped
  <1>4. CASE SendFrame
    BY <1>4, SendFrameTyped
  <1>5. CASE Decide
    BY <1>5, DecideTyped
  <1>6. CASE ReadBegin
    BY <1>6, ReadBeginTyped
  <1>7. CASE ReadEnd
    BY <1>7, ReadEndTyped
  <1>8. ASSUME NEW m \in Node, NEW n \in Node, Deliver(m, n) PROVE TypeInv'
    BY <1>8, DeliverTyped
  <1>9. ASSUME NEW m \in Node, NEW n \in Node, Lose(m, n) PROVE TypeInv'
    BY <1>9, LoseTyped
  <1>10. ASSUME NEW n \in Resettable, Reset(n) PROVE TypeInv'
    BY <1>10, ResetTyped
  <1>11. CASE UNCHANGED vars
    <2>1. UNCHANGED <<sock, call, net, w, offered, result, reading, got, losses, resets>>
      BY <1>11 DEF vars, dataVars
    <2>2. Types!IInv'
      BY <2>1, ConnectionStep DEF TypeInv
    <2> QED
      BY <2>1, <2>2 DEF TypeInv, WriteInRange, Data!NoWrite, FramesOffered, LinesOffered,
                        CallsApart, Counted
  <1> QED
    BY <1>1, <1>2, <1>3, <1>4, <1>5, <1>6, <1>7, <1>8, <1>9, <1>10, <1>11 DEF Next

(* Every variable keeps its type over any number of resets, at the wrap of the
   counters too: a burst never reaches beyond the message that write() is
   given, and a ring, what was read and the lines only hold frames that some
   message had.                                                             *)
THEOREM StreamTypes == Spec => []TypeOK
  <1>1. TypeInv => TypeOK
    <2> SUFFICES ASSUME TypeInv PROVE TypeOK
      OBVIOUS
    <2>1. Conn!TypeOK
      <3>1. Types!IInv
        BY DEF TypeInv
      <3>2. Types!TypeOK
        <4>1. \A n \in Node : Types!GoodSocket(n, sock[n], call[n])
          BY <3>1 DEF Types!IInv
        <4>2. \A n \in Servers : n \in Node
          BY SocketAssumption
        <4>3. \A n \in Servers : Types!GoodServer(sock[n], call[n])
          BY <4>1, <4>2 DEF Types!GoodSocket
        <4>4. \A n \in Types!Clients : Types!GoodClient(sock[n], call[n])
          BY <4>1 DEF Types!GoodSocket, Types!Clients
        <4>5. net \in [Types!Route -> Seq(Types!Packet)]
              /\ \A r \in Types!Route : Len(net[r]) <= LineCap
          <5>1. \A q \in Seq(Types!GoodPacket) : q \in Seq(Types!Packet)
            BY DEF Types!GoodPacket
          <5> QED
            BY <3>1, <5>1 DEF Types!IInv, Types!GoodLines
        <4> QED
          BY <3>1, <4>3, <4>4, <4>5 DEF Types!TypeOK, Types!IInv, Types!GoodServer, Types!GoodClient
      <3> QED
        BY <3>2 DEF Types!TypeOK, Conn!TypeOK, Types!Socket, Conn!Socket,
                    Types!ConnectionState, Conn!ConnectionState, Types!Address, Conn!Address,
                    Types!Port, Conn!Port, Types!SeqNum, Conn!SeqNum, Types!Clients, Conn!Clients,
                    Types!Route, Conn!Route, Types!Packet, Conn!Packet,
                    Types!MessageType, Conn!MessageType
    <2>2. w.active => 0 < w.n /\ w.sent <= w.n /\ w.pos + w.n <= w.len
      BY DEF TypeInv, WriteInRange
    <2> QED
      BY <2>1, <2>2 DEF TypeInv, WriteInRange, FramesOffered, CallsApart, Counted, TypeOK, Frame
  <1> QED
    BY <1>1, TypeInit, TypeStep, PTL DEF Spec
=============================================================================
