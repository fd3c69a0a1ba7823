---------------------------- MODULE SocketStream ----------------------------
(***************************************************************************)
(* The vocabulary of a stream connection: the fields of a SocketStream,    *)
(* the packets it builds, and what the on_data handlers of Server and      *)
(* Client do with a packet.  Pure operators over socket records; the       *)
(* modules Connection and Transfer give them their steps.                  *)
(*                                                                         *)
(* A frame of stream data is one number (its position in everything the    *)
(* sending application ever wrote) standing for its up to 52 bytes.        *)
(***************************************************************************)
EXTENDS Line

CONSTANTS
    Servers,        \* the nodes whose socket is a Server; the others run a Client
    PortOf,         \* the port each node's socket listens on
    Address0,       \* the address 0, which `remote' holds before any packet
    Undef,          \* a byte that was never written
    SeqMod,         \* the number of values of a sequence counter: 256
    RingCap,        \* frames the receive ring buffer holds
    RingOverwrites  \* TRUE: a full ring forgets its oldest frame; FALSE: the new one

Clients == Node \ Servers
Port == { PortOf[n] : n \in Node }
Address == Node \cup {Address0}
SeqNum == 0 .. SeqMod - 1

ASSUME SocketAssumption ==
    /\ Servers \subseteq Node
    /\ SeqMod \in Nat /\ SeqMod > 2
    /\ RingCap \in Nat /\ RingCap > 0
    /\ RingOverwrites \in BOOLEAN
    /\ PortOf \in [Node -> Nat]
    /\ Undef \notin Nat

ConnectionState ==
    {"CLOSED", "SYN_SENT", "LISTENING", "SYN_RECVED", "PENDING", "OPEN"}
MessageType == {"ACK", "SYN", "DATA", "CLOSE"}

(* A socket object as its constructor leaves it.  remote_sequence and
   remote_port have no initialiser.                                         *)
NewSocket ==
    [state |-> "CLOSED", remote |-> Address0, remote_port |-> Undef,
     remote_sequence |-> Undef, sequence_number |-> 1, last_recved_ack |-> 0,
     zero_read_count |-> 0, ringbuf |-> <<>>]

Socket ==
    [state : ConnectionState, remote : Address, remote_port : Port \cup {Undef},
     remote_sequence : SeqNum \cup {Undef}, sequence_number : SeqNum,
     last_recved_ack : SeqNum, zero_read_count : 0 .. 2, ringbuf : Seq(Nat)]

-----------------------------------------------------------------------------
(* The packets.  arg is the third payload byte of a SYN (the sender's own
   port), the frame of a DATA, and 0 where there is none.                   *)

Packet ==
    [type : MessageType, src : Node, dst : Address, port : Port \cup {Undef},
     seq : SeqNum, arg : Nat]

ToRemote(n, s, type, seq, arg) ==
    [type |-> type, src |-> n, dst |-> s.remote, port |-> s.remote_port,
     seq |-> seq, arg |-> arg]

SynPacket(n, s)   == ToRemote(n, s, "SYN", s.sequence_number, PortOf[n])
ClosePacket(n, s) == ToRemote(n, s, "CLOSE", s.sequence_number, 0)

AckPacket(n, s)   == ToRemote(n, s, "ACK", s.remote_sequence, 0)

(* send_syn() counts the SYN it has sent.                                   *)
AfterSyn(s) == [s EXCEPT !.sequence_number = (@ + 1) % SeqMod]

-----------------------------------------------------------------------------
(* The ring buffer belongs to an external library; on_data never asks for
   room before it puts a frame.                                             *)
RingPut(ring, frame) ==
    IF Len(ring) < RingCap THEN Append(ring, frame)
    ELSE IF RingOverwrites THEN Append(Tail(ring), frame)
    ELSE ring

Accept(s, p) ==
    [s EXCEPT !.remote_sequence = p.seq, !.ringbuf = RingPut(@, p.arg)]

(* mutant: accepts a repetition of the last frame instead of the next one *)
NextForServerRepeats(s) == s.remote_sequence

(* The sequence number the handler expects next.  The server computes it in
   a uint8_t; the client's comparison promotes to int and does not wrap.    *)
NextForServer(s) == (s.remote_sequence + 1) % SeqMod
NextForClient(s) == s.remote_sequence + 1

(* mutant: reads the number and the port from one another's place *)
AdoptPeerSwapped(s, r, p) ==
    [s EXCEPT !.remote = r, !.remote_sequence = p.arg, !.remote_port = p.seq,
              !.state = "SYN_RECVED"]

(* mutant: the port of the peer is not kept *)
AdoptPeerNoPort(s, r, p) ==
    [s EXCEPT !.remote = r, !.remote_sequence = p.seq, !.state = "SYN_RECVED"]

(* A listening server adopts whoever sends a SYN. *)
AdoptPeer(s, r, p) ==
    [s EXCEPT !.remote = r, !.remote_sequence = p.seq, !.remote_port = p.arg,
              !.state = "SYN_RECVED"]

(* mutant: takes every DATA packet, whatever its number *)
OpenOnDataUnchecked(s, p, next) ==
    CASE p.type = "CLOSE" -> [s EXCEPT !.state = "CLOSED"]
      [] p.type = "ACK" -> [s EXCEPT !.last_recved_ack = p.seq]
      [] p.type = "DATA" -> Accept(s, p)
      [] OTHER -> s

(* What both handlers do with CLOSE, ACK and DATA once the stream is open.  *)
OpenOnData(s, p, next) ==
    CASE p.type = "CLOSE" -> [s EXCEPT !.state = "CLOSED"]
      [] p.type = "ACK" -> [s EXCEPT !.last_recved_ack = p.seq]
      [] p.type = "DATA" /\ p.seq = next -> Accept(s, p)
      [] OTHER -> s

ServerOnData(s, r, p) ==
    CASE s.state = "LISTENING" /\ p.type = "SYN" -> AdoptPeer(s, r, p)
      [] s.state \in {"SYN_RECVED", "PENDING"} /\ s.remote = r
             /\ p.type = "CLOSE" -> [s EXCEPT !.state = "CLOSED"]
      [] s.state = "PENDING" /\ s.remote = r
             /\ p.type = "ACK" -> [s EXCEPT !.state = "OPEN"]
      [] s.state = "OPEN" /\ s.remote = r -> OpenOnData(s, p, NextForServer(s))
      [] OTHER -> s

ClientOnData(s, r, p) ==
    CASE s.state = "SYN_SENT" /\ s.remote = r /\ p.type = "SYN" ->
             [s EXCEPT !.remote_sequence = p.seq, !.state = "SYN_RECVED"]
      [] s.state \in {"SYN_SENT", "SYN_RECVED"} /\ s.remote = r
             /\ p.type = "CLOSE" -> [s EXCEPT !.state = "CLOSED"]
      [] s.state = "OPEN" /\ s.remote = r -> OpenOnData(s, p, NextForClient(s))
      [] OTHER -> s

(* Interface::datagram_pack_handler: the socket's remote is set to the
   packet's source before on_data is called.                                *)
Dispatched(s, p) == [s EXCEPT !.remote = p.src]

Received(n, s, p) ==
    LET d == Dispatched(s, p)
    IN  IF n \in Servers THEN ServerOnData(d, p.src, p)
                         ELSE ClientOnData(d, p.src, p)

(* An open stream answers every DATA packet with an ACK, accepted or not.   *)
Acknowledges(s, p) == s.state = "OPEN" /\ p.type = "DATA"

(* mutant: acknowledges the number of the frame, taken or not *)
LinesAfterEchoed(lines, r, n, s, p) ==
    IF Acknowledges(s, p)
    THEN Transmit(Consume(lines, r),
                  [AckPacket(n, Received(n, s, p)) EXCEPT !.seq = p.seq])
    ELSE Consume(lines, r)

(* The lines after node n, whose socket was s, has handled p from route r.  *)
LinesAfter(lines, r, n, s, p) ==
    IF Acknowledges(s, p)
    THEN Transmit(Consume(lines, r), AckPacket(n, Received(n, s, p)))
    ELSE Consume(lines, r)

(* A socket hears the packets sent to its port; what a byte that was never
   written holds may be any port.                                           *)
Hears(n, p) == p.port \in {PortOf[n], Undef}

-----------------------------------------------------------------------------
(* SocketStream::disconnect.  The state is overwritten before it is compared
   with LISTENING, so every state but CLOSED sends a CLOSE.                 *)
Disconnected(s) == [s EXCEPT !.state = "CLOSED"]

LinesAfterDisconnect(lines, n, s) ==
    IF s.state = "CLOSED" THEN lines ELSE Transmit(lines, ClosePacket(n, s))
=============================================================================
