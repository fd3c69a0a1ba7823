------------------------------ MODULE Transfer ------------------------------
(***************************************************************************)
(* The data of a stream: SocketStream::write on one board, the on_data     *)
(* handler and SocketStream::read on the other, over an open connection.   *)
(*                                                                         *)
(* write cuts a message into frames and sends them in bursts of BurstSz;   *)
(* after a burst it polls until the ACK of the last frame is there or the  *)
(* timeout has passed, and then decides from the last ACK it received.     *)
(* Positions count frames, not bytes.                                      *)
(***************************************************************************)
EXTENDS SocketStream

CONSTANTS
    Sender, Receiver,   \* the two boards
    Quitters,           \* the boards whose application may call disconnect()
    BurstSz,            \* FRAME_BURST_SZ
    Starts,             \* the sequence state in which the transfer may begin
    Lens,               \* lengths of the messages, in frames
    MaxFrames,          \* bound: frames in all messages together
    MaxLoss,            \* bound: packets lost by the lines
    Patient             \* TRUE: a timeout only comes when nothing is under way

ASSUME TransferAssumption ==
    /\ Node = {Sender, Receiver} /\ Sender # Receiver
    /\ Quitters \subseteq Node
    /\ BurstSz \in Nat /\ BurstSz > 0
    /\ Starts \subseteq [seq : SeqNum, heard : SeqNum, ack : SeqNum]
    /\ Lens \subseteq Nat \ {0}
    /\ MaxFrames \in Nat /\ MaxLoss \in Nat
    /\ Patient \in BOOLEAN

VARIABLES
    sock,       \* the two socket objects
    net,        \* the packets on each route
    w,          \* the locals of the write call in progress
    offered,    \* frames in the messages of all finished write calls
    result,     \* what the last write returned, and for which frames
    reading,    \* the receiving application is inside read()
    got,        \* the frames the receiving application has read
    losses      \* packets lost so far

vars == <<sock, net, w, offered, result, reading, got, losses>>

NoWrite == [active |-> FALSE, len |-> 0, pos |-> 0, n |-> 0, sent |-> 0, noack |-> 0]

(* mutant: a burst always has BurstSz frames *)
BurstUnclipped(len, pos, noack) ==
    [active |-> TRUE, len |-> len, pos |-> pos, n |-> BurstSz,
     sent |-> 0, noack |-> noack]

(* The top of the outer loop: up to BurstSz of the frames after pos go into
   the next burst.                                                          *)
Burst(len, pos, noack) ==
    [active |-> TRUE, len |-> len, pos |-> pos,
     n |-> IF len - pos > BurstSz THEN BurstSz ELSE len - pos,
     sent |-> 0, noack |-> noack]

OpenTo(peer, s) ==
    [s EXCEPT !.state = "OPEN", !.remote = peer, !.remote_port = PortOf[peer]]

(* A connection is open.  Its sequence numbers are those a handshake and the
   transfers before have left (seq: the sender's sequence_number, heard: the
   receiver's remote_sequence, ack: the sender's last_recved_ack).          *)
Init ==
    /\ \E st \in Starts :
         sock = [n \in Node |->
                   IF n = Sender
                   THEN [OpenTo(Receiver, NewSocket) EXCEPT
                           !.sequence_number = st.seq, !.remote_sequence = 1,
                           !.last_recved_ack = st.ack]
                   ELSE [OpenTo(Sender, NewSocket) EXCEPT
                           !.sequence_number = 2, !.remote_sequence = st.heard]]
    /\ net = EmptyLines
    /\ w = NoWrite
    /\ offered = 0
    /\ result = [ret |-> "none", first |-> 1, last |-> 0]
    /\ reading = FALSE
    /\ got = <<>>
    /\ losses = 0

-----------------------------------------------------------------------------
(* SocketStream::write on the sender                                        *)

(* mutant: numbers the first frame of a burst with sequence_number itself *)
SlotSeqFromZero(i) == (sock[Sender].sequence_number + i) % SeqMod

(* The sequence number of frame i of the burst, counted from 0. *)
SlotSeq(i) == (sock[Sender].sequence_number + i + 1) % SeqMod

DataPacket(i) ==
    ToRemote(Sender, sock[Sender], "DATA", SlotSeq(i), offered + w.pos + i + 1)

WriteBegin(len) ==
    /\ ~w.active
    /\ sock[Sender].state = "OPEN"
    /\ offered + len <= MaxFrames
    /\ w' = Burst(len, 0, 0)
    /\ UNCHANGED <<sock, net, offered, result, reading, got, losses>>

SendFrame ==
    /\ w.active
    /\ w.sent < w.n
    /\ net' = Transmit(net, DataPacket(w.sent))
    /\ w' = [w EXCEPT !.sent = @ + 1]
    /\ UNCHANGED <<sock, offered, result, reading, got, losses>>

MayTimeOut == Patient => net = EmptyLines

(* The inner loop ends: the last frame is acknowledged, or time is up. *)
BurstOver ==
    /\ w.active
    /\ w.sent = w.n
    /\ sock[Sender].last_recved_ack = SlotSeq(w.n - 1) \/ MayTimeOut

Return(ret) ==
    /\ w' = NoWrite
    /\ offered' = offered + w.len
    /\ result' = [ret |-> ret, first |-> offered + 1, last |-> offered + w.len]
    /\ UNCHANGED <<net, reading, got, losses>>

(* The last ACK is still the one from before the burst. *)
Silent == sock[Sender].last_recved_ack = sock[Sender].sequence_number

(* mutant: resends without counting *)
ResendUncounted ==
    /\ BurstOver /\ Silent
    /\ w.noack < 2
    /\ w' = Burst(w.len, w.pos, w.noack)
    /\ UNCHANGED <<sock, net, offered, result, reading, got, losses>>

Resend ==
    /\ BurstOver /\ Silent
    /\ w.noack < 2
    /\ w' = Burst(w.len, w.pos, w.noack + 1)
    /\ UNCHANGED <<sock, net, offered, result, reading, got, losses>>

GiveUp ==
    /\ BurstOver /\ Silent
    /\ w.noack = 2
    /\ Return("TIMEOUT")
    /\ UNCHANGED sock

(* The search for the last ACK runs over all BurstSz slots.  Slots without a
   frame hold seq_tuple(-1, 0), whose uint8_t number is the largest; every
   slot that matches adds its index to sequence_number, and the last one
   that matches gives the position.                                         *)
MatchesFrame(ack, i) == i < w.n /\ SlotSeq(i) = ack
FrameFound(ack) == \E i \in 0 .. w.n - 1 : MatchesFrame(ack, i)
FrameSlot(ack) == CHOOSE i \in 0 .. w.n - 1 : MatchesFrame(ack, i)
EmptyFound(ack) == w.n < BurstSz /\ ack = SeqMod - 1
EmptySlotSum == ((BurstSz - w.n) * (BurstSz + w.n - 1)) \div 2

NextPos(ack) == IF EmptyFound(ack) THEN 0 ELSE w.pos + FrameSlot(ack) + 1

SlotAdvance(ack) ==
    (IF FrameFound(ack) THEN FrameSlot(ack) ELSE 0)
        + (IF EmptyFound(ack) THEN EmptySlotSum ELSE 0)

(* Part or all of the burst is acknowledged; the loop ends with the message. *)
Progress ==
    LET ack == sock[Sender].last_recved_ack
    IN  /\ BurstOver /\ ~Silent
        /\ FrameFound(ack) \/ EmptyFound(ack)
        /\ sock' = [sock EXCEPT ![Sender].sequence_number = (@ + SlotAdvance(ack)) % SeqMod]
        /\ IF NextPos(ack) = w.len
           THEN Return("OK")
           ELSE /\ w' = Burst(w.len, NextPos(ack), w.noack)
                /\ UNCHANGED <<net, offered, result, reading, got, losses>>

OutOfSequence ==
    LET ack == sock[Sender].last_recved_ack
    IN  /\ BurstOver /\ ~Silent
        /\ ~FrameFound(ack) /\ ~EmptyFound(ack)
        /\ Return("ACK_OUT_OF_SEQUENCE")
        /\ UNCHANGED sock

-----------------------------------------------------------------------------
(* SocketStream::read on the receiver, one frame a call.  The state is tested
   only when the call begins.                                               *)

(* The call finds the ring empty and goes on to poll. *)
ReadBegin ==
    /\ ~reading
    /\ sock[Receiver].state = "OPEN"
    /\ sock[Receiver].ringbuf = <<>>
    /\ reading' = TRUE
    /\ UNCHANGED <<sock, net, w, offered, result, got, losses>>

(* mutant: looks at the frame and leaves it in the ring *)
ReadFramePeeks ==
    /\ reading \/ sock[Receiver].state = "OPEN"
    /\ sock[Receiver].ringbuf # <<>>
    /\ got' = Append(got, Head(sock[Receiver].ringbuf))
    /\ reading' = FALSE
    /\ UNCHANGED <<sock, net, w, offered, result, losses>>

(* A frame is taken at once, or after a poll that brought it. *)
ReadFrame ==
    LET s == sock[Receiver]
    IN  /\ reading \/ s.state = "OPEN"
        /\ s.ringbuf # <<>>
        /\ got' = Append(got, Head(s.ringbuf))
        /\ sock' = [sock EXCEPT ![Receiver].ringbuf = Tail(@)]
        /\ reading' = FALSE
        /\ UNCHANGED <<net, w, offered, result, losses>>

(* The time of a read is up.  Time is looked at after the poll and the ring is
   not looked at again, so what the last poll brought may still be in it.   *)
ReadTimesOut ==
    /\ reading
    /\ MayTimeOut
    /\ Patient => ~w.active /\ sock[Receiver].ringbuf = <<>>

(* mutant: an empty read never closes the connection *)
ReadNothingStaysOpen ==
    /\ ReadTimesOut
    /\ reading' = FALSE
    /\ UNCHANGED <<sock, net, w, offered, result, got, losses>>

(* read() returns without a byte.  The third empty read closes the connection;
   a successful read does not reset their count.                            *)
ReadNothing ==
    LET s == sock[Receiver]
    IN  /\ ReadTimesOut
        /\ IF s.zero_read_count < 2
           THEN /\ sock' = [sock EXCEPT ![Receiver].zero_read_count = @ + 1]
                /\ UNCHANGED net
           ELSE /\ sock' = [sock EXCEPT ![Receiver] =
                              [Disconnected(s) EXCEPT !.zero_read_count = 0]]
                /\ net' = LinesAfterDisconnect(net, Receiver, s)
        /\ reading' = FALSE
        /\ UNCHANGED <<w, offered, result, got, losses>>

(* disconnect(), called by an application that is not inside write or read. *)
Disconnect(n) ==
    /\ IF n = Sender THEN ~w.active ELSE ~reading
    /\ sock[n].state # "CLOSED"
    /\ sock' = [sock EXCEPT ![n] = Disconnected(@)]
    /\ net' = LinesAfterDisconnect(net, n, sock[n])
    /\ UNCHANGED <<w, offered, result, reading, got, losses>>

(* A board polls its interface and handles the oldest packet of a route. *)
Deliver(m, n) ==
    LET r == <<m, n>>
        p == Head(net[r])
    IN  /\ net[r] # <<>>
        /\ Hears(n, p)
        /\ sock' = [sock EXCEPT ![n] = Received(n, @, p)]
        /\ net' = LinesAfter(net, r, n, sock[n], p)
        /\ UNCHANGED <<w, offered, result, reading, got, losses>>

Lose(m, n) ==
    /\ losses < MaxLoss
    /\ net[<<m, n>>] # <<>>
    /\ net' = Consume(net, <<m, n>>)
    /\ losses' = losses + 1
    /\ UNCHANGED <<sock, w, offered, result, reading, got>>

-----------------------------------------------------------------------------
Next ==
    \/ \E len \in Lens : WriteBegin(len)
    \/ SendFrame
    \/ Resend
    \/ GiveUp
    \/ Progress
    \/ OutOfSequence
    \/ ReadBegin
    \/ ReadFrame
    \/ ReadNothing
    \/ \E n \in Quitters : Disconnect(n)
    \/ \E m, n \in Node : Deliver(m, n) \/ Lose(m, n)

Spec == Init /\ [][Next]_vars

(* write loops on a running clock, the lines deliver what they do not lose,
   and the receiving application keeps reading.                             *)
FairSpec ==
    /\ Spec
    /\ WF_vars(SendFrame)
    /\ WF_vars(Resend \/ GiveUp \/ Progress \/ OutOfSequence)
    /\ \A m, n \in Node : WF_vars(Deliver(m, n))
    /\ WF_vars(ReadBegin)
    /\ WF_vars(ReadFrame)
    /\ WF_vars(ReadNothing)

-----------------------------------------------------------------------------
(* Every variable has its type, the ends are open or closed, and what write
   keeps is consistent: a burst lies within its message.                    *)
TypeOK ==
    /\ sock \in [Node -> Socket]
    /\ \A n \in Node : /\ sock[n].state \in {"OPEN", "CLOSED"}
                        /\ sock[n].remote_sequence # Undef
                        /\ sock[n].remote_port # Undef
    /\ net \in [Route -> Seq(Packet)]
    /\ w \in [active : BOOLEAN, len : Nat, pos : Nat, n : 0 .. BurstSz,
              sent : 0 .. BurstSz, noack : 0 .. 2]
    /\ w.sent <= w.n /\ w.pos + w.n <= w.len
    /\ IF w.active THEN w.n > 0 ELSE w = NoWrite
    /\ offered \in 0 .. MaxFrames /\ offered + w.len <= MaxFrames
    /\ result \in [ret : {"none", "OK", "TIMEOUT", "ACK_OUT_OF_SEQUENCE"},
                   first : Nat, last : Nat]
    /\ reading \in BOOLEAN
    /\ got \in Seq(Nat)
    /\ losses \in 0 .. MaxLoss

Delivered == got \o sock[Receiver].ringbuf
InRange(s) == { s[i] : i \in DOMAIN s }

(* In good order and once: the frames the receiver has taken, read or still
   in its ring, are strictly increasing, whatever was lost, resent or
   overrun on the way.                                                      *)
DeliveredInOrder ==
    \A i, j \in DOMAIN Delivered : i < j => Delivered[i] < Delivered[j]

(* The sender keeps the number of whichever ACK it handles last, and decides
   from it: in the order in which ACKs reach it their numbers never go back,
   although resent and refused frames are acknowledged too, and none is ahead of
   what the receiver has heard.  It says nothing of frames, since write may
   give one number to two of them (WriteOkMeansDelivered), nor of the ACK that
   the sender keeps, which may be from an earlier connection.               *)
AckHonest ==
    LET back == net[<<Receiver, Sender>>]
    IN  \A i, j \in DOMAIN back :
            i <= j /\ back[i].type = "ACK" /\ back[j].type = "ACK" =>
                /\ back[i].seq <= back[j].seq
                /\ back[j].seq <= sock[Receiver].remote_sequence

(* The receiving application sees an ordered pipe. *)
Pipe == INSTANCE OrderedPipe WITH written <- offered + w.len, read <- got
ImplementsPipe == Pipe!PipeSpec

(* A write that returns the number of bytes written has delivered them. *)
WriteOkMeansDelivered ==
    result.ret = "OK" => result.first .. result.last \subseteq InRange(Delivered)

(* The same of the first message on a connection that starts in step, when it
   fits one burst, nothing is lost and the receiver stays.                  *)
FirstBurstReliable ==
    (/\ result.first = 1 /\ result.last <= BurstSz
     /\ losses = 0 /\ sock[Receiver].state = "OPEN") => WriteOkMeansDelivered

(* TIMEOUT means there was no response: with nothing lost, the other end must
   have closed.                                                             *)
TimeoutMeansNoResponse ==
    result.ret = "TIMEOUT" => losses > 0 \/ sock[Receiver].state = "CLOSED"

(* write() returns. *)
WriteReturns == w.active ~> ~w.active

(* When the sender has closed, the receiver's application that keeps reading
   finds its end closed too, even if the CLOSE was lost.                    *)
HalfOpenEnds == (sock[Sender].state = "CLOSED") ~> (sock[Receiver].state = "CLOSED")
=============================================================================
