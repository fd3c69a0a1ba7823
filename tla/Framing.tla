------------------------------ MODULE Framing ------------------------------
(***************************************************************************)
(* ParserSerialiser on both ends of one serial line: send() turns packets  *)
(* into bytes, the line loses and damages bytes, and read() turns the      *)
(* bytes that arrive back into packets for the handlers.                   *)
(*                                                                         *)
(* The members data_buf and data_pos are one sequence: the bytes added     *)
(* since data_pos was last set to 0.                                       *)
(***************************************************************************)
EXTENDS PacketCodec

CONSTANTS
    Packets,        \* the packets that are sent
    Interrupted,    \* packets whose sending the receiver may have missed the start of
    BufSz,          \* the bytes data_buf holds: MAX_PACKET_LENGTH
    DamagedTo,      \* what a damaged byte may become
    MaxSent,        \* bound: packets sent
    MaxBacklog,     \* bound: bytes on the line when a packet is sent
    MaxLost,        \* bound: bytes lost
    MaxDamaged      \* bound: bytes damaged

ASSUME FramingAssumption ==
    /\ Packets \subseteq Packet /\ Interrupted \subseteq Packets
    /\ BufSz \in Nat /\ DamagedTo \subseteq Byte
    /\ {MaxSent, MaxBacklog, MaxLost, MaxDamaged} \subseteq Nat

VARIABLES
    wire,       \* the bytes on the line
    parser,     \* the receiving end
    late,       \* 1 when the receiver missed the start of the first frame, else 0
    sent,       \* the packets sent
    handled,    \* the packets passed to a handler
    lost,       \* bytes lost so far
    damaged,    \* bytes damaged so far
    owner,      \* history: the packet each byte on the line is of, by its place in sent
    hit         \* history: the packets of which a byte was lost or damaged

vars == <<wire, parser, late, sent, handled, lost, damaged, owner, hit>>

Stuff == 170    \* 0xAA
Begin == 171    \* 0xAB
End   == 172    \* 0xAC

-----------------------------------------------------------------------------
(* Sending *)

(* Fletcher-16, one byte after another: the low byte adds the data, the high
   byte the values of the low byte.                                         *)
Checksum(bytes) ==
    LET step(sum, b) == <<(sum[1] + b) % 255, (sum[2] + sum[1] + b) % 255>>
        sums == FoldLeft(step, <<0, 0>>, bytes)
    IN  sums[1] + 256 * sums[2]

(* mutant: the stuffing byte itself is not stuffed *)
StuffedExceptStuff(bytes) ==
    FlattenSeq([i \in DOMAIN bytes |->
                  IF bytes[i] \in {Begin, End} THEN <<Stuff, bytes[i]>> ELSE <<bytes[i]>>])

(* send_byte() puts a stuffing byte before the three bytes with a meaning. *)
Stuffed(bytes) ==
    FlattenSeq([i \in DOMAIN bytes |->
                  IF bytes[i] \in Stuff .. End THEN <<Stuff, bytes[i]>> ELSE <<bytes[i]>>])

Frame(p) ==
    LET content == <<p.id, Size(p)>> \o ToBytes(p)
    IN  <<Begin>> \o Stuffed(content \o Le16(Checksum(content))) \o <<End>>

-----------------------------------------------------------------------------
(* Receiving *)

NewParser ==
    [state |-> "START", stuff_flag |-> FALSE, msg_id |-> 0, checksum_in |-> 0,
     data_length |-> 0, data |-> <<>>]

AddByte(ps, c) == [ps EXCEPT !.data = Append(@, c)]

(* check_checksum() over the first data_length + 2 bytes. *)
CheckChecksum(ps) == Checksum(SubSeq(ps.data, 1, ps.data_length + 2)) = ps.checksum_in

(* mutant: a mark does not start over *)
IsMarkIgnored(ps, c) == FALSE

(* A byte 0xAB or 0xAC that is not stuffed. *)
IsMark(ps, c) == ~ps.stuff_flag /\ c \in {Begin, End}

IsPacketId(c) == c < NULL

(* mutant: waits for a byte too many *)
HasAllDataLate(ps) == Len(ps.data) > ps.data_length + 2

HasAllData(ps) == Len(ps.data) >= ps.data_length + 2

Escapes(ps, c) == c = Stuff /\ ~ps.stuff_flag

(* The switch over the state. *)
Advance(ps, c) ==
    CASE ps.state = "START" ->
             [ps EXCEPT !.data = <<>>, !.state = IF c = Begin THEN "ID" ELSE "START"]
      [] ps.state = "ID" /\ ~IsPacketId(c) ->
             [ps EXCEPT !.msg_id = c, !.state = "START"]
      [] ps.state = "ID" /\ IsPacketId(c) ->
             [AddByte(ps, c) EXCEPT !.msg_id = c, !.state = "SIZE"]
      [] ps.state = "SIZE" ->
             [AddByte(ps, c) EXCEPT !.data_length = c,
                                    !.state = IF c = 0 THEN "CHECK_1" ELSE "DATA"]
      [] ps.state = "DATA" ->
             [AddByte(ps, c) EXCEPT
                 !.state = IF HasAllData(AddByte(ps, c)) THEN "CHECK_1" ELSE "DATA"]
      [] ps.state = "CHECK_1" ->
             [ps EXCEPT !.checksum_in = c, !.state = "CHECK_2"]
      [] ps.state = "CHECK_2" ->
             [ps EXCEPT !.checksum_in = @ + 256 * c, !.state = "START"]

(* read(c): a stuffing byte only sets the flag; a mark starts over. *)
Parsed(ps, c) ==
    IF Escapes(ps, c)
    THEN [ps EXCEPT !.stuff_flag = TRUE]
    ELSE Advance([ps EXCEPT !.stuff_flag = FALSE,
                            !.state = IF IsMark(ps, c) THEN "START" ELSE @], c)

(* read_data() is called: the second byte of a checksum that is right. *)
Completes(ps, c) ==
    /\ ps.state = "CHECK_2" /\ ~Escapes(ps, c) /\ ~IsMark(ps, c)
    /\ CheckChecksum(Parsed(ps, c))

(* The id 0 passes the parser, and read_data() has no case for it. *)
Handled(ps) ==
    IF ps.msg_id \in GET_ADDR_LIST .. SUBSCRIBE
    THEN <<FromBytes(ps.msg_id, SubSeq(ps.data, 3, Len(ps.data)))>>
    ELSE <<>>

-----------------------------------------------------------------------------
(* The receiver may be switched on in the middle of a packet. *)
Init ==
    /\ wire \in {<<>>} \cup UNION { Suffixes(Tail(Frame(p))) : p \in Interrupted }
    /\ late = IF wire = <<>> THEN 0 ELSE 1
    /\ parser = NewParser
    /\ sent = <<>> /\ handled = <<>>
    /\ lost = 0 /\ damaged = 0
    /\ owner = [i \in DOMAIN wire |-> 0] /\ hit = {}

Send(p) ==
    /\ Len(sent) < MaxSent /\ Len(wire) <= MaxBacklog
    /\ wire' = wire \o Frame(p)
    /\ sent' = Append(sent, p)
    /\ owner' = owner \o [i \in DOMAIN Frame(p) |-> Len(sent) + 1]
    /\ UNCHANGED <<parser, late, handled, lost, damaged, hit>>

(* The byte c arrives. *)
Receive(c) ==
    /\ wire' = Tail(wire)
    /\ parser' = Parsed(parser, c)
    /\ handled' = IF Completes(parser, c) THEN handled \o Handled(Parsed(parser, c))
                                          ELSE handled
    /\ owner' = Tail(owner)
    /\ UNCHANGED <<late, sent>>

ReadByte ==
    /\ wire # <<>>
    /\ Receive(Head(wire))
    /\ UNCHANGED <<lost, damaged, hit>>

LoseByte ==
    /\ wire # <<>>
    /\ lost < MaxLost
    /\ wire' = Tail(wire)
    /\ lost' = lost + 1
    /\ owner' = Tail(owner) /\ hit' = hit \cup {Head(owner)}
    /\ UNCHANGED <<parser, late, sent, handled, damaged>>

(* The oldest byte arrives as another one. *)
DamageByte(c) ==
    /\ wire # <<>>
    /\ damaged < MaxDamaged
    /\ c # Head(wire)
    /\ Receive(c)
    /\ damaged' = damaged + 1
    /\ hit' = hit \cup {Head(owner)}
    /\ UNCHANGED lost

Next ==
    \/ \E p \in Packets : Send(p)
    \/ ReadByte
    \/ LoseByte
    \/ \E c \in DamagedTo : DamageByte(c)

Spec == Init /\ [][Next]_vars

-----------------------------------------------------------------------------
(* The parser's members have their types, and agree: the bytes added are as
   many as the state says, and the id is that of a packet.                  *)
TypeOK ==
    /\ wire \in Seq(Byte)
    /\ parser \in [state : {"START", "ID", "SIZE", "DATA", "CHECK_1", "CHECK_2"},
                   stuff_flag : BOOLEAN, msg_id : Byte, checksum_in : 0 .. UINT16_MAX,
                   data_length : Byte, data : Seq(Byte)]
    /\ LET n == Len(parser.data)
       IN  CASE parser.state = "START" -> TRUE
             [] parser.state = "ID" -> n = 0
             [] parser.state = "SIZE" -> n = 1 /\ IsPacketId(parser.msg_id)
             [] parser.state = "DATA" -> n \in 2 .. parser.data_length + 1
             [] OTHER -> n = parser.data_length + 2
    /\ late \in 0 .. 1
    /\ sent \in Seq(Packets) /\ Len(sent) <= MaxSent
    /\ lost \in 0 .. MaxLost /\ damaged \in 0 .. MaxDamaged

(* The checksum adds modulo 255, so it does not tell a byte 0 from a byte 255. *)
Alike(p, q) ==
    /\ p.id = q.id /\ Size(p) = Size(q)
    /\ \A i \in 1 .. Size(p) : ToBytes(p)[i] % 255 = ToBytes(q)[i] % 255

(* q is r with some elements left out, and others replaced by ones like them. *)
IsSubsequence(q, r) ==
    LET fits[i \in 0 .. Len(q), j \in 0 .. Len(r)] ==
            \/ i = 0
            \/ /\ j > 0
               /\ \/ fits[i, j - 1]
                  \/ Alike(q[i], r[j]) /\ fits[i - 1, j - 1]
    IN  fits[Len(q), Len(r)]

(* Whatever bytes are lost or damaged, and wherever the receiver comes in, a
   handler is given only packets that were sent, in the order in which they
   were sent, each at most once, and altered at most where the checksum cannot
   see it.                                                                  *)
NothingInvented == IsSubsequence(handled, sent)

(* A fault costs one packet at most, that of the byte or the next one: once the
   line is empty no more packets are missing than bytes were lost or damaged.
   Without faults every packet is handled, also by a receiver that came in
   late.                                                                    *)
LossIsLocal ==
    wire = <<>> => Len(sent) - Len(handled) <= lost + damaged

(* The packets that have passed, by their places in sent, without a fault in
   them or in the packet before.                                            *)
Intact ==
    { k \in 1 .. Len(sent) : /\ k \notin hit /\ k - 1 \notin hit
                             /\ \A i \in DOMAIN owner : owner[i] # k }

(* A fault leaves all other packets alone: whatever happened earlier on the
   line, and in whatever state it left the parser, a packet that comes through
   whole, after one that came through whole, is handled as it was sent.     *)
IntactArrive ==
    \E place \in [Intact -> DOMAIN handled] :
        /\ \A k \in Intact : handled[place[k]] = sent[k]
        /\ \A j, k \in Intact : j < k => place[j] < place[k]

(* A line without faults is transparent: what is handled is what was sent, in
   that order, with nothing added or changed, and in the end all of it.     *)
PerfectLine ==
    late + lost + damaged = 0 =>
        IsPrefix(handled, sent) /\ (wire = <<>> => handled = sent)

(* read() does not compare data_pos with the size of data_buf: it is the marks
   around a frame that keep the bytes of one frame within the buffer.  They do
   when the receiver came in late, when a byte is lost, and when a byte is
   damaged, be it the one that announces the size or a mark.  Two of these
   together can run over the end of the buffer.                             *)
BufferInBounds == late + lost + damaged <= 1 => Len(parser.data) <= BufSz
=============================================================================
