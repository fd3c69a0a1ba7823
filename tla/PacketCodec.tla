---------------------------- MODULE PacketCodec ----------------------------
(***************************************************************************)
(* The packet classes of serialiser.h: what each of them announces as its  *)
(* size, the bytes it is sent as and what is read back from those bytes.   *)
(* A packet is a record with its id and the members of its class.          *)
(***************************************************************************)
EXTENDS SequencesExt, FiniteSetsExt, Integers

CONSTANTS
    FieldBytes,     \* AddressField::NUM_BYTES: 32
    PayloadCap      \* the bytes the payload of a datagram_pack holds: 54

(* A size is announced in one byte. *)
ASSUME CodecAssumption ==
    /\ FieldBytes \in 1 .. 255
    /\ PayloadCap \in Nat /\ 4 + PayloadCap + 1 <= 255

Byte == 0 .. 255

UINT16_MAX == 65535

GET_ADDR_LIST == 1
ADDR          == 2
PING          == 3
PING_ECHO     == 4
DATAGRAM      == 5
SUBSCRIBE     == 6
NULL          == 7      \* no packet: the first id that is none

(* A uint16 is sent with its low byte first. *)
Le16(u) == <<u % 256, u \div 256>>

(* mutant: the high byte first *)
FromLe16Swapped(lo, hi) == hi + 256 * lo

FromLe16(lo, hi) == lo + 256 * hi

(* mutant: the bits of a byte from the high end *)
FieldToBytesReversed(addrs) ==
    [i \in 1 .. FieldBytes |->
        SumSet({ 2 ^ (7 - (a % 8)) : a \in { b \in addrs : b \div 8 = i - 1 } })]

(* An AddressField: the bit a % 8 of byte a / 8 stands for the address a.   *)
FieldToBytes(addrs) ==
    [i \in 1 .. FieldBytes |->
        SumSet({ 2 ^ (a % 8) : a \in { b \in addrs : b \div 8 = i - 1 } })]

FieldFromBytes(bytes) ==
    { a \in 0 .. 8 * FieldBytes - 1 : (bytes[a \div 8 + 1] \div 2 ^ (a % 8)) % 2 = 1 }

-----------------------------------------------------------------------------
(* The members of each class. *)
Packet ==
         [id : {GET_ADDR_LIST}, ttl : Byte]
    \cup [id : {ADDR}, addrs : SUBSET (0 .. 8 * FieldBytes - 1)]
    \cup [id : {PING, PING_ECHO}, ttl : Byte, source_addr : Byte, dest_addr : Byte,
          payload : 0 .. UINT16_MAX]
    \cup [id : {DATAGRAM}, ttl : Byte, source_addr : Byte, dest_addr : Byte, port : Byte,
          payload : { s \in Seq(Byte) : Len(s) <= PayloadCap }]
    \cup [id : {SUBSCRIBE}, ttl : Byte, port : Byte, addr : Byte, subscribe : Byte]

(* size() of each class: the sizes of its members. *)
Size(p) ==
    CASE p.id = GET_ADDR_LIST -> 1
      [] p.id = ADDR -> FieldBytes
      [] p.id \in {PING, PING_ECHO} -> 5
      [] p.id = DATAGRAM -> 4 + Len(p.payload) + 1
      [] p.id = SUBSCRIBE -> 4

(* send() of each class, between the header and the checksum. *)
ToBytes(p) ==
    CASE p.id = GET_ADDR_LIST -> <<p.ttl>>
      [] p.id = ADDR -> FieldToBytes(p.addrs)
      [] p.id \in {PING, PING_ECHO} ->
             <<p.ttl, p.source_addr, p.dest_addr>> \o Le16(p.payload)
      [] p.id = DATAGRAM ->
             <<p.ttl, p.source_addr, p.dest_addr, p.port, Len(p.payload)>> \o p.payload
      [] p.id = SUBSCRIBE -> <<p.ttl, p.port, p.addr, p.subscribe>>

(* from_bytes() of the class with the id, as read_data() calls it. *)
FromBytes(id, b) ==
    CASE id = GET_ADDR_LIST -> [id |-> id, ttl |-> b[1]]
      [] id = ADDR -> [id |-> id, addrs |-> FieldFromBytes(b)]
      [] id \in {PING, PING_ECHO} ->
             [id |-> id, ttl |-> b[1], source_addr |-> b[2], dest_addr |-> b[3],
              payload |-> FromLe16(b[4], b[5])]
      [] id = DATAGRAM ->
             [id |-> id, ttl |-> b[1], source_addr |-> b[2], dest_addr |-> b[3],
              port |-> b[4], payload |-> SubSeq(b, 6, 5 + b[5])]
      [] id = SUBSCRIBE ->
             [id |-> id, ttl |-> b[1], port |-> b[2], addr |-> b[3], subscribe |-> b[4]]
=============================================================================
