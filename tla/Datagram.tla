------------------------------ MODULE Datagram ------------------------------
(***************************************************************************)
(* The vocabulary of datagram sockets: the packets Datagram::write cuts a  *)
(* message into, and what on_data puts into the ring buffer.  Pure         *)
(* operators; module Interface gives them their steps.                     *)
(***************************************************************************)
EXTENDS Integers, Sequences

CONSTANTS
    ChunkSz,        \* CHUNK_SZ, bytes of a message that go into one packet: 58
    PayloadCap,     \* bytes the payload of a packet holds: 54
    RingCap,        \* bytes the ring buffer of a socket holds
    RingOverwrites  \* TRUE: a full ring forgets its oldest byte; FALSE: the new one

ASSUME DatagramAssumption ==
    /\ {ChunkSz, PayloadCap, RingCap} \subseteq Nat \ {0}
    /\ RingOverwrites \in BOOLEAN

Least(x, y) == IF x <= y THEN x ELSE y

-----------------------------------------------------------------------------
(* mutant: begins each chunk one byte too far *)
ChunkShifted(data, i) == SubSeq(data, i * ChunkSz + 2, Least((i + 1) * ChunkSz, Len(data)))

(* Chunk i of a message, counted from 0; the last may be shorter. *)
Chunk(data, i) == SubSeq(data, i * ChunkSz + 1, Least((i + 1) * ChunkSz, Len(data)))

(* The payload is a list; append() does nothing once it is full. *)
Payload(bytes) == SubSeq(bytes, 1, Least(PayloadCap, Len(bytes)))

(* The payloads of the packets a message is sent in: the full chunks and the
   remainder, if there is one.                                              *)
Payloads(data) ==
    [i \in 1 .. (Len(data) + ChunkSz - 1) \div ChunkSz |-> Payload(Chunk(data, i - 1))]

(* mutant: writes on past the end of the ring *)
PutAllUnbounded(ring, bytes) == ring \o bytes

(* on_data puts one byte after the other and does not ask for room: what the
   ring of the library does when it is full is all that happens.            *)
PutAll(ring, bytes) ==
    LET all == ring \o bytes
    IN  IF RingOverwrites
        THEN SubSeq(all, Len(all) - Least(RingCap, Len(all)) + 1, Len(all))
        ELSE SubSeq(all, 1, Least(RingCap, Len(all)))
=============================================================================
