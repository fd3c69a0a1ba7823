-------------------------- MODULE StreamOrderProofs --------------------------
(***************************************************************************)
(* That the frames a receiver takes are in order over all connections,     *)
(* losses and resets, as long as the sequence numbers stay below the wrap. *)
(*                                                                         *)
(* Within one run of the writer a frame is numbered after its place, less  *)
(* an offset that never falls, except where a SYN is counted: so of two    *)
(* frames on the line the later one has the larger place, or its number    *)
(* lags no less.  A SYN and a reset begin anew, but both wait for the      *)
(* message that was being written: what follows is of a later message, and *)
(* so behind all that was sent before, whatever its number.  A receiver    *)
(* that begins anew adopts a number from a SYN, which is such a border.    *)
(***************************************************************************)
EXTENDS StreamProofs

(* The lemmas on increasing sequences are those about Transfer. *)
Trans == INSTANCE TransferProofs WITH Starts <- {}, Patient <- FALSE

(* No sequence number reaches the last one before the wrap: a counter starts
   at 1, SYNs bring it to MaxSyn, and then it gains no more than the frames. *)
RoomBelowWrap ==
    /\ MaxSyn + MaxFrames + 2 < SeqMod
    /\ Address0 \notin Node

(* Where the writer is: how many frames the messages before this one have, all
   messages, and what was sent before this burst, and the sender's counter. *)
Writers ==
    { at \in [base : Nat, place : Nat, top : Nat, count : Nat] :
        at.base <= at.place /\ at.place <= at.top }

Writer == [base |-> offered, place |-> offered + w.pos, top |-> offered + w.len,
           count |-> sock[Sender].sequence_number]

IsData(f, i) == f[i].type = "DATA"
IsSyn(f, i) == f[i].type = "SYN"

(* Frame a, numbered s, may come before the frame of packet p. *)
Precedes(a, s, p) == a < p.arg \/ a + p.seq <= p.arg + s

(* Frame a, numbered s, may come before every frame the writer has yet to send:
   it is of an earlier message, or its number lags no more than theirs will. *)
Behind(a, s, at) == a <= at.base \/ a + at.count <= s + at.place

(* The line to the receiver.  All frames before a SYN are of earlier messages
   than those after it.                                                     *)
ForwardOrdered(f, at) ==
    /\ \A i \in DOMAIN f : IsSyn(f, i) \/ IsData(f, i) => f[i].seq < SeqMod - 1
    /\ \A i \in DOMAIN f : IsData(f, i) =>
          f[i].arg <= at.top /\ Behind(f[i].arg, f[i].seq, at)
    /\ \A i, j \in DOMAIN f :
          i < j /\ IsData(f, i) /\ IsData(f, j) => Precedes(f[i].arg, f[i].seq, f[j])
    /\ \A i, k \in DOMAIN f : i < k /\ IsData(f, i) /\ IsSyn(f, k) => f[i].arg <= at.base
    /\ \A i, k, j \in DOMAIN f :
          i < k /\ k < j /\ IsData(f, i) /\ IsSyn(f, k) /\ IsData(f, j) => f[i].arg < f[j].arg

(* The line back. *)
BackOrdered(b) ==
    \A i \in DOMAIN b : b[i].type = "ACK" => b[i].seq \in Nat /\ b[i].seq < SeqMod - 1

(* The frames that were taken, by a receiver that has heard a number. *)
TakenOrdered(frames, heard, f, at) ==
    \A a \in frames :
        /\ a \in Nat /\ a <= at.top
        /\ heard # Undef =>
              /\ Behind(a, heard, at)
              /\ \A j \in DOMAIN f : IsData(f, j) => Precedes(a, heard, f[j])
        /\ \A k \in DOMAIN f : IsSyn(f, k) =>
              /\ a <= at.base
              /\ \A j \in DOMAIN f : k < j /\ IsData(f, j) => a < f[j].arg

(* The ends. *)
SenderOrdered(s, at) ==
    /\ s.sequence_number = at.count
    /\ at.count <= 1 + MaxSyn + at.place
    /\ s.last_recved_ack \in Nat /\ s.last_recved_ack < SeqMod - 1

ReceiverOrdered(s, read, f, at) ==
    /\ s.remote_sequence # Undef => s.remote_sequence < SeqMod - 1
    /\ TakenOrdered(Trans!InRange(read) \cup Trans!InRange(s.ringbuf), s.remote_sequence, f, at)
    /\ Trans!InOrder(read, s.ringbuf)

Ordered(sk, lines, read, at) ==
    /\ sk \in [Node -> PlainSocket]
    /\ \A n \in Node : Sane(n, sk[n])
    /\ PlainLines(lines)
    /\ ForwardOrdered(lines[Forward], at)
    /\ BackOrdered(lines[Back])
    /\ SenderOrdered(sk[Sender], at)
    /\ ReceiverOrdered(sk[Receiver], read, lines[Forward], at)

OrderInv ==
    /\ Ordered(sock, net, got, Writer)
    /\ WriteInRange
    /\ got \in Seq(Nat)

-----------------------------------------------------------------------------
(* Facts of the constants, and of packets.                                  *)
LEMMA TransAssumed ==
    Trans!TransferAssumption /\ Trans!SocketAssumption /\ Trans!LineCapAssumption
  BY StreamAssumption, SocketAssumption, LineCapAssumption
     DEF Trans!TransferAssumption, Trans!SocketAssumption, Trans!LineCapAssumption

LEMMA Bounds ==
    /\ MaxSyn \in Nat /\ MaxFrames \in Nat /\ SeqMod \in Nat /\ SeqMod > 2
    /\ RoomBelowWrap => MaxSyn < SeqMod - 1
  BY StreamAssumption, SocketAssumption DEF RoomBelowWrap

LEMMA Numbers ==
    ASSUME NEW f \in Seq(PlainPacket), NEW i \in DOMAIN f
    PROVE  /\ f[i] \in PlainPacket /\ i \in Nat /\ f[i].arg \in Nat
           /\ IsData(f, i) \/ IsSyn(f, i) => f[i].seq \in Nat
           /\ ~(IsData(f, i) /\ IsSyn(f, i))
  <1>1. f[i] \in PlainPacket /\ i \in Nat
    OBVIOUS
  <1> QED
    BY <1>1, Sizes DEF PlainPacket, IsData, IsSyn

LEMMA TailIs ==
    ASSUME NEW f \in Seq(PlainPacket), f # <<>>
    PROVE  LET q == Tail(f)
           IN  /\ q \in Seq(PlainPacket)
               /\ 1 \in DOMAIN f /\ Head(f) = f[1]
               /\ \A i \in DOMAIN q : /\ i + 1 \in DOMAIN f /\ q[i] = f[i + 1]
                                      /\ i \in Nat /\ 1 < i + 1
  OBVIOUS

LEMMA AppendIs ==
    ASSUME NEW f \in Seq(PlainPacket), NEW p \in PlainPacket
    PROVE  LET g == Append(f, p)
           IN  /\ g \in Seq(PlainPacket)
               /\ DOMAIN g = DOMAIN f \cup {Len(f) + 1} /\ g[Len(f) + 1] = p
               /\ \A i \in DOMAIN f : g[i] = f[i] /\ i \in Nat /\ i < Len(f) + 1
               /\ Len(f) + 1 \in Nat
  OBVIOUS

-----------------------------------------------------------------------------
(* The oldest packet leaves the line.                                       *)
LEMMA ForwardTail ==
    ASSUME NEW f \in Seq(PlainPacket), f # <<>>, NEW at, ForwardOrdered(f, at)
    PROVE  ForwardOrdered(Tail(f), at)
  <1> DEFINE q == Tail(f)
  <1>1. \A i \in DOMAIN q : /\ i + 1 \in DOMAIN f /\ q[i] = f[i + 1] /\ i \in Nat
                            /\ IsData(q, i) = IsData(f, i + 1) /\ IsSyn(q, i) = IsSyn(f, i + 1)
    BY TailIs DEF IsData, IsSyn
  <1>2. \A i, j \in DOMAIN q : i < j => i + 1 < j + 1
    BY <1>1
  <1> HIDE DEF q
  <1>3. \A i \in DOMAIN q : IsSyn(q, i) \/ IsData(q, i) => q[i].seq < SeqMod - 1
    BY <1>1 DEF ForwardOrdered
  <1>4. \A i \in DOMAIN q : IsData(q, i) =>
          q[i].arg <= at.top /\ Behind(q[i].arg, q[i].seq, at)
    BY <1>1 DEF ForwardOrdered
  <1>5. \A i, j \in DOMAIN q :
          i < j /\ IsData(q, i) /\ IsData(q, j) => Precedes(q[i].arg, q[i].seq, q[j])
    BY <1>1, <1>2 DEF ForwardOrdered
  <1>6. \A i, k \in DOMAIN q : i < k /\ IsData(q, i) /\ IsSyn(q, k) => q[i].arg <= at.base
    BY <1>1, <1>2 DEF ForwardOrdered
  <1>7. \A i, k, j \in DOMAIN q :
          i < k /\ k < j /\ IsData(q, i) /\ IsSyn(q, k) /\ IsData(q, j) => q[i].arg < q[j].arg
    BY <1>1, <1>2 DEF ForwardOrdered
  <1> QED
    BY <1>3, <1>4, <1>5, <1>6, <1>7 DEF ForwardOrdered, q

LEMMA TakenTail ==
    ASSUME NEW f \in Seq(PlainPacket), f # <<>>, NEW at, NEW frames, NEW heard,
           TakenOrdered(frames, heard, f, at)
    PROVE  TakenOrdered(frames, heard, Tail(f), at)
  <1> DEFINE q == Tail(f)
  <1>1. \A i \in DOMAIN q : /\ i + 1 \in DOMAIN f /\ q[i] = f[i + 1] /\ i \in Nat
                            /\ IsData(q, i) = IsData(f, i + 1) /\ IsSyn(q, i) = IsSyn(f, i + 1)
    BY TailIs DEF IsData, IsSyn
  <1>2. \A i, j \in DOMAIN q : i < j => i + 1 < j + 1
    BY <1>1
  <1> HIDE DEF q
  <1> SUFFICES TakenOrdered(frames, heard, q, at)
    BY DEF q
  <1> QED
    BY <1>1, <1>2 DEF TakenOrdered

(* A packet that was sent from where the writer is. *)
SentFrom(at, p) ==
    /\ p.type = "DATA" => /\ p.seq < SeqMod - 1 /\ p.arg <= at.top
                          /\ at.place < p.arg /\ p.arg + at.count = p.seq + at.place
    /\ p.type = "SYN" => p.seq < SeqMod - 1 /\ at.base = at.top

(* What is behind the writer may come before what he sends. *)
LEMMA BehindPrecedes ==
    ASSUME NEW at \in Writers, NEW p \in PlainPacket, SentFrom(at, p), p.type = "DATA",
           NEW a \in Nat, NEW s \in Nat, Behind(a, s, at)
    PROVE  Precedes(a, s, p)
  <1>1. /\ at.base \in Nat /\ at.place \in Nat /\ at.count \in Nat /\ at.base <= at.place
        /\ p.arg \in Nat /\ p.seq \in Nat
    BY Sizes DEF Writers, PlainPacket
  <1>2. at.place < p.arg /\ p.arg + at.count = p.seq + at.place
    BY DEF SentFrom
  <1>3. \A b, c, o, g, n \in Nat :
          o < g /\ g + c = n + o /\ b <= o /\ (a <= b \/ a + c <= s + o) => a < g \/ a + n <= g + s
    OBVIOUS
  <1> QED
    BY <1>1, <1>2, <1>3 DEF Behind, Precedes

(* A packet enters the line. *)
LEMMA ForwardAppend ==
    ASSUME NEW f \in Seq(PlainPacket), NEW at \in Writers, ForwardOrdered(f, at),
           NEW p \in PlainPacket, SentFrom(at, p)
    PROVE  ForwardOrdered(Append(f, p), at)
  <1> DEFINE g == Append(f, p)
             e == Len(f) + 1
  <1>1. /\ DOMAIN g = DOMAIN f \cup {e} /\ g[e] = p
        /\ \A i \in DOMAIN f : g[i] = f[i] /\ i \in Nat /\ i < e
        /\ e \in Nat
    BY AppendIs
  <1>2. /\ \A i \in DOMAIN f : IsData(g, i) = IsData(f, i) /\ IsSyn(g, i) = IsSyn(f, i)
        /\ IsData(g, e) = (p.type = "DATA") /\ IsSyn(g, e) = (p.type = "SYN")
    BY <1>1 DEF IsData, IsSyn
  <1>3. /\ at.base \in Nat /\ at.place \in Nat /\ at.count \in Nat /\ at.top \in Nat
        /\ at.base <= at.place /\ p.arg \in Nat
        /\ p.type = "DATA" => p.seq \in Nat
    BY Sizes DEF Writers, PlainPacket
  <1>4. \A i \in DOMAIN f : /\ f[i].arg \in Nat
                            /\ IsData(f, i) => f[i].seq \in Nat
                            /\ ~(IsData(f, i) /\ IsSyn(f, i))
    BY Numbers
  <1>5. \A i, j \in DOMAIN g : i < j => i \in DOMAIN f
    BY <1>1
  <1> HIDE DEF g, e
  <1>6. \A i \in DOMAIN g : IsSyn(g, i) \/ IsData(g, i) => g[i].seq < SeqMod - 1
    BY <1>1, <1>2 DEF ForwardOrdered, SentFrom
  <1>7. \A i \in DOMAIN g : IsData(g, i) =>
          g[i].arg <= at.top /\ Behind(g[i].arg, g[i].seq, at)
    <2>1. p.type = "DATA" => p.arg <= at.top /\ Behind(p.arg, p.seq, at)
      BY <1>3 DEF SentFrom, Behind
    <2> QED
      BY <1>1, <1>2, <2>1 DEF ForwardOrdered
  <1>8. ASSUME NEW i \in DOMAIN g, NEW j \in DOMAIN g, i < j, IsData(g, i), IsData(g, j)
        PROVE  Precedes(g[i].arg, g[i].seq, g[j])
    <2>1. i \in DOMAIN f /\ g[i] = f[i] /\ IsData(f, i)
      BY <1>1, <1>2, <1>5, <1>8
    <2>2. CASE j \in DOMAIN f
      BY <1>1, <1>2, <1>8, <2>1, <2>2 DEF ForwardOrdered
    <2>3. CASE j = e
      <3>1. f[i].arg \in Nat /\ f[i].seq \in Nat /\ Behind(f[i].arg, f[i].seq, at)
        BY <1>4, <2>1 DEF ForwardOrdered
      <3>2. p.type = "DATA" /\ g[j] = p
        BY <1>1, <1>2, <1>8, <2>3
      <3>3. Precedes(f[i].arg, f[i].seq, p)
        BY <3>1, <3>2, BehindPrecedes
      <3> QED
        BY <2>1, <3>2, <3>3
    <2> QED
      BY <1>1, <2>2, <2>3
  <1>9. ASSUME NEW i \in DOMAIN g, NEW k \in DOMAIN g, i < k, IsData(g, i), IsSyn(g, k)
        PROVE  g[i].arg <= at.base
    <2>1. i \in DOMAIN f /\ g[i] = f[i] /\ IsData(f, i)
      BY <1>1, <1>2, <1>5, <1>9
    <2>2. CASE k \in DOMAIN f
      BY <1>1, <1>2, <1>9, <2>1, <2>2 DEF ForwardOrdered
    <2>3. CASE k = e
      <3>1. at.base = at.top
        BY <1>2, <1>9, <2>3 DEF SentFrom
      <3> QED
        BY <2>1, <3>1 DEF ForwardOrdered
    <2> QED
      BY <1>1, <2>2, <2>3
  <1>10. ASSUME NEW i \in DOMAIN g, NEW k \in DOMAIN g, NEW j \in DOMAIN g, i < k, k < j,
                IsData(g, i), IsSyn(g, k), IsData(g, j)
         PROVE  g[i].arg < g[j].arg
    <2>1. /\ i \in DOMAIN f /\ g[i] = f[i] /\ IsData(f, i)
          /\ k \in DOMAIN f /\ IsSyn(f, k)
      BY <1>1, <1>2, <1>5, <1>10
    <2>2. CASE j \in DOMAIN f
      BY <1>1, <1>2, <1>10, <2>1, <2>2 DEF ForwardOrdered
    <2>3. CASE j = e
      <3>1. at.place < p.arg /\ g[j] = p
        BY <1>1, <1>2, <1>10, <2>3 DEF SentFrom
      <3>2. f[i].arg <= at.base /\ f[i].arg \in Nat
        BY <1>4, <1>10, <2>1 DEF ForwardOrdered
      <3> QED
        BY <1>3, <2>1, <3>1, <3>2
    <2> QED
      BY <1>1, <2>2, <2>3
  <1> QED
    BY <1>6, <1>7, <1>8, <1>9, <1>10 DEF ForwardOrdered, g

LEMMA TakenAppend ==
    ASSUME NEW f \in Seq(PlainPacket), NEW at \in Writers, NEW frames, NEW heard \in Nat \cup {Undef},
           TakenOrdered(frames, heard, f, at), NEW p \in PlainPacket, SentFrom(at, p)
    PROVE  TakenOrdered(frames, heard, Append(f, p), at)
  <1> DEFINE g == Append(f, p)
             e == Len(f) + 1
  <1>1. /\ DOMAIN g = DOMAIN f \cup {e} /\ g[e] = p
        /\ \A i \in DOMAIN f : g[i] = f[i] /\ i \in Nat /\ i < e
        /\ e \in Nat
    BY AppendIs
  <1>2. /\ \A i \in DOMAIN f : IsData(g, i) = IsData(f, i) /\ IsSyn(g, i) = IsSyn(f, i)
        /\ IsData(g, e) = (p.type = "DATA") /\ IsSyn(g, e) = (p.type = "SYN")
    BY <1>1 DEF IsData, IsSyn
  <1>3. /\ at.base \in Nat /\ at.place \in Nat /\ at.top \in Nat
        /\ at.base <= at.place /\ p.arg \in Nat
    BY DEF Writers, PlainPacket
  <1>4. \A i, j \in DOMAIN g : i < j => i \in DOMAIN f
    BY <1>1
  <1> HIDE DEF g, e
  <1> SUFFICES ASSUME NEW a \in frames
               PROVE  /\ a \in Nat /\ a <= at.top
                      /\ heard # Undef =>
                            /\ Behind(a, heard, at)
                            /\ \A j \in DOMAIN g : IsData(g, j) => Precedes(a, heard, g[j])
                      /\ \A k \in DOMAIN g : IsSyn(g, k) =>
                            /\ a <= at.base
                            /\ \A j \in DOMAIN g : k < j /\ IsData(g, j) => a < g[j].arg
    BY DEF TakenOrdered, g
  <1>5. /\ a \in Nat /\ a <= at.top
        /\ heard # Undef => Behind(a, heard, at)
    BY DEF TakenOrdered
  <1>6. ASSUME heard # Undef, NEW j \in DOMAIN g, IsData(g, j)
        PROVE  Precedes(a, heard, g[j])
    <2>1. CASE j \in DOMAIN f
      BY <1>1, <1>2, <1>6, <2>1 DEF TakenOrdered
    <2>2. CASE j = e
      BY <1>1, <1>2, <1>5, <1>6, <2>2, BehindPrecedes
    <2> QED
      BY <1>1, <2>1, <2>2
  <1>7. ASSUME NEW k \in DOMAIN g, IsSyn(g, k)
        PROVE  a <= at.base
    <2>1. CASE k \in DOMAIN f
      BY <1>1, <1>2, <1>7, <2>1 DEF TakenOrdered
    <2>2. CASE k = e
      BY <1>2, <1>5, <1>7, <2>2 DEF SentFrom
    <2> QED
      BY <1>1, <2>1, <2>2
  <1>8. ASSUME NEW k \in DOMAIN g, IsSyn(g, k), NEW j \in DOMAIN g, k < j, IsData(g, j)
        PROVE  a < g[j].arg
    <2>1. k \in DOMAIN f /\ IsSyn(f, k)
      BY <1>1, <1>2, <1>4, <1>8
    <2>2. CASE j \in DOMAIN f
      BY <1>1, <1>2, <1>8, <2>1, <2>2 DEF TakenOrdered
    <2>3. CASE j = e
      <3>1. at.place < p.arg /\ g[j] = p
        BY <1>1, <1>2, <1>8, <2>3 DEF SentFrom
      <3> QED
        BY <1>3, <1>5, <1>7, <1>8, <3>1
    <2> QED
      BY <1>1, <2>2, <2>3
  <1> QED
    BY <1>5, <1>6, <1>7, <1>8

-----------------------------------------------------------------------------
(* The receiver takes the oldest packet of the line.                        *)

(* It adopts the number of a SYN: all that it has taken is of earlier
   messages than the frames behind the SYN.                                 *)
LEMMA AdoptOrdered ==
    ASSUME NEW f \in Seq(PlainPacket), f # <<>>, NEW at, NEW frames, NEW heard, NEW new,
           TakenOrdered(frames, heard, f, at), IsSyn(f, 1)
    PROVE  TakenOrdered(frames, new, Tail(f), at)
  <1> DEFINE q == Tail(f)
  <1>1. /\ 1 \in DOMAIN f
        /\ \A i \in DOMAIN q : /\ i + 1 \in DOMAIN f /\ q[i] = f[i + 1] /\ 1 < i + 1
                               /\ IsData(q, i) = IsData(f, i + 1)
    BY TailIs DEF IsData
  <1>2. TakenOrdered(frames, heard, q, at)
    BY TakenTail
  <1> HIDE DEF q
  <1> SUFFICES TakenOrdered(frames, new, q, at)
    BY DEF q
  <1>3. ASSUME NEW a \in frames
        PROVE  /\ Behind(a, new, at)
               /\ \A j \in DOMAIN q : IsData(q, j) => Precedes(a, new, q[j])
    <2>1. /\ a <= at.base
          /\ \A j \in DOMAIN f : 1 < j /\ IsData(f, j) => a < f[j].arg
      BY <1>1 DEF TakenOrdered
    <2> QED
      BY <1>1, <2>1 DEF Behind, Precedes
  <1> QED
    BY <1>2, <1>3 DEF TakenOrdered

(* It takes the next frame, which is behind all that was taken before. *)
LEMMA AcceptOrdered ==
    ASSUME NEW f \in Seq(PlainPacket), f # <<>>, NEW at \in Writers, NEW frames, NEW heard \in Nat,
           TakenOrdered(frames, heard, f, at), ForwardOrdered(f, at),
           IsData(f, 1), f[1].seq = heard + 1
    PROVE  /\ \A a \in frames : a < f[1].arg
           /\ TakenOrdered(frames \cup {f[1].arg}, f[1].seq, Tail(f), at)
  <1> DEFINE q == Tail(f)
             p == f[1]
  <1>1. /\ 1 \in DOMAIN f /\ p.arg \in Nat /\ p.seq \in Nat /\ p.seq = heard + 1
        /\ \A i \in DOMAIN q :
              /\ i \in Nat /\ i + 1 \in DOMAIN f /\ q[i] = f[i + 1] /\ 1 < i + 1
              /\ IsData(q, i) = IsData(f, i + 1) /\ IsSyn(q, i) = IsSyn(f, i + 1)
              /\ q[i].arg \in Nat
              /\ IsData(q, i) => q[i].seq \in Nat
    BY TailIs, Numbers DEF IsData, IsSyn
  <1>2. /\ at.base \in Nat /\ at.place \in Nat /\ at.count \in Nat
        /\ heard # Undef /\ p.seq # Undef
    BY <1>1, Sizes DEF Writers
  <1>3. TakenOrdered(frames, heard, q, at)
    BY TakenTail
  <1>4. /\ p.arg <= at.top /\ Behind(p.arg, p.seq, at)
        /\ \A j \in DOMAIN f : 1 < j /\ IsData(f, j) => Precedes(p.arg, p.seq, f[j])
        /\ \A k \in DOMAIN f : 1 < k /\ IsSyn(f, k) => p.arg <= at.base
        /\ \A k, j \in DOMAIN f :
              1 < k /\ k < j /\ IsSyn(f, k) /\ IsData(f, j) => p.arg < f[j].arg
    BY <1>1 DEF ForwardOrdered
  <1>5. ASSUME NEW a \in frames PROVE a \in Nat /\ a < p.arg
    <2>1. a \in Nat /\ Precedes(a, heard, p)
      BY <1>1, <1>2 DEF TakenOrdered
    <2> QED
      BY <1>1, <2>1 DEF Precedes
  <1> HIDE DEF q, p
  <1>6. ASSUME NEW a \in frames
        PROVE  /\ Behind(a, p.seq, at)
               /\ \A j \in DOMAIN q : IsData(q, j) => Precedes(a, p.seq, q[j])
    <2>1. Behind(a, heard, at) /\ \A j \in DOMAIN q : IsData(q, j) => Precedes(a, heard, q[j])
      BY <1>2, <1>3 DEF TakenOrdered
    <2>2. a \in Nat /\ heard \in Nat /\ p.seq = heard + 1
      BY <1>1, <1>5
    <2>3. Behind(a, p.seq, at)
      BY <1>2, <2>1, <2>2 DEF Behind
    <2>4. ASSUME NEW j \in DOMAIN q, IsData(q, j) PROVE Precedes(a, p.seq, q[j])
      <3>1. Precedes(a, heard, q[j]) /\ q[j].arg \in Nat /\ q[j].seq \in Nat
        BY <1>1, <2>1, <2>4
      <3> QED
        BY <2>2, <3>1 DEF Precedes
    <2> QED
      BY <2>3, <2>4
  <1>7. /\ \A j \in DOMAIN q : IsData(q, j) => Precedes(p.arg, p.seq, q[j])
        /\ \A k \in DOMAIN q : IsSyn(q, k) => p.arg <= at.base
    BY <1>1, <1>4
  <1>8. \A k, j \in DOMAIN q : k < j /\ IsSyn(q, k) /\ IsData(q, j) => p.arg < q[j].arg
    <2>1. \A k, j \in DOMAIN q : k < j => k + 1 < j + 1
      BY <1>1
    <2> QED
      BY <1>1, <1>4, <2>1
  <1>9. TakenOrdered(frames \cup {p.arg}, p.seq, q, at)
    <2> SUFFICES ASSUME NEW a \in frames \cup {p.arg}
                 PROVE  /\ a \in Nat /\ a <= at.top
                        /\ Behind(a, p.seq, at)
                        /\ \A j \in DOMAIN q : IsData(q, j) => Precedes(a, p.seq, q[j])
                        /\ \A k \in DOMAIN q : IsSyn(q, k) =>
                              /\ a <= at.base
                              /\ \A j \in DOMAIN q : k < j /\ IsData(q, j) => a < q[j].arg
      BY DEF TakenOrdered
    <2>1. CASE a \in frames
      BY <1>3, <1>6, <2>1 DEF TakenOrdered
    <2>2. CASE a = p.arg
      BY <1>1, <1>4, <1>7, <1>8, <2>2
    <2> QED
      BY <2>1, <2>2
  <1> QED
    BY <1>5, <1>9 DEF p, q

(* The frame goes into the ring. *)
LEMMA RingOrdered ==
    ASSUME NEW read \in Seq(Nat), NEW ring \in Seq(Nat), NEW e \in Nat,
           Trans!InOrder(read, ring),
           \A a \in Trans!InRange(read) \cup Trans!InRange(ring) : a < e
    PROVE  /\ RingPut(ring, e) \in Seq(Nat)
           /\ Trans!InOrder(read, RingPut(ring, e))
           /\ Trans!InRange(RingPut(ring, e)) \subseteq Trans!InRange(ring) \cup {e}
  <1>1. RingPut(ring, e) = Trans!RingPut(ring, e)
    BY DEF RingPut, Trans!RingPut
  <1>2. Trans!Sorted(ring) /\ Trans!Sorted(read)
    BY DEF Trans!InOrder
  <1>3. /\ Trans!Sorted(Trans!RingPut(ring, e)) /\ Trans!RingPut(ring, e) \in Seq(Nat)
        /\ Trans!InRange(Trans!RingPut(ring, e)) \subseteq Trans!InRange(ring) \cup {e}
    BY <1>2, TransAssumed, Trans!SortedRing
  <1> QED
    BY <1>1, <1>2, <1>3 DEF Trans!InOrder

-----------------------------------------------------------------------------
(* The writer goes on: what was behind him still is.                        *)
GoesOn(at, new) ==
    /\ at.top <= new.top /\ at.base <= new.base
    /\ \A a, s \in Nat : a <= at.top /\ Behind(a, s, at) => Behind(a, s, new)

LEMMA GoesOnOrdered ==
    ASSUME NEW at \in Writers, NEW new \in Writers, GoesOn(at, new),
           NEW f \in Seq(PlainPacket), NEW heard \in Nat \cup {Undef}, NEW frames
    PROVE  /\ ForwardOrdered(f, at) => ForwardOrdered(f, new)
           /\ TakenOrdered(frames, heard, f, at) => TakenOrdered(frames, heard, f, new)
  <1>1. /\ at.top \in Nat /\ new.top \in Nat /\ at.base \in Nat /\ new.base \in Nat
        /\ \A i \in DOMAIN f : /\ f[i].arg \in Nat
                               /\ IsData(f, i) => f[i].seq \in Nat
    BY Numbers DEF Writers
  <1>2. \A a \in Nat : /\ a <= at.top => a <= new.top
                       /\ a <= at.base => a <= new.base
    BY <1>1 DEF GoesOn
  <1>3. ASSUME ForwardOrdered(f, at) PROVE ForwardOrdered(f, new)
    <2>1. \A i \in DOMAIN f : IsData(f, i) =>
              f[i].arg <= new.top /\ Behind(f[i].arg, f[i].seq, new)
      BY <1>1, <1>2, <1>3 DEF ForwardOrdered, GoesOn
    <2>2. \A i, k \in DOMAIN f : i < k /\ IsData(f, i) /\ IsSyn(f, k) => f[i].arg <= new.base
      BY <1>1, <1>2, <1>3 DEF ForwardOrdered
    <2> QED
      BY <1>3, <2>1, <2>2 DEF ForwardOrdered
  <1>4. ASSUME TakenOrdered(frames, heard, f, at) PROVE TakenOrdered(frames, heard, f, new)
    <2>1. \A a \in frames : /\ a \in Nat /\ a <= at.top
                            /\ heard # Undef => Behind(a, heard, at)
      BY <1>4 DEF TakenOrdered
    <2>2. \A a \in frames : /\ a <= new.top
                            /\ heard # Undef => Behind(a, heard, new)
      BY <1>2, <2>1 DEF GoesOn
    <2>3. \A a \in frames : \A k \in DOMAIN f : IsSyn(f, k) => a <= new.base
      BY <1>2, <1>4 DEF TakenOrdered
    <2> QED
      BY <1>4, <2>1, <2>2, <2>3 DEF TakenOrdered
  <1> QED
    BY <1>3, <1>4

(* Within a message the writer goes on when its place gains on its counter. *)
LEMMA WithinMessage ==
    ASSUME NEW at \in Writers, NEW new \in Writers,
           new.base = at.base, at.top <= new.top,
           at.place + new.count <= new.place + at.count
    PROVE  GoesOn(at, new)
  <1>1. \A a, s, b, p, c, q, d \in Nat :
            p + d <= q + c /\ (a <= b \/ a + c <= s + p) => a <= b \/ a + d <= s + q
    OBVIOUS
  <1>2. at.base \in Nat /\ at.place \in Nat /\ at.count \in Nat /\ new.place \in Nat /\ new.count \in Nat
    BY DEF Writers
  <1>3. \A a, s \in Nat : Behind(a, s, at) => Behind(a, s, new)
    BY <1>1, <1>2 DEF Behind
  <1> QED
    BY <1>2, <1>3 DEF GoesOn

(* When the message is over, and after a reset, all that was sent is of
   earlier messages.                                                        *)
LEMMA AfterMessage ==
    ASSUME NEW at \in Writers, NEW new \in Writers,
           new.base = at.top, new.top = at.top
    PROVE  GoesOn(at, new)
  BY DEF GoesOn, Behind, Writers

-----------------------------------------------------------------------------
(* Sockets and lines.                                                       *)
LEMMA OrderedFacts ==
    ASSUME NEW sk, NEW lines, NEW read, NEW at, Ordered(sk, lines, read, at)
    PROVE  /\ \A n \in Node : Sane(n, sk[n]) /\ sk[n] \in PlainSocket /\ sk[n].remote # n
           /\ \A n \in Node : /\ sk[n].remote_sequence \in Nat \cup {Undef}
                              /\ sk[n].remote_sequence \in SeqNum \cup {Undef}
                              /\ sk[n].ringbuf \in Seq(Nat)
           /\ lines[Forward] \in Seq(PlainPacket)
  <1>1. \A n \in Node : Sane(n, sk[n])
    BY DEF Ordered
  <1>2. lines[Forward] \in Seq(PlainPacket)
    BY Boards DEF Ordered, PlainLines
  <1> QED
    BY <1>1, <1>2, Sizes DEF Sane, PlainSocket

(* What board n may put on the line. *)
MaySendNow(n, at, p) ==
    /\ p \in PlainPacket /\ p.src = n /\ p.dst # n
    /\ n = Sender => SentFrom(at, p)
    /\ n = Receiver /\ p.type = "ACK" => p.seq \in Nat /\ p.seq < SeqMod - 1

LEMMA SendOrdered ==
    ASSUME NEW sk, NEW lines, NEW read, NEW at \in Writers, Ordered(sk, lines, read, at),
           NEW n \in Node, NEW p, MaySendNow(n, at, p)
    PROVE  Ordered(sk, Transmit(lines, p), read, at)
  <1> DEFINE new == Transmit(lines, p)
             f == lines[Forward]
             b == lines[Back]
             s == sk[Receiver]
  <1>1. PlainLines(new)
    BY PlainTransmit DEF Ordered, MaySendNow
  <1>2. /\ f \in Seq(PlainPacket) /\ b \in Seq(PlainPacket) /\ p \in PlainPacket
        /\ s.remote_sequence \in Nat \cup {Undef}
    <2>1. PlainLines(lines)
      BY DEF Ordered
    <2>2. f \in Seq(PlainPacket) /\ s.remote_sequence \in Nat \cup {Undef}
      BY OrderedFacts, Boards
    <2> QED
      BY <2>1, <2>2, Boards DEF PlainLines, MaySendNow
  <1>3. \/ new[Forward] = f
        \/ new[Forward] = Append(f, p) /\ n = Sender
    BY Boards DEF Transmit, MaySendNow, Forward
  <1>4. \/ new[Back] = b
        \/ new[Back] = Append(b, p) /\ n = Receiver
    BY Boards DEF Transmit, MaySendNow, Back
  <1>5. BackOrdered(new[Back])
    <2>1. CASE new[Back] = Append(b, p) /\ n = Receiver
      <3> DEFINE g == Append(b, p)
      <3>1. /\ DOMAIN g = DOMAIN b \cup {Len(b) + 1} /\ g[Len(b) + 1] = p
            /\ \A i \in DOMAIN b : g[i] = b[i]
        BY <1>2, AppendIs
      <3>2. BackOrdered(b)
        BY DEF Ordered
      <3> QED
        BY <2>1, <3>1, <3>2 DEF BackOrdered, MaySendNow
    <2>2. CASE new[Back] = b
      BY <2>2 DEF Ordered
    <2> QED
      BY <1>4, <2>1, <2>2
  <1>6. CASE new[Forward] = f
    BY <1>1, <1>5, <1>6 DEF Ordered
  <1>7. CASE new[Forward] = Append(f, p) /\ n = Sender
    <2>1. SentFrom(at, p)
      BY <1>7 DEF MaySendNow
    <2>2. ForwardOrdered(Append(f, p), at)
      BY <1>2, <2>1, ForwardAppend DEF Ordered
    <2> DEFINE frames == Trans!InRange(read) \cup Trans!InRange(s.ringbuf)
    <2>3. TakenOrdered(frames, s.remote_sequence, f, at)
      BY DEF Ordered, ReceiverOrdered
    <2> HIDE DEF frames
    <2>4. TakenOrdered(frames, s.remote_sequence, Append(f, p), at)
      BY <1>2, <2>1, <2>3, TakenAppend
    <2>5. ReceiverOrdered(s, read, Append(f, p), at)
      BY <2>4 DEF Ordered, ReceiverOrdered, frames
    <2> QED
      BY <1>1, <1>5, <1>7, <2>2, <2>5 DEF Ordered
  <1> QED
    BY <1>3, <1>6, <1>7

(* One socket changes. *)
LEMMA ChangeOrdered ==
    ASSUME NEW sk, NEW lines, NEW read, NEW at, Ordered(sk, lines, read, at),
           NEW n \in Node, NEW t, Sane(n, t),
           n = Sender => SenderOrdered(t, at),
           n = Receiver => ReceiverOrdered(t, read, lines[Forward], at)
    PROVE  Ordered([sk EXCEPT ![n] = t], lines, read, at)
  <1> DEFINE new == [sk EXCEPT ![n] = t]
  <1>1. /\ new \in [Node -> PlainSocket] /\ new[n] = t
        /\ \A k \in Node \ {n} : new[k] = sk[k]
    BY DEF Ordered, Sane
  <1>2. \A k \in Node : Sane(k, new[k])
    BY <1>1 DEF Ordered
  <1>3. SenderOrdered(new[Sender], at)
    BY <1>1, Boards DEF Ordered
  <1>4. ReceiverOrdered(new[Receiver], read, lines[Forward], at)
    BY <1>1, Boards DEF Ordered
  <1> HIDE DEF new
  <1>5. Ordered(new, lines, read, at)
    BY <1>1, <1>2, <1>3, <1>4 DEF Ordered
  <1> QED
    BY <1>5 DEF new

(* The writer goes on, and his socket with him. *)
LEMMA WriterOrdered ==
    ASSUME NEW sk, NEW lines, NEW read, NEW at \in Writers, Ordered(sk, lines, read, at),
           NEW new \in Writers, GoesOn(at, new), NEW t, Sane(Sender, t), SenderOrdered(t, new)
    PROVE  Ordered([sk EXCEPT ![Sender] = t], lines, read, new)
  <1> DEFINE f == lines[Forward]
             s == sk[Receiver]
             frames == Trans!InRange(read) \cup Trans!InRange(s.ringbuf)
             after == [sk EXCEPT ![Sender] = t]
  <1>1. f \in Seq(PlainPacket) /\ s.remote_sequence \in Nat \cup {Undef}
    BY OrderedFacts, Boards
  <1>2. ForwardOrdered(f, at) /\ TakenOrdered(frames, s.remote_sequence, f, at)
    BY DEF Ordered, ReceiverOrdered
  <1> HIDE DEF f, frames
  <1>3. ForwardOrdered(f, new) /\ TakenOrdered(frames, s.remote_sequence, f, new)
    BY <1>1, <1>2, GoesOnOrdered
  <1>4. ReceiverOrdered(s, read, f, new)
    BY <1>3 DEF Ordered, ReceiverOrdered, frames
  <1>5. /\ after \in [Node -> PlainSocket] /\ after[Sender] = t /\ after[Receiver] = s
        /\ \A k \in Node : Sane(k, after[k])
    BY Boards DEF Ordered, Sane
  <1> HIDE DEF after, s
  <1>6. Ordered(after, lines, read, new)
    BY <1>3, <1>4, <1>5 DEF Ordered, f
  <1> QED
    BY <1>6 DEF after

(* A socket that keeps its numbers and its ring. *)
LEMMA SameOrdered ==
    ASSUME NEW sk, NEW lines, NEW read, NEW at, Ordered(sk, lines, read, at),
           NEW n \in Node, NEW t, Sane(n, t),
           n = Sender => /\ t.sequence_number = sk[n].sequence_number
                         /\ t.last_recved_ack = sk[n].last_recved_ack,
           n = Receiver => /\ t.remote_sequence = sk[n].remote_sequence
                           /\ t.ringbuf = sk[n].ringbuf
    PROVE  Ordered([sk EXCEPT ![n] = t], lines, read, at)
  <1>1. n = Sender => SenderOrdered(t, at)
    BY DEF Ordered, SenderOrdered
  <1>2. n = Receiver => ReceiverOrdered(t, read, lines[Forward], at)
    BY DEF Ordered, ReceiverOrdered
  <1> QED
    BY <1>1, <1>2, ChangeOrdered

LEMMA StateOrdered ==
    ASSUME NEW sk, NEW lines, NEW read, NEW at, Ordered(sk, lines, read, at),
           NEW n \in Node, NEW state \in ConnectionState,
           state \in {"SYN_RECVED", "PENDING", "OPEN"} => sk[n].remote_sequence # Undef
    PROVE  Ordered([sk EXCEPT ![n] = [sk[n] EXCEPT !.state = state]], lines, read, at)
  <1> DEFINE t == [sk[n] EXCEPT !.state = state]
  <1>1. /\ t \in PlainSocket /\ t.remote = sk[n].remote /\ t.state = state
        /\ t.sequence_number = sk[n].sequence_number
        /\ t.remote_sequence = sk[n].remote_sequence
        /\ t.last_recved_ack = sk[n].last_recved_ack
        /\ t.ringbuf = sk[n].ringbuf
    BY OrderedFacts DEF PlainSocket
  <1>2. Sane(n, t)
    BY <1>1, OrderedFacts DEF Sane
  <1> QED
    BY <1>1, <1>2, SameOrdered

LEMMA HangUpOrdered ==
    ASSUME NEW sk, NEW lines, NEW read, NEW at \in Writers, Ordered(sk, lines, read, at),
           NEW n \in Node
    PROVE  Ordered([sk EXCEPT ![n] = Disconnected(sk[n])],
                   LinesAfterDisconnect(lines, n, sk[n]), read, at)
  <1>1. MaySendNow(n, at, ClosePacket(n, sk[n]))
    BY OrderedFacts DEF MaySendNow, SentFrom, ClosePacket, ToRemote, PlainPacket, PlainSocket,
                        MessageType
  <1>2. Ordered(sk, LinesAfterDisconnect(lines, n, sk[n]), read, at)
    BY <1>1, SendOrdered DEF LinesAfterDisconnect
  <1> QED
    BY <1>2, StateOrdered DEF Disconnected, ConnectionState

(* A socket that has heard a number acknowledges it. *)
LEMMA AckOrdered ==
    ASSUME NEW sk, NEW lines, NEW read, NEW at \in Writers, Ordered(sk, lines, read, at),
           NEW n \in Node, sk[n].state = "SYN_RECVED"
    PROVE  Ordered(sk, Transmit(lines, AckPacket(n, sk[n])), read, at)
  <1> DEFINE s == sk[n]
  <1>1. /\ s \in PlainSocket /\ s.remote # n
        /\ s.remote_sequence \in Nat /\ s.remote_sequence \in SeqNum
    BY OrderedFacts DEF Sane
  <1>2. n = Receiver => s.remote_sequence < SeqMod - 1
    BY <1>1, Sizes DEF Ordered, ReceiverOrdered
  <1>3. MaySendNow(n, at, AckPacket(n, s))
    BY <1>1, <1>2 DEF MaySendNow, SentFrom, AckPacket, ToRemote, PlainPacket, PlainSocket,
                      MessageType
  <1> QED
    BY <1>3, SendOrdered

(* A SYN is sent and counted; on the writer's board no message is being
   written.  s is the socket that sends it: that of n, but for its remote end. *)
LEMMA SynOrdered ==
    ASSUME RoomBelowWrap,
           NEW sk, NEW lines, NEW read, NEW at \in Writers, Ordered(sk, lines, read, at),
           NEW n \in Node, n = Sender => at.base = at.top,
           NEW s \in PlainSocket, s.remote # n,
           s.sequence_number = sk[n].sequence_number, s.sequence_number < MaxSyn,
           s.remote_sequence = sk[n].remote_sequence,
           s.last_recved_ack = sk[n].last_recved_ack, s.ringbuf = sk[n].ringbuf,
           NEW state \in ConnectionState,
           state \in {"SYN_RECVED", "PENDING", "OPEN"} => s.remote_sequence # Undef
    PROVE  LET counted == IF n = Sender THEN [at EXCEPT !.count = at.count + 1] ELSE at
           IN  Ordered([sk EXCEPT ![n] = [AfterSyn(s) EXCEPT !.state = state]],
                       Transmit(lines, SynPacket(n, s)), read, counted)
  <1> DEFINE t == [AfterSyn(s) EXCEPT !.state = state]
             new == [sk EXCEPT ![n] = t]
             counted == IF n = Sender THEN [at EXCEPT !.count = at.count + 1] ELSE at
             p == SynPacket(n, s)
  <1>1. s.sequence_number \in Nat /\ s.sequence_number < SeqMod - 1 /\ s.sequence_number \in SeqNum
    <2>1. s.sequence_number \in Nat /\ s.sequence_number \in SeqNum
      BY Sizes DEF PlainSocket
    <2>2. MaxSyn < SeqMod - 1 /\ MaxSyn \in Nat /\ SeqMod \in Nat
      BY Bounds
    <2> QED
      BY <2>1, <2>2
  <1>2. s.sequence_number + 1 \in 0 .. SeqMod - 1
    BY <1>1, Bounds
  <1>3. (s.sequence_number + 1) % SeqMod = s.sequence_number + 1
    BY <1>1, <1>2, Bounds
  <1>4. /\ t \in PlainSocket /\ t.state = state /\ t.remote = s.remote
        /\ t.sequence_number = s.sequence_number + 1
        /\ t.remote_sequence = s.remote_sequence
        /\ t.last_recved_ack = s.last_recved_ack /\ t.ringbuf = s.ringbuf
    BY <1>2, <1>3 DEF AfterSyn, PlainSocket, SeqNum
  <1>5. Sane(n, t)
    BY <1>4 DEF Sane
  <1>6. /\ p \in PlainPacket /\ p.src = n /\ p.dst # n /\ p.type = "SYN"
        /\ p.seq = s.sequence_number
    <2>1. PortOf[n] \in Nat
      BY SocketAssumption
    <2> QED
      BY <2>1, <1>1 DEF SynPacket, ToRemote, PlainPacket, PlainSocket, MessageType
  <1> HIDE DEF t, p
  <1>7. CASE n = Sender
    <2> DEFINE more == [at EXCEPT !.count = at.count + 1]
    <2>1. /\ more \in Writers /\ more.base = at.top /\ more.top = at.top
          /\ more.count = at.count + 1 /\ more.place = at.place
      BY <1>7 DEF Writers
    <2>2. GoesOn(at, more)
      BY <2>1, AfterMessage
    <2>3. SenderOrdered(t, more)
      <3>1. SenderOrdered(sk[Sender], at)
        BY DEF Ordered
      <3>2. s.sequence_number = at.count /\ at.place \in Nat
        BY <1>7, <3>1 DEF SenderOrdered, Writers
      <3> QED
        BY <1>1, <1>4, <1>7, <2>1, <3>1, <3>2, Bounds DEF SenderOrdered
    <2> HIDE DEF more
    <2>4. Ordered(new, lines, read, more)
      BY <1>5, <1>7, <2>1, <2>2, <2>3, WriterOrdered
    <2>5. MaySendNow(n, more, p)
      BY <1>1, <1>6, <1>7, <2>1, Boards DEF MaySendNow, SentFrom
    <2>6. Ordered(new, Transmit(lines, p), read, more)
      BY <2>1, <2>4, <2>5, SendOrdered
    <2> QED
      BY <1>7, <2>6 DEF more, t, p
  <1>8. CASE n # Sender
    <2>1. n = Receiver
      BY <1>8, Boards
    <2>2. Ordered(new, lines, read, at)
      BY <1>4, <1>5, <1>8, SameOrdered
    <2>3. MaySendNow(n, at, p)
      BY <1>6, <1>8 DEF MaySendNow
    <2>4. Ordered(new, Transmit(lines, p), read, at)
      BY <2>2, <2>3, SendOrdered
    <2> QED
      BY <1>8, <2>4 DEF t, p
  <1> QED
    BY <1>7, <1>8

(* The oldest packet of a route leaves it. *)
LEMMA ConsumeOrdered ==
    ASSUME NEW sk, NEW lines, NEW read, NEW at, Ordered(sk, lines, read, at),
           NEW m \in Node, NEW n \in Node, lines[<<m, n>>] # <<>>
    PROVE  LET r == <<m, n>>
               p == Head(lines[r])
           IN  /\ Ordered(sk, Consume(lines, r), read, at)
               /\ p \in PlainPacket /\ p.src = m /\ m # n
               /\ n = Receiver => /\ r = Forward /\ lines[Forward][1] = p
                                  /\ Consume(lines, r)[Forward] = Tail(lines[Forward])
               /\ n = Sender /\ p.type = "ACK" => p.seq \in Nat /\ p.seq < SeqMod - 1
  <1> DEFINE r == <<m, n>>
             new == Consume(lines, r)
             p == Head(lines[r])
             q == Tail(lines[r])
  <1>1. /\ PlainLines(new) /\ new[r] = q /\ \A k \in Route \ {r} : new[k] = lines[k]
        /\ m # n /\ p \in PlainPacket /\ p.src = m
    BY PlainConsume DEF Ordered
  <1>2. lines[r] \in Seq(PlainPacket)
    BY Boards DEF Ordered, PlainLines
  <1>3. /\ p = lines[r][1] /\ 1 \in DOMAIN lines[r]
        /\ \A i \in DOMAIN q : i + 1 \in DOMAIN lines[r] /\ q[i] = lines[r][i + 1]
    BY <1>2, TailIs
  <1>4. CASE n = Receiver
    <2>1. r = Forward /\ new[Forward] = q /\ new[Back] = lines[Back]
      BY <1>1, <1>4, Boards DEF Forward, Back
    <2>2. ForwardOrdered(q, at)
      BY <1>2, <2>1, ForwardTail DEF Ordered
    <2> DEFINE s == sk[Receiver]
               frames == Trans!InRange(read) \cup Trans!InRange(s.ringbuf)
    <2>3. TakenOrdered(frames, s.remote_sequence, lines[r], at)
      BY <2>1 DEF Ordered, ReceiverOrdered
    <2> HIDE DEF frames
    <2>4. TakenOrdered(frames, s.remote_sequence, q, at)
      BY <1>2, <2>3, TakenTail
    <2>5. ReceiverOrdered(s, read, q, at)
      BY <2>4 DEF Ordered, ReceiverOrdered, frames
    <2> QED
      BY <1>1, <1>3, <1>4, <2>1, <2>2, <2>5, Boards DEF Ordered
  <1>5. CASE n = Sender
    <2>1. r = Back /\ new[Back] = q /\ new[Forward] = lines[Forward]
      BY <1>1, <1>5, Boards DEF Forward, Back
    <2>2. BackOrdered(lines[r])
      BY <2>1 DEF Ordered
    <2>3. BackOrdered(q)
      BY <1>3, <2>2 DEF BackOrdered
    <2>4. p.type = "ACK" => p.seq \in Nat /\ p.seq < SeqMod - 1
      BY <1>3, <2>2 DEF BackOrdered
    <2> QED
      BY <1>1, <1>5, <2>1, <2>3, <2>4, Boards DEF Ordered
  <1> QED
    BY <1>4, <1>5, Boards

-----------------------------------------------------------------------------
(* The handlers.  The number that an open receiver expects next. *)
LEMMA NextIs ==
    ASSUME NEW heard \in Nat, heard < SeqMod - 1, NEW s, s.remote_sequence = heard
    PROVE  NextForServer(s) = heard + 1 /\ NextForClient(s) = heard + 1
  <1>1. heard + 1 \in 0 .. SeqMod - 1
    BY Bounds
  <1>2. (heard + 1) % SeqMod = heard + 1
    BY <1>1, Bounds
  <1> QED
    BY <1>2 DEF NextForServer, NextForClient

(* What is left of the line after the oldest packet p, for the receiver. *)
LEMMA ReceiverTakes ==
    ASSUME NEW read \in Seq(Nat), NEW f \in Seq(PlainPacket), f # <<>>, NEW at \in Writers,
           ForwardOrdered(f, at), f[1].src # Receiver,
           NEW s, ReceiverOrdered(s, read, f, at), Sane(Receiver, s)
    PROVE  LET t == Received(Receiver, s, f[1])
           IN  Sane(Receiver, t) /\ ReceiverOrdered(t, read, Tail(f), at)
  <1> DEFINE p == f[1]
             q == Tail(f)
             d == Dispatched(s, p)
             t == Received(Receiver, s, p)
             heard == s.remote_sequence
             frames == Trans!InRange(read) \cup Trans!InRange(s.ringbuf)
             Fit(x) == Sane(Receiver, x) /\ ReceiverOrdered(x, read, q, at)
  <1>0. /\ s \in PlainSocket
        /\ s.state \in {"SYN_RECVED", "PENDING", "OPEN"} => heard # Undef
    BY DEF Sane
  <1>1. /\ p \in PlainPacket /\ 1 \in DOMAIN f /\ p.src \in Node /\ p.arg \in Nat
        /\ p.src # Receiver
        /\ p.type \in {"SYN", "DATA"} => p.seq \in SeqNum /\ p.seq \in Nat /\ p.seq < SeqMod - 1
    <2>1. p \in PlainPacket /\ 1 \in DOMAIN f
      BY TailIs
    <2>2. p.type \in {"SYN", "DATA"} => p.seq < SeqMod - 1
      BY <2>1 DEF ForwardOrdered, IsData, IsSyn
    <2> QED
      BY <2>1, <2>2, Sizes DEF PlainPacket
  <1>2. /\ d \in PlainSocket /\ d.remote = p.src /\ d.state = s.state
        /\ d.remote_sequence = heard /\ d.ringbuf = s.ringbuf
    BY <1>0, <1>1 DEF Dispatched, PlainSocket, Address
  <1>3. /\ TakenOrdered(frames, heard, f, at) /\ Trans!InOrder(read, s.ringbuf)
        /\ heard # Undef => heard < SeqMod - 1
        /\ s.ringbuf \in Seq(Nat) /\ heard \in Nat \cup {Undef}
    BY <1>0, Sizes DEF ReceiverOrdered, PlainSocket
  <1>4. TakenOrdered(frames, heard, q, at)
    BY <1>3, TakenTail
  <1>5. ASSUME NEW x, x.remote_sequence = heard, x.ringbuf = s.ringbuf
        PROVE  ReceiverOrdered(x, read, q, at)
    BY <1>3, <1>4, <1>5 DEF ReceiverOrdered
  <1> HIDE DEF p, q, frames
  <1>6. ASSUME t = d PROVE Fit(t)
    BY <1>0, <1>1, <1>2, <1>5, <1>6 DEF Sane
  <1>7. ASSUME t = [d EXCEPT !.state = "CLOSED"] PROVE Fit(t)
    <2>1. /\ t \in PlainSocket /\ t.state = "CLOSED" /\ t.remote = d.remote
          /\ t.remote_sequence = d.remote_sequence /\ t.ringbuf = d.ringbuf
      BY <1>2, <1>7 DEF PlainSocket, ConnectionState
    <2> QED
      BY <1>0, <1>1, <1>2, <1>5, <2>1 DEF Sane
  <1>8. ASSUME d.state = "PENDING", t = [d EXCEPT !.state = "OPEN"] PROVE Fit(t)
    <2>1. /\ t \in PlainSocket /\ t.remote = d.remote
          /\ t.remote_sequence = d.remote_sequence /\ t.ringbuf = d.ringbuf
      BY <1>2, <1>8 DEF PlainSocket, ConnectionState
    <2> QED
      BY <1>0, <1>1, <1>2, <1>5, <1>8, <2>1 DEF Sane
  <1>9. ASSUME p.type = "ACK", t = [d EXCEPT !.last_recved_ack = p.seq] PROVE Fit(t)
    <2>1. p.seq \in SeqNum \cup {Undef}
      BY <1>1 DEF PlainPacket
    <2>2. /\ t \in PlainSocket /\ t.remote = d.remote /\ t.state = d.state
          /\ t.remote_sequence = d.remote_sequence /\ t.ringbuf = d.ringbuf
      BY <1>2, <1>9, <2>1 DEF PlainSocket
    <2> QED
      BY <1>0, <1>1, <1>2, <1>5, <2>2 DEF Sane
  <1>10. ASSUME p.type = "SYN",
                \/ t = AdoptPeer(d, p.src, p)
                \/ t = [d EXCEPT !.remote_sequence = p.seq, !.state = "SYN_RECVED"]
         PROVE  Fit(t)
    <2>1. p.seq \in SeqNum /\ p.seq # Undef /\ p.seq < SeqMod - 1
      BY <1>1, <1>10, Sizes
    <2>2. /\ t \in PlainSocket /\ t.remote = p.src
          /\ t.remote_sequence = p.seq /\ t.ringbuf = d.ringbuf
      BY <1>1, <1>2, <1>10, <2>1 DEF AdoptPeer, PlainSocket, ConnectionState, Address
    <2>3. IsSyn(f, 1)
      BY <1>10 DEF IsSyn, p
    <2>4. TakenOrdered(frames, p.seq, q, at)
      BY <1>3, <2>3, AdoptOrdered DEF q
    <2>5. ReceiverOrdered(t, read, q, at)
      BY <1>2, <1>3, <2>1, <2>2, <2>4 DEF ReceiverOrdered, frames
    <2> QED
      BY <1>1, <2>1, <2>2, <2>5 DEF Sane
  <1>11. ASSUME s.state = "OPEN", p.type = "DATA", t = Accept(d, p),
                p.seq \in {NextForServer(s), NextForClient(s)}
         PROVE  Fit(t)
    <2>1. heard \in Nat /\ heard < SeqMod - 1
      BY <1>0, <1>3, <1>11
    <2>2. p.seq = heard + 1
      BY <1>11, <2>1, NextIs
    <2>3. IsData(f, 1) /\ f[1] = p
      BY <1>11 DEF IsData, p
    <2>4. /\ \A a \in frames : a < p.arg
          /\ TakenOrdered(frames \cup {p.arg}, p.seq, q, at)
      BY <1>3, <2>1, <2>2, <2>3, AcceptOrdered DEF q
    <2> DEFINE ring == RingPut(s.ringbuf, p.arg)
    <2>5. /\ ring \in Seq(Nat) /\ Trans!InOrder(read, ring)
          /\ Trans!InRange(ring) \subseteq Trans!InRange(s.ringbuf) \cup {p.arg}
      BY <1>1, <1>3, <2>4, RingOrdered DEF frames
    <2> HIDE DEF ring
    <2>6. t = [d EXCEPT !.remote_sequence = p.seq, !.ringbuf = ring]
      BY <1>2, <1>11 DEF Accept, ring
    <2>7. p.seq \in SeqNum /\ p.seq # Undef /\ p.seq < SeqMod - 1
      BY <1>1, <1>11, Sizes
    <2>8. /\ t \in PlainSocket /\ t.remote = p.src /\ t.remote_sequence = p.seq
          /\ t.ringbuf = ring /\ t.state = s.state
      BY <1>2, <2>5, <2>6, <2>7 DEF PlainSocket
    <2>9. TakenOrdered(Trans!InRange(read) \cup Trans!InRange(ring), p.seq, q, at)
      BY <2>4, <2>5 DEF TakenOrdered, frames
    <2>10. ReceiverOrdered(t, read, q, at)
      BY <2>5, <2>7, <2>8, <2>9 DEF ReceiverOrdered
    <2> QED
      BY <1>1, <2>7, <2>8, <2>10 DEF Sane
  <1>12. \/ t = d
         \/ t = [d EXCEPT !.state = "CLOSED"]
         \/ d.state = "PENDING" /\ t = [d EXCEPT !.state = "OPEN"]
         \/ p.type = "ACK" /\ t = [d EXCEPT !.last_recved_ack = p.seq]
         \/ p.type = "SYN" /\ t = AdoptPeer(d, p.src, p)
         \/ /\ p.type = "SYN"
            /\ t = [d EXCEPT !.remote_sequence = p.seq, !.state = "SYN_RECVED"]
         \/ /\ s.state = "OPEN" /\ p.type = "DATA" /\ t = Accept(d, p)
            /\ p.seq \in {NextForServer(s), NextForClient(s)}
    <2>1. Receiver \in Node
      BY Boards
    <2> QED
      BY <1>0, <1>1, <2>1, AnyOutcome
  <1> HIDE DEF Fit, t, d
  <1>13. Fit(t)
    BY <1>6, <1>7, <1>8, <1>9, <1>10, <1>11, <1>12
  <1> QED
    BY <1>13 DEF Fit, t, p, q

(* For the sender nothing but the number of an ACK matters. *)
LEMMA SenderHears ==
    ASSUME NEW s, NEW at, SenderOrdered(s, at), Sane(Sender, s),
           NEW p \in PlainPacket, p.src # Sender,
           p.type = "ACK" => p.seq \in Nat /\ p.seq < SeqMod - 1
    PROVE  LET t == Received(Sender, s, p)
           IN  Sane(Sender, t) /\ SenderOrdered(t, at)
  <1> DEFINE d == Dispatched(s, p)
             t == Received(Sender, s, p)
             Fit(x) == Sane(Sender, x) /\ SenderOrdered(x, at)
  <1>1. /\ s \in PlainSocket /\ p.src \in Node /\ p.arg \in Nat
        /\ s.state \in {"SYN_RECVED", "PENDING", "OPEN"} => s.remote_sequence # Undef
        /\ p.type # "ACK" => p.seq \in SeqNum /\ p.seq # Undef
        /\ p.seq \in SeqNum \cup {Undef}
    BY Sizes DEF Sane, PlainPacket
  <1>2. /\ d \in PlainSocket /\ d.remote = p.src /\ d.state = s.state
        /\ d.remote_sequence = s.remote_sequence /\ d.sequence_number = s.sequence_number
        /\ d.last_recved_ack = s.last_recved_ack
    BY <1>1 DEF Dispatched, PlainSocket, Address
  <1>3. ASSUME NEW x \in PlainSocket, x.remote = p.src,
               x.sequence_number = s.sequence_number,
               \/ x.last_recved_ack = s.last_recved_ack
               \/ p.type = "ACK" /\ x.last_recved_ack = p.seq,
               \/ x.remote_sequence # Undef
               \/ x.remote_sequence = s.remote_sequence /\ x.state = s.state
               \/ x.remote_sequence = s.remote_sequence /\ s.state = "PENDING"
               \/ x.state = "CLOSED"
        PROVE  Fit(x)
    BY <1>1, <1>3 DEF Sane, SenderOrdered
  <1>4. \/ t = d
        \/ t = [d EXCEPT !.state = "CLOSED"]
        \/ d.state = "PENDING" /\ t = [d EXCEPT !.state = "OPEN"]
        \/ p.type = "ACK" /\ t = [d EXCEPT !.last_recved_ack = p.seq]
        \/ p.type = "SYN" /\ t = AdoptPeer(d, p.src, p)
        \/ /\ p.type = "SYN"
           /\ t = [d EXCEPT !.remote_sequence = p.seq, !.state = "SYN_RECVED"]
        \/ /\ s.state = "OPEN" /\ p.type = "DATA" /\ t = Accept(d, p)
           /\ p.seq \in {NextForServer(s), NextForClient(s)}
    <2>1. Sender \in Node
      BY Boards
    <2> QED
      BY <1>1, <2>1, AnyOutcome
  <1> HIDE DEF Fit, t, d
  <1>5. ASSUME t = d PROVE Fit(t)
    BY <1>2, <1>3, <1>5
  <1>6. ASSUME t = [d EXCEPT !.state = "CLOSED"] PROVE Fit(t)
    <2>1. /\ t \in PlainSocket /\ t.state = "CLOSED" /\ t.remote = d.remote
          /\ t.sequence_number = d.sequence_number /\ t.last_recved_ack = d.last_recved_ack
      BY <1>2, <1>6 DEF PlainSocket, ConnectionState
    <2> QED
      BY <1>2, <1>3, <2>1
  <1>7. ASSUME d.state = "PENDING", t = [d EXCEPT !.state = "OPEN"] PROVE Fit(t)
    <2>1. /\ t \in PlainSocket /\ t.remote = d.remote /\ t.remote_sequence = d.remote_sequence
          /\ t.sequence_number = d.sequence_number /\ t.last_recved_ack = d.last_recved_ack
      BY <1>2, <1>7 DEF PlainSocket, ConnectionState
    <2> QED
      BY <1>2, <1>3, <1>7, <2>1
  <1>8. ASSUME p.type = "ACK", t = [d EXCEPT !.last_recved_ack = p.seq] PROVE Fit(t)
    <2>1. /\ t \in PlainSocket /\ t.remote = d.remote /\ t.remote_sequence = d.remote_sequence
          /\ t.state = d.state
          /\ t.sequence_number = d.sequence_number /\ t.last_recved_ack = p.seq
      BY <1>1, <1>2, <1>8 DEF PlainSocket
    <2> QED
      BY <1>2, <1>3, <1>8, <2>1
  <1>9. ASSUME p.type = "SYN",
               \/ t = AdoptPeer(d, p.src, p)
               \/ t = [d EXCEPT !.remote_sequence = p.seq, !.state = "SYN_RECVED"]
        PROVE  Fit(t)
    <2>1. /\ t \in PlainSocket /\ t.remote = p.src /\ t.remote_sequence = p.seq
          /\ t.sequence_number = d.sequence_number /\ t.last_recved_ack = d.last_recved_ack
      BY <1>1, <1>2, <1>9, ZenonT(40) DEF AdoptPeer, PlainSocket, ConnectionState, Address
    <2> QED
      BY <1>1, <1>2, <1>3, <1>9, <2>1
  <1>10. ASSUME p.type = "DATA", t = Accept(d, p) PROVE Fit(t)
    <2> DEFINE ring == RingPut(d.ringbuf, p.arg)
    <2>1. ring \in Seq(Nat)
      <3>1. d.ringbuf \in Seq(Nat)
        BY <1>2 DEF PlainSocket
      <3>2. ring = Trans!RingPut(d.ringbuf, p.arg)
        BY DEF RingPut, Trans!RingPut
      <3> QED
        BY <1>1, <3>1, <3>2, TransAssumed, Trans!RingTyped, ZenonT(40)
    <2> HIDE DEF ring
    <2>2. t = [d EXCEPT !.remote_sequence = p.seq, !.ringbuf = ring]
      BY <1>2, <1>10 DEF Accept, ring, PlainSocket
    <2>3. /\ t \in PlainSocket /\ t.remote = d.remote /\ t.remote_sequence = p.seq
          /\ t.sequence_number = d.sequence_number /\ t.last_recved_ack = d.last_recved_ack
      BY <1>1, <1>2, <1>10, <2>1, <2>2 DEF PlainSocket
    <2> QED
      BY <1>1, <1>2, <1>3, <1>10, <2>3
  <1>11. Fit(t)
    BY <1>4, <1>5, <1>6, <1>7, <1>8, <1>9, <1>10
  <1> QED
    BY <1>11 DEF Fit, t

(* A board takes a packet from a line, and answers it. *)
LEMMA DeliverOrdered ==
    ASSUME NEW sk, NEW lines, NEW read \in Seq(Nat), NEW at \in Writers,
           Ordered(sk, lines, read, at), NEW m \in Node, NEW n \in Node, lines[<<m, n>>] # <<>>
    PROVE  LET r == <<m, n>>
               p == Head(lines[r])
           IN  Ordered([sk EXCEPT ![n] = Received(n, sk[n], p)],
                       LinesAfter(lines, r, n, sk[n], p), read, at)
  <1> DEFINE r == <<m, n>>
             p == Head(lines[r])
             rest == Consume(lines, r)
             t == Received(n, sk[n], p)
             new == [sk EXCEPT ![n] = t]
  <1>1. /\ Ordered(sk, rest, read, at)
        /\ p \in PlainPacket /\ p.src = m /\ m # n
        /\ n = Receiver => /\ r = Forward /\ lines[Forward][1] = p
                           /\ rest[Forward] = Tail(lines[Forward])
        /\ n = Sender /\ p.type = "ACK" => p.seq \in Nat /\ p.seq < SeqMod - 1
    BY ConsumeOrdered
  <1>2. Sane(n, sk[n]) /\ lines[Forward] \in Seq(PlainPacket)
    BY OrderedFacts
  <1>3. /\ Sane(n, t)
        /\ n = Sender => SenderOrdered(t, at)
        /\ n = Receiver => ReceiverOrdered(t, read, rest[Forward], at)
    <2>1. CASE n = Sender
      <3>1. SenderOrdered(sk[Sender], at)
        BY DEF Ordered
      <3>2. Sane(Sender, t) /\ SenderOrdered(t, at)
        BY <1>1, <1>2, <2>1, <3>1, SenderHears
      <3> QED
        BY <2>1, <3>2, Boards
    <2>2. CASE n = Receiver
      <3> DEFINE f == lines[Forward]
      <3>1. /\ ForwardOrdered(f, at) /\ ReceiverOrdered(sk[Receiver], read, f, at)
            /\ f # <<>> /\ f[1] = p /\ f \in Seq(PlainPacket)
        BY <1>1, <1>2, <2>2 DEF Ordered
      <3>2. f[1].src # Receiver /\ Sane(Receiver, sk[Receiver])
        BY <1>1, <1>2, <2>2, <3>1
      <3> HIDE DEF f
      <3>3. /\ Sane(Receiver, Received(Receiver, sk[Receiver], f[1]))
            /\ ReceiverOrdered(Received(Receiver, sk[Receiver], f[1]), read, Tail(f), at)
        BY <3>1, <3>2, ReceiverTakes
      <3> QED
        BY <1>1, <2>2, <3>1, <3>3, Boards DEF f
    <2> QED
      BY <2>1, <2>2, Boards
  <1>4. Ordered(new, rest, read, at)
    BY <1>1, <1>3, ChangeOrdered
  <1>5. CASE Acknowledges(sk[n], p)
    <2>1. sk[n].state = "OPEN" /\ p.type = "DATA"
      BY <1>5 DEF Acknowledges
    <2>2. t \in PlainSocket /\ t.remote # n
      BY <1>3 DEF Sane
    <2>3. t.remote_sequence \in Nat /\ t.remote_sequence \in SeqNum
      <3>1. sk[n] \in PlainSocket /\ sk[n].remote_sequence # Undef
        BY <1>2, <2>1 DEF Sane
      <3>2. t.remote_sequence \in {sk[n].remote_sequence, p.seq}
        <4> DEFINE d == Dispatched(sk[n], p)
        <4>1. \/ t = d \/ t = [d EXCEPT !.state = "CLOSED"] \/ t = [d EXCEPT !.state = "OPEN"]
              \/ t = Accept(d, p)
          BY <1>1, <2>1, <3>1, AnyOutcome
        <4>2. d \in PlainSocket /\ d.remote_sequence = sk[n].remote_sequence
          BY <1>1, <3>1 DEF Dispatched, PlainSocket, PlainPacket, Address
        <4> HIDE DEF d, t
        <4> QED
          BY <4>1, <4>2 DEF Accept, PlainSocket
      <3>3. p.seq \in SeqNum /\ p.seq # Undef
        BY <1>1, <2>1, Sizes DEF PlainPacket
      <3>4. t.remote_sequence # Undef
        BY <3>1, <3>2, <3>3
      <3> QED
        BY <2>2, <3>4, Sizes DEF PlainSocket
    <2>4. n = Receiver => t.remote_sequence < SeqMod - 1
      BY <1>3, <2>3, Sizes DEF ReceiverOrdered
    <2>5. MaySendNow(n, at, AckPacket(n, t))
      BY <2>2, <2>3, <2>4 DEF MaySendNow, SentFrom, AckPacket, ToRemote, PlainPacket, PlainSocket,
                              MessageType
    <2> HIDE DEF new, rest, t
    <2>6. Ordered(new, Transmit(rest, AckPacket(n, t)), read, at)
      BY <1>4, <2>5, SendOrdered
    <2> QED
      BY <1>5, <2>6 DEF LinesAfter, new, rest, t
  <1>6. CASE ~Acknowledges(sk[n], p)
    BY <1>4, <1>6 DEF LinesAfter
  <1> QED
    BY <1>5, <1>6

-----------------------------------------------------------------------------
(* The actions.                                                             *)
LEMMA WriterTyped ==
    ASSUME OrderInv
    PROVE  /\ Writer \in Writers
           /\ ~w.active => Writer.base = Writer.top
           /\ Writer.base = offered /\ Writer.place = offered + w.pos
           /\ Writer.top = offered + w.len /\ Writer.count = sock[Sender].sequence_number
           /\ Ordered(sock, net, got, Writer) /\ got \in Seq(Nat)
           /\ w.pos \in Nat /\ w.len \in Nat /\ w.n \in Nat /\ w.pos + w.n <= w.len
           /\ offered \in Nat /\ sock[Sender].sequence_number \in Nat
  <1>1. sock[Sender].sequence_number \in Nat
    BY OrderedFacts, Boards, Sizes DEF OrderInv, PlainSocket
  <1>2. /\ offered \in Nat /\ w.pos \in Nat /\ w.len \in Nat /\ w.n \in Nat /\ w.pos + w.n <= w.len
        /\ ~w.active => w.len = 0
    BY Sizes DEF OrderInv, WriteInRange, Data!NoWrite
  <1>3. offered + w.pos \in Nat /\ offered + w.len \in Nat
        /\ offered <= offered + w.pos /\ offered + w.pos <= offered + w.len
        /\ ~w.active => offered = offered + w.len
    BY <1>2
  <1> QED
    BY <1>1, <1>2, <1>3 DEF OrderInv, Writer, Writers

LEMMA OrderInit == Init /\ RoomBelowWrap => OrderInv
  <1> SUFFICES ASSUME Init, RoomBelowWrap PROVE OrderInv
    OBVIOUS
  <1>1. sock = [n \in Node |-> NewSocket] /\ net = EmptyLines
    BY ConnWords DEF Init, Conn!Init
  <1>2. NewSocket \in PlainSocket
    BY Sizes DEF NewSocket, PlainSocket, ConnectionState, Address, SeqNum
  <1>3. \A n \in Node : Sane(n, sock[n])
    BY <1>1, <1>2 DEF Sane, NewSocket, RoomBelowWrap
  <1>4. PlainLines(net) /\ net[Forward] = <<>> /\ net[Back] = <<>>
    BY <1>1, Boards DEF PlainLines, EmptyLines
  <1>5. /\ w = Data!NoWrite /\ offered = 0 /\ got = <<>>
    BY DEF Init
  <1>6. WriteInRange
    BY <1>5, Sizes, Bounds DEF Data!NoWrite, WriteInRange
  <1>7. SenderOrdered(sock[Sender], Writer)
    BY <1>1, <1>5, Boards, Bounds DEF SenderOrdered, Writer, NewSocket, Data!NoWrite
  <1>8. ReceiverOrdered(sock[Receiver], got, net[Forward], Writer)
    <2>1. sock[Receiver].remote_sequence = Undef /\ sock[Receiver].ringbuf = <<>>
      BY <1>1, Boards DEF NewSocket
    <2> QED
      BY <1>5, <2>1 DEF ReceiverOrdered, TakenOrdered, Trans!InRange, Trans!InOrder, Trans!Sorted
  <1>9. Ordered(sock, net, got, Writer)
    BY <1>1, <1>2, <1>3, <1>4, <1>7, <1>8 DEF Ordered, ForwardOrdered, BackOrdered
  <1> QED
    BY <1>5, <1>6, <1>9 DEF OrderInv

(* A step that leaves write and what was read alone. *)
LEMMA OnlyOrdered ==
    ASSUME OrderInv, w' = w, offered' = offered, got' = got,
           Ordered(sock', net', got, Writer), sock'[Sender].sequence_number = Writer.count
    PROVE  OrderInv'
  <1>1. Writer' = Writer
    BY WriterTyped DEF Writer
  <1>2. WriteInRange'
    BY DEF OrderInv, WriteInRange, Data!NoWrite
  <1> QED
    BY <1>1, <1>2 DEF OrderInv

LEMMA CountIs ==
    ASSUME NEW sk, NEW lines, NEW read, NEW at, Ordered(sk, lines, read, at)
    PROVE  sk[Sender].sequence_number = at.count
  BY DEF Ordered, SenderOrdered

(* A SYN: only the counter of who sends it changes. *)
LEMMA CountedOrdered ==
    ASSUME OrderInv, w' = w, offered' = offered, got' = got, NEW n \in Node,
           LET counted == IF n = Sender THEN [Writer EXCEPT !.count = Writer.count + 1] ELSE Writer
           IN  Ordered(sock', net', got, counted)
    PROVE  OrderInv'
  <1> DEFINE counted == IF n = Sender THEN [Writer EXCEPT !.count = Writer.count + 1] ELSE Writer
  <1>0. Ordered(sock', net', got, counted)
    OBVIOUS
  <1> HIDE DEF counted
  <1>1. sock'[Sender].sequence_number = counted.count
    BY <1>0, CountIs
  <1>2. Writer' = counted
    BY <1>1, WriterTyped DEF Writer, counted
  <1>3. WriteInRange'
    BY DEF OrderInv, WriteInRange, Data!NoWrite
  <1> QED
    BY <1>0, <1>2, <1>3 DEF OrderInv

LEMMA HandshakeOrdered ==
    ASSUME RoomBelowWrap, OrderInv, NEW n \in Node, Handshake(n)
    PROVE  OrderInv'
  <1> DEFINE s == sock[n]
             at == Writer
  <1>1. /\ Ordered(sock, net, got, at) /\ at \in Writers
        /\ Sane(n, s) /\ s \in PlainSocket /\ s.remote # n
    BY WriterTyped, OrderedFacts
  <1>2. w' = w /\ offered' = offered /\ got' = got
    BY DEF Handshake, dataVars
  <1>3. n = Sender => at.base = at.top
    BY WriterTyped DEF Handshake, Free
  <1> HIDE DEF at
  <1>4. ASSUME Ordered(sock', net', got, at) PROVE OrderInv'
    BY <1>2, <1>4, CountIs, OnlyOrdered DEF at
  <1>5. CASE Conn!Listen(n)
    <2>1. sock' = [sock EXCEPT ![n] = [sock[n] EXCEPT !.state = "LISTENING"]] /\ net' = net
      BY <1>5 DEF Conn!Listen
    <2> QED
      BY <1>1, <1>4, <2>1, StateOrdered DEF ConnectionState
  <1>6. CASE Conn!AcceptBegin(n)
    <2> DEFINE lines == Transmit(net, AckPacket(n, s))
    <2>1. /\ s.state = "SYN_RECVED" /\ s.sequence_number < MaxSyn
          /\ net' = Transmit(lines, SynPacket(n, s))
          /\ sock' = [sock EXCEPT ![n] = [AfterSyn(s) EXCEPT !.state = "PENDING"]]
      BY <1>6, ConnWords DEF Conn!AcceptBegin
    <2>2. Ordered(sock, lines, got, at) /\ s.remote_sequence # Undef
      BY <1>1, <2>1, AckOrdered DEF Sane
    <2> HIDE DEF lines
    <2> QED
      BY <1>1, <1>2, <1>3, <2>1, <2>2, SynOrdered, CountedOrdered DEF ConnectionState, at
  <1>7. CASE Conn!AcceptReturn(n)
    <2>1. \/ sock' = sock /\ net' = net
          \/ /\ sock' = [sock EXCEPT ![n] = Disconnected(s)]
             /\ net' = LinesAfterDisconnect(net, n, s)
      BY <1>7, ConnWords DEF Conn!AcceptReturn
    <2> QED
      BY <1>1, <1>4, <2>1, HangUpOrdered
  <1>8. CASE Conn!AcceptTimeout(n)
    <2>1. /\ sock' = [sock EXCEPT ![n] = Disconnected(s)]
          /\ net' = LinesAfterDisconnect(net, n, s)
      BY <1>8, ConnWords DEF Conn!AcceptTimeout
    <2> QED
      BY <1>1, <1>4, <2>1, HangUpOrdered
  <1>9. ASSUME NEW server \in Servers, n \notin Servers, Conn!ConnectBegin(n, server)
        PROVE  OrderInv'
    <2> DEFINE x == [s EXCEPT !.remote = server, !.remote_port = PortOf[server]]
    <2>1. /\ x.sequence_number < MaxSyn
          /\ net' = Transmit(net, SynPacket(n, x))
          /\ sock' = [sock EXCEPT ![n] = [AfterSyn(x) EXCEPT !.state = "SYN_SENT"]]
      BY <1>9, ConnWords DEF Conn!ConnectBegin
    <2>2. server \in Node /\ server # n /\ PortOf[server] \in Nat
      BY <1>9, SocketAssumption
    <2>3. /\ x \in PlainSocket /\ x.remote # n
          /\ x.sequence_number = s.sequence_number /\ x.remote_sequence = s.remote_sequence
          /\ x.last_recved_ack = s.last_recved_ack /\ x.ringbuf = s.ringbuf
      BY <1>1, <2>2 DEF PlainSocket, Address
    <2> HIDE DEF x
    <2> QED
      BY <1>1, <1>2, <1>3, <2>1, <2>3, SynOrdered, CountedOrdered DEF ConnectionState, at
  <1>10. CASE Conn!ConnectReturn(n)
    <2>1. CASE s.state = "SYN_RECVED"
      <3>1. /\ net' = Transmit(net, AckPacket(n, s))
            /\ sock' = [sock EXCEPT ![n] = [sock[n] EXCEPT !.state = "OPEN"]]
        BY <1>10, <2>1, ConnWords DEF Conn!ConnectReturn
      <3>2. Ordered(sock, net', got, at) /\ s.remote_sequence # Undef
        BY <1>1, <2>1, <3>1, AckOrdered DEF Sane
      <3> QED
        BY <1>4, <3>1, <3>2, StateOrdered DEF ConnectionState
    <2>2. CASE s.state # "SYN_RECVED"
      <3>1. /\ sock' = [sock EXCEPT ![n] = Disconnected(s)]
            /\ net' = LinesAfterDisconnect(net, n, s)
        BY <1>10, <2>2, ConnWords DEF Conn!ConnectReturn
      <3> QED
        BY <1>1, <1>4, <3>1, HangUpOrdered
    <2> QED
      BY <2>1, <2>2
  <1>11. CASE Conn!ConnectTimeout(n)
    <2>1. sock' = [sock EXCEPT ![n] = [sock[n] EXCEPT !.state = "CLOSED"]] /\ net' = net
      BY <1>11 DEF Conn!ConnectTimeout
    <2> QED
      BY <1>1, <1>4, <2>1, StateOrdered DEF ConnectionState
  <1> QED
    BY <1>5, <1>6, <1>7, <1>8, <1>9, <1>10, <1>11 DEF Handshake

LEMMA DisconnectOrdered ==
    ASSUME OrderInv, NEW n \in Node, Disconnect(n)
    PROVE  OrderInv'
  <1>1. /\ sock' = [sock EXCEPT ![n] = Disconnected(sock[n])]
        /\ net' = LinesAfterDisconnect(net, n, sock[n])
        /\ w' = w /\ offered' = offered /\ got' = got
    BY ConnWords DEF Disconnect, Conn!Disconnect, dataVars
  <1>2. Ordered(sock', net', got, Writer)
    BY <1>1, WriterTyped, HangUpOrdered
  <1> QED
    BY <1>1, <1>2, CountIs, OnlyOrdered

LEMMA DeliverKeepsOrder ==
    ASSUME OrderInv, NEW m \in Node, NEW n \in Node, Deliver(m, n)
    PROVE  OrderInv'
  <1> DEFINE r == <<m, n>>
             p == Head(net[r])
  <1>1. /\ net[r] # <<>>
        /\ sock' = [sock EXCEPT ![n] = Received(n, sock[n], p)]
        /\ net' = LinesAfter(net, r, n, sock[n], p)
        /\ w' = w /\ offered' = offered /\ got' = got
    BY ConnHandlers DEF Deliver, Conn!Deliver, dataVars
  <1>2. Ordered(sock', net', got, Writer)
    BY <1>1, WriterTyped, DeliverOrdered
  <1> QED
    BY <1>1, <1>2, CountIs, OnlyOrdered

LEMMA LoseOrdered ==
    ASSUME OrderInv, NEW m \in Node, NEW n \in Node, Lose(m, n)
    PROVE  OrderInv'
  <1>1. /\ net[<<m, n>>] # <<>> /\ net' = Consume(net, <<m, n>>)
        /\ sock' = sock /\ w' = w /\ offered' = offered /\ got' = got
    BY DataWords DEF Lose, Data!Lose
  <1>2. Ordered(sock', net', got, Writer)
    BY <1>1, WriterTyped, ConsumeOrdered
  <1> QED
    BY <1>1, <1>2, CountIs, OnlyOrdered

(* The write call moves on, and the counter of its socket with it: t is the
   socket afterwards.                                                       *)
LEMMA WriteGoesOn ==
    ASSUME OrderInv, WriteInRange', got' = got, net' = net,
           NEW c \in SeqNum,
           sock' = [sock EXCEPT ![Sender] = [sock[Sender] EXCEPT !.sequence_number = c]],
           w'.pos \in Nat, w'.len \in Nat, w'.pos <= w'.len, offered' \in Nat,
           LET new == [base |-> offered', place |-> offered' + w'.pos,
                       top |-> offered' + w'.len, count |-> c]
           IN  GoesOn(Writer, new) /\ c <= 1 + MaxSyn + new.place
    PROVE  OrderInv'
  <1> DEFINE new == [base |-> offered', place |-> offered' + w'.pos,
                     top |-> offered' + w'.len, count |-> c]
             t == [sock[Sender] EXCEPT !.sequence_number = c]
  <1>1. /\ Ordered(sock, net, got, Writer) /\ Writer \in Writers /\ got \in Seq(Nat)
        /\ Sane(Sender, sock[Sender])
    BY WriterTyped, OrderedFacts, Boards
  <1>2. c \in Nat
    BY Sizes
  <1>3. new \in Writers
    BY <1>2 DEF Writers
  <1>4. GoesOn(Writer, new) /\ c <= 1 + MaxSyn + new.place
    OBVIOUS
  <1>5. /\ t \in PlainSocket /\ t.remote = sock[Sender].remote /\ t.state = sock[Sender].state
        /\ t.remote_sequence = sock[Sender].remote_sequence /\ t.sequence_number = c
        /\ t.last_recved_ack = sock[Sender].last_recved_ack
    BY <1>1 DEF PlainSocket, Sane
  <1>6. Sane(Sender, t)
    BY <1>1, <1>5 DEF Sane
  <1>7. SenderOrdered(t, new)
    BY <1>1, <1>4, <1>5 DEF Ordered, SenderOrdered
  <1>8. sock' = [sock EXCEPT ![Sender] = t] /\ sock'[Sender].sequence_number = c
    BY <1>1, <1>5, Boards DEF Ordered
  <1>9. Writer' = new
    BY <1>8 DEF Writer
  <1> HIDE DEF new, t
  <1>10. Ordered([sock EXCEPT ![Sender] = t], net, got, new)
    BY <1>1, <1>3, <1>4, <1>6, <1>7, WriterOrdered
  <1> QED
    BY <1>1, <1>8, <1>9, <1>10 DEF OrderInv

(* The counter is a byte, and keeping it is setting it. *)
LEMMA CounterFacts ==
    ASSUME OrderInv
    PROVE  LET count == sock[Sender].sequence_number
           IN  /\ count \in SeqNum /\ count \in Nat
               /\ count <= 1 + MaxSyn + offered + w.pos
               /\ sock = [sock EXCEPT ![Sender] = [sock[Sender] EXCEPT !.sequence_number = count]]
               /\ sock[Sender].last_recved_ack \in Nat
               /\ sock[Sender].last_recved_ack < SeqMod - 1
  <1>1. Ordered(sock, net, got, Writer) /\ sock[Sender] \in PlainSocket
    BY OrderedFacts, Boards DEF OrderInv
  <1>2. SenderOrdered(sock[Sender], Writer)
    BY <1>1 DEF Ordered
  <1>3. sock = [sock EXCEPT ![Sender] = [sock[Sender] EXCEPT
                                !.sequence_number = sock[Sender].sequence_number]]
    <2>1. [sock[Sender] EXCEPT !.sequence_number = sock[Sender].sequence_number] = sock[Sender]
      BY <1>1 DEF PlainSocket
    <2> QED
      BY <2>1, <1>1 DEF Ordered
  <1>4. sock[Sender].sequence_number \in SeqNum /\ sock[Sender].sequence_number \in Nat
    BY <1>1, Sizes DEF PlainSocket
  <1>5. sock[Sender].sequence_number <= 1 + MaxSyn + (offered + w.pos)
    BY <1>2, WriterTyped DEF SenderOrdered
  <1>6. 1 + MaxSyn + (offered + w.pos) = 1 + MaxSyn + offered + w.pos
    <2>1. offered \in Nat /\ w.pos \in Nat /\ MaxSyn \in Nat
      BY WriterTyped, Bounds
    <2> QED
      BY <2>1
  <1> QED
    BY <1>2, <1>3, <1>4, <1>5, <1>6 DEF SenderOrdered

LEMMA WriteBeginOrdered ==
    ASSUME OrderInv, WriteBegin
    PROVE  OrderInv'
  <1>1. PICK len \in Lens : Data!WriteBegin(len)
    BY DEF WriteBegin
  <1>2. /\ w' = Data!Burst(len, 0, 0) /\ offered' = offered /\ got' = got
        /\ sock' = sock /\ net' = net /\ offered + len <= MaxFrames /\ ~w.active
    BY <1>1 DEF Data!WriteBegin
  <1>3. len \in Nat /\ 0 < len
    BY StreamAssumption
  <1>4. offered \in Nat /\ w.len = 0 /\ w.pos = 0
    BY <1>2 DEF OrderInv, WriteInRange, Data!NoWrite
  <1>5. WriteInRange' /\ w'.len = len /\ w'.pos = 0
    BY <1>2, <1>3, <1>4, BurstInRange
  <1> DEFINE count == sock[Sender].sequence_number
             new == [base |-> offered', place |-> offered' + w'.pos,
                     top |-> offered' + w'.len, count |-> count]
  <1>6. /\ count \in SeqNum /\ count \in Nat /\ count <= 1 + MaxSyn + offered + w.pos
        /\ sock = [sock EXCEPT ![Sender] = [sock[Sender] EXCEPT !.sequence_number = count]]
    BY CounterFacts
  <1>7. count <= 1 + MaxSyn + new.place
    BY <1>2, <1>4, <1>5, <1>6, Bounds
  <1>8. new \in Writers /\ new.base = Writer.base /\ new.place = Writer.place
        /\ new.count = Writer.count /\ Writer.top <= new.top
    BY <1>2, <1>3, <1>4, <1>5, <1>6 DEF Writers, Writer
  <1>9. GoesOn(Writer, new)
    <2>1. Writer \in Writers /\ Writer.place + new.count <= new.place + Writer.count
      BY <1>8, WriterTyped DEF Writers
    <2> HIDE DEF new
    <2> QED
      BY <1>8, <2>1, WithinMessage
  <1> HIDE DEF count
  <1> QED
    BY <1>2, <1>3, <1>4, <1>5, <1>6, <1>7, <1>9, WriteGoesOn

(* The frames of a burst stay below the wrap. *)
LEMMA SlotBelowWrap ==
    ASSUME RoomBelowWrap, OrderInv, NEW i \in 0 .. w.n - 1
    PROVE  /\ Data!SlotSeq(i) = sock[Sender].sequence_number + i + 1
           /\ Data!SlotSeq(i) < SeqMod - 1 /\ Data!SlotSeq(i) \in SeqNum
           /\ offered + w.pos + i + 1 <= offered + w.len
           /\ i \in Nat
  <1> DEFINE count == sock[Sender].sequence_number
  <1>1. count \in Nat /\ count <= 1 + MaxSyn + offered + w.pos
    BY CounterFacts
  <1>2. /\ offered \in Nat /\ w.pos \in Nat /\ w.len \in Nat /\ w.n \in Nat
        /\ w.pos + w.n <= w.len /\ offered + w.len <= MaxFrames
    BY WriterTyped DEF OrderInv, WriteInRange
  <1>3. /\ MaxSyn \in Nat /\ MaxFrames \in Nat /\ SeqMod \in Nat
        /\ MaxSyn + MaxFrames + 2 < SeqMod
    BY Bounds DEF RoomBelowWrap
  <1>4. \A c, m, o, p, l, n, f, s \in Nat : \A k \in 0 .. n - 1 :
           c <= 1 + m + o + p /\ p + n <= l /\ o + l <= f /\ m + f + 2 < s
           => c + k + 1 < s - 1 /\ c + k + 1 \in 0 .. s - 1 /\ o + p + k + 1 <= o + l
    OBVIOUS
  <1>5. /\ count + i + 1 < SeqMod - 1 /\ count + i + 1 \in 0 .. SeqMod - 1
        /\ offered + w.pos + i + 1 <= offered + w.len
    BY <1>1, <1>2, <1>3, <1>4
  <1>6. (count + i + 1) % SeqMod = count + i + 1
    BY <1>3, <1>5
  <1>7. i \in Nat
    BY <1>2
  <1> QED
    BY <1>5, <1>6, <1>7 DEF Data!SlotSeq, SeqNum

LEMMA SendFrameOrdered ==
    ASSUME RoomBelowWrap, OrderInv, SendFrame
    PROVE  OrderInv'
  <1> DEFINE s == sock[Sender]
             p == Data!DataPacket(w.sent)
             arg == offered + w.pos + w.sent + 1
  <1>1. /\ w.sent < w.n /\ net' = Transmit(net, p)
        /\ w' = [w EXCEPT !.sent = @ + 1]
        /\ sock' = sock /\ offered' = offered /\ got' = got /\ w.active
    BY DataWords DEF SendFrame, Data!SendFrame
  <1>2. /\ w.sent \in 0 .. w.n - 1 /\ w.sent + 1 \in 0 .. BurstSz /\ w.sent \in Nat
        /\ w.sent + 1 <= w.n
    BY <1>1, Sizes, SMTT(30) DEF OrderInv, WriteInRange
  <1>3. WriteInRange' /\ w'.pos = w.pos /\ w'.len = w.len
    BY <1>1, <1>2 DEF OrderInv, WriteInRange
  <1>4. p = ToRemote(Sender, s, "DATA", Data!SlotSeq(w.sent), arg)
    BY DataWords DEF Data!DataPacket
  <1>5. /\ Data!SlotSeq(w.sent) = s.sequence_number + w.sent + 1
        /\ Data!SlotSeq(w.sent) < SeqMod - 1 /\ Data!SlotSeq(w.sent) \in SeqNum
        /\ arg <= offered + w.len
    BY <1>2, SlotBelowWrap
  <1>6. s \in PlainSocket /\ s.remote # Sender
    BY WriterTyped, OrderedFacts, Boards
  <1>7. /\ offered \in Nat /\ w.pos \in Nat /\ s.sequence_number \in Nat
        /\ Writer \in Writers /\ Writer.place = offered + w.pos
        /\ Writer.top = offered + w.len /\ Writer.count = s.sequence_number
    BY WriterTyped
  <1>8. arg \in Nat /\ offered + w.pos < arg
        /\ arg + s.sequence_number = s.sequence_number + w.sent + 1 + (offered + w.pos)
    BY <1>2, <1>7
  <1> HIDE DEF arg
  <1>9. /\ p \in PlainPacket /\ p.src = Sender /\ p.dst # Sender /\ p.type = "DATA"
        /\ p.arg = arg /\ p.seq = Data!SlotSeq(w.sent)
    BY <1>4, <1>5, <1>6, <1>8, Boards DEF ToRemote, PlainPacket, PlainSocket, MessageType
  <1> HIDE DEF p
  <1>10. SentFrom(Writer, p)
    BY <1>5, <1>7, <1>8, <1>9 DEF SentFrom
  <1>11. MaySendNow(Sender, Writer, p)
    BY <1>9, <1>10, Boards DEF MaySendNow
  <1>12. Ordered(sock, net', got, Writer) /\ got \in Seq(Nat)
    BY <1>1, <1>7, <1>11, WriterTyped, SendOrdered, Boards
  <1>13. Writer' = Writer
    BY <1>1, <1>3 DEF Writer
  <1> QED
    BY <1>1, <1>3, <1>12, <1>13 DEF OrderInv

(* The message is over, whatever write returns. *)
LEMMA MessageOver ==
    ASSUME OrderInv, w' = Data!NoWrite, offered' = offered + w.len, got' = got, net' = net,
           NEW c \in SeqNum,
           sock' = [sock EXCEPT ![Sender] = [sock[Sender] EXCEPT !.sequence_number = c]],
           c <= 1 + MaxSyn + (offered + w.len)
    PROVE  OrderInv'
  <1> DEFINE new == [base |-> offered', place |-> offered' + w'.pos,
                     top |-> offered' + w'.len, count |-> c]
  <1>1. /\ offered \in Nat /\ w.len \in Nat /\ offered + w.len <= MaxFrames
        /\ Writer \in Writers /\ Writer.top = offered + w.len
    BY WriterTyped DEF OrderInv, WriteInRange
  <1>2. /\ w'.pos = 0 /\ w'.len = 0 /\ offered' \in Nat
        /\ offered' + 0 = offered + w.len
    BY <1>1 DEF Data!NoWrite
  <1>3. WriteInRange'
    BY <1>1, <1>2, Sizes DEF WriteInRange, Data!NoWrite
  <1>4. new \in Writers /\ new.base = Writer.top /\ new.top = Writer.top
        /\ new.place = offered + w.len
    BY <1>1, <1>2, Sizes DEF Writers
  <1> HIDE DEF new
  <1>5. GoesOn(Writer, new) /\ c <= 1 + MaxSyn + new.place
    BY <1>1, <1>4, AfterMessage
  <1>6. w'.pos \in Nat /\ w'.len \in Nat /\ w'.pos <= w'.len
    BY <1>2
  <1> QED
    BY <1>2, <1>3, <1>5, <1>6, WriteGoesOn DEF new

(* The next burst of the same message: at the place pos, after the counter has
   gained no more than the place.                                           *)
LEMMA NextBurst ==
    ASSUME OrderInv, offered' = offered, got' = got, net' = net,
           NEW pos \in Nat, pos < w.len, NEW noack \in Nat,
           w' = Data!Burst(w.len, pos, noack),
           NEW c \in SeqNum,
           sock' = [sock EXCEPT ![Sender] = [sock[Sender] EXCEPT !.sequence_number = c]],
           w.pos + c <= pos + sock[Sender].sequence_number,
           c <= 1 + MaxSyn + (offered + pos)
    PROVE  OrderInv'
  <1> DEFINE new == [base |-> offered', place |-> offered' + w'.pos,
                     top |-> offered' + w'.len, count |-> c]
  <1>1. /\ offered \in Nat /\ w.len \in Nat /\ w.pos \in Nat /\ offered + w.len <= MaxFrames
        /\ Writer \in Writers /\ Writer.top = offered + w.len /\ Writer.base = offered
        /\ Writer.place = offered + w.pos /\ Writer.count = sock[Sender].sequence_number
        /\ sock[Sender].sequence_number \in Nat /\ c \in Nat
    BY WriterTyped, Sizes DEF OrderInv, WriteInRange
  <1>2. WriteInRange' /\ w'.len = w.len /\ w'.pos = pos
    BY <1>1, BurstInRange
  <1>3. /\ new \in Writers /\ new.base = Writer.base /\ new.top = Writer.top
        /\ new.place = offered + pos /\ new.count = c
    BY <1>1, <1>2 DEF Writers
  <1>4. Writer.place + c <= offered + pos + Writer.count
    BY <1>1
  <1> HIDE DEF new
  <1>5. GoesOn(Writer, new)
    <2>1. Writer.top <= new.top
      BY <1>1, <1>3
    <2> QED
      BY <1>1, <1>3, <1>4, <2>1, WithinMessage
  <1>6. c <= 1 + MaxSyn + new.place
    BY <1>3
  <1>7. w'.pos \in Nat /\ w'.len \in Nat /\ w'.pos <= w'.len /\ offered' \in Nat
    BY <1>1, <1>2
  <1> QED
    BY <1>2, <1>5, <1>6, <1>7, WriteGoesOn DEF new

(* No empty slot matches: that would take an ACK of the last number.        *)
LEMMA ProgressIs ==
    ASSUME RoomBelowWrap, OrderInv, Data!Progress
    PROVE  LET ack == sock[Sender].last_recved_ack
               k == Data!FrameSlot(ack)
               c == sock[Sender].sequence_number + k
           IN  /\ k \in 0 .. w.n - 1 /\ c \in SeqNum
               /\ Data!NextPos(ack) = w.pos + k + 1
               /\ sock' = [sock EXCEPT ![Sender] = [sock[Sender] EXCEPT !.sequence_number = c]]
  <1> DEFINE ack == sock[Sender].last_recved_ack
             k == Data!FrameSlot(ack)
             count == sock[Sender].sequence_number
  <1>1. /\ ack \in Nat /\ ack < SeqMod - 1 /\ count \in Nat /\ w.n \in Nat
        /\ SeqMod \in Nat
    BY CounterFacts, WriterTyped, Sizes
  <1>2. ~Data!EmptyFound(ack)
    BY <1>1 DEF Data!EmptyFound
  <1>3. Data!FrameFound(ack)
    BY <1>2 DEF Data!Progress
  <1>4. k \in 0 .. w.n - 1
    BY <1>3 DEF Data!FrameFound, Data!FrameSlot
  <1>5. k \in Nat /\ count + k + 1 < SeqMod - 1
    BY <1>4, SlotBelowWrap
  <1>6. count + k \in SeqNum /\ (count + k) % SeqMod = count + k
    <2>1. count + k \in 0 .. SeqMod - 1
      BY <1>1, <1>5
    <2> QED
      BY <1>1, <2>1 DEF SeqNum
  <1>7. Data!SlotAdvance(ack) = k
    <2>1. Data!SlotAdvance(ack) = k + 0
      BY <1>2, <1>3 DEF Data!SlotAdvance
    <2>2. k + 0 = k
      BY <1>5
    <2> QED
      BY <2>1, <2>2
  <1>8. Data!NextPos(ack) = w.pos + k + 1
    BY <1>2 DEF Data!NextPos
  <1>9. sock' = [sock EXCEPT ![Sender].sequence_number = (count + Data!SlotAdvance(ack)) % SeqMod]
    BY DEF Data!Progress
  <1>10. sock' = [sock EXCEPT ![Sender].sequence_number = count + k]
    BY <1>6, <1>7, <1>9
  <1> QED
    BY <1>4, <1>6, <1>8, <1>10

LEMMA DecideOrdered ==
    ASSUME RoomBelowWrap, OrderInv, Decide
    PROVE  OrderInv'
  <1> DEFINE count == sock[Sender].sequence_number
  <1>1. /\ count \in SeqNum /\ count \in Nat /\ count <= 1 + MaxSyn + offered + w.pos
        /\ sock = [sock EXCEPT ![Sender] = [sock[Sender] EXCEPT !.sequence_number = count]]
    BY CounterFacts
  <1>2. /\ offered \in Nat /\ w.pos \in Nat /\ w.len \in Nat /\ w.n \in Nat
        /\ w.pos + w.n <= w.len /\ MaxSyn \in Nat
    BY WriterTyped, Bounds
  <1>3. count <= 1 + MaxSyn + (offered + w.pos) /\ count <= 1 + MaxSyn + (offered + w.len)
    BY <1>1, <1>2
  <1>4. ASSUME Data!BurstOver
        PROVE  w.n > 0 /\ w.noack \in Nat /\ w.pos < w.len
    <2>1. w.n > 0 /\ w.noack \in Nat
      BY <1>4 DEF Data!BurstOver, OrderInv, WriteInRange
    <2> QED
      BY <1>2, <2>1
  <1>5. ASSUME NEW ret, Data!Return(ret), sock' = sock PROVE OrderInv'
    <2>1. w' = Data!NoWrite /\ offered' = offered + w.len /\ got' = got /\ net' = net
      BY <1>5 DEF Data!Return
    <2> HIDE DEF count
    <2>2. sock' = [sock EXCEPT ![Sender] = [sock[Sender] EXCEPT !.sequence_number = count]]
      BY <1>1, <1>5
    <2> QED
      BY <1>1, <1>3, <2>1, <2>2, MessageOver
  <1>6. CASE Data!Resend
    <2>1. /\ Data!BurstOver /\ w' = Data!Burst(w.len, w.pos, w.noack + 1)
          /\ sock' = sock /\ net' = net /\ offered' = offered /\ got' = got
      BY <1>6 DEF Data!Resend
    <2>2. w.noack + 1 \in Nat /\ w.pos < w.len
      BY <1>4, <2>1
    <2>3. w.pos + count <= w.pos + count
      BY <1>1, <1>2
    <2>4. sock' = [sock EXCEPT ![Sender] = [sock[Sender] EXCEPT !.sequence_number = count]]
      BY <1>1, <2>1
    <2>5. w.pos + count <= w.pos + sock[Sender].sequence_number
      BY <2>3
    <2> HIDE DEF count
    <2> QED
      BY <1>1, <1>2, <1>3, <2>1, <2>2, <2>4, <2>5, NextBurst
  <1>7. CASE Data!GiveUp
    BY <1>5, <1>7 DEF Data!GiveUp
  <1>8. CASE Data!OutOfSequence
    BY <1>5, <1>8 DEF Data!OutOfSequence
  <1>9. CASE Data!Progress
    <2> DEFINE ack == sock[Sender].last_recved_ack
               k == Data!FrameSlot(ack)
               c == count + k
               next == Data!NextPos(ack)
    <2>1. /\ k \in 0 .. w.n - 1 /\ c \in SeqNum /\ next = w.pos + k + 1
          /\ sock' = [sock EXCEPT ![Sender] = [sock[Sender] EXCEPT !.sequence_number = c]]
      BY <1>9, ProgressIs
    <2>2. \/ next = w.len /\ Data!Return("OK")
          \/ /\ next # w.len /\ w' = Data!Burst(w.len, next, w.noack)
             /\ net' = net /\ offered' = offered /\ got' = got
      BY <1>9 DEF Data!Progress
    <2>3. w.noack \in Nat /\ w.n > 0
      BY <1>4, <1>9 DEF Data!Progress
    <2> HIDE DEF k, next
    <2>4. /\ k \in Nat /\ next \in Nat /\ next <= w.len /\ c \in Nat
          /\ w.pos + c <= next + count
          /\ c <= 1 + MaxSyn + (offered + next) /\ c <= 1 + MaxSyn + (offered + w.len)
      BY <1>1, <1>2, <2>1
    <2> HIDE DEF c
    <2>5. CASE next = w.len /\ Data!Return("OK")
      <3>1. w' = Data!NoWrite /\ offered' = offered + w.len /\ got' = got /\ net' = net
        BY <2>5 DEF Data!Return
      <3> QED
        BY <2>1, <2>4, <3>1, MessageOver
    <2>6. CASE /\ next # w.len /\ w' = Data!Burst(w.len, next, w.noack)
               /\ net' = net /\ offered' = offered /\ got' = got
      <3>1. next < w.len
        BY <1>2, <2>4, <2>6
      <3> QED
        BY <2>1, <2>3, <2>4, <2>6, <3>1, NextBurst
    <2> QED
      BY <2>2, <2>5, <2>6
  <1> QED
    BY <1>6, <1>7, <1>8, <1>9 DEF Decide

LEMMA ReadBeginOrdered ==
    ASSUME OrderInv, ReadBegin
    PROVE  OrderInv'
  <1>1. /\ sock' = sock /\ net' = net /\ w' = w /\ offered' = offered /\ got' = got
    BY DEF ReadBegin, Data!ReadBegin
  <1> QED
    BY <1>1, WriterTyped, CountIs, OnlyOrdered

(* A frame goes from the ring to what was read. *)
LEMMA FrameRead ==
    ASSUME NEW read \in Seq(Nat), NEW ring \in Seq(Nat), ring # <<>>, Trans!InOrder(read, ring)
    PROVE  LET more == Append(read, Head(ring))
           IN  /\ more \in Seq(Nat) /\ Tail(ring) \in Seq(Nat)
               /\ Trans!InOrder(more, Tail(ring))
               /\ Trans!InRange(more) \cup Trans!InRange(Tail(ring))
                      \subseteq Trans!InRange(read) \cup Trans!InRange(ring)
  <1> DEFINE x == Head(ring)
  <1>1. /\ Trans!Sorted(read) /\ Trans!Sorted(ring)
        /\ \A a \in Trans!InRange(read), b \in Trans!InRange(ring) : a < b
    BY DEF Trans!InOrder
  <1>2. /\ Trans!Sorted(Tail(ring)) /\ Tail(ring) \in Seq(Nat)
        /\ Trans!InRange(Tail(ring)) \subseteq Trans!InRange(ring)
        /\ x \in Trans!InRange(ring)
        /\ \A y \in Trans!InRange(Tail(ring)) : x < y
    BY <1>1, TransAssumed, Trans!SortedTail
  <1>3. x \in Nat
    OBVIOUS
  <1>4. \A a \in Trans!InRange(read) : a < x
    BY <1>1, <1>2
  <1> HIDE DEF x
  <1>5. /\ Trans!Sorted(Append(read, x)) /\ Append(read, x) \in Seq(Nat)
        /\ Trans!InRange(Append(read, x)) = Trans!InRange(read) \cup {x}
    BY <1>1, <1>3, <1>4, TransAssumed, Trans!SortedAppend
  <1>6. Trans!InOrder(Append(read, x), Tail(ring))
    BY <1>1, <1>2, <1>5 DEF Trans!InOrder
  <1> QED
    BY <1>2, <1>5, <1>6 DEF x

LEMMA ReadFrameOrdered ==
    ASSUME OrderInv, Data!ReadFrame
    PROVE  OrderInv'
  <1> DEFINE s == sock[Receiver]
             more == Append(got, Head(s.ringbuf))
             t == [s EXCEPT !.ringbuf = Tail(@)]
             f == net[Forward]
  <1>1. /\ s.ringbuf # <<>> /\ got' = more /\ net' = net /\ w' = w /\ offered' = offered
        /\ sock' = [sock EXCEPT ![Receiver] = t]
    BY DEF Data!ReadFrame
  <1>2. /\ Ordered(sock, net, got, Writer) /\ got \in Seq(Nat)
        /\ s \in PlainSocket /\ Sane(Receiver, s) /\ s.ringbuf \in Seq(Nat)
    BY WriterTyped, OrderedFacts, Boards
  <1>3. /\ ReceiverOrdered(s, got, f, Writer)
    BY <1>2 DEF Ordered
  <1>4. /\ more \in Seq(Nat) /\ Tail(s.ringbuf) \in Seq(Nat)
        /\ Trans!InOrder(more, Tail(s.ringbuf))
        /\ Trans!InRange(more) \cup Trans!InRange(Tail(s.ringbuf))
               \subseteq Trans!InRange(got) \cup Trans!InRange(s.ringbuf)
    BY <1>1, <1>2, <1>3, FrameRead DEF ReceiverOrdered
  <1>5. /\ t \in PlainSocket /\ t.remote = s.remote /\ t.state = s.state
        /\ t.remote_sequence = s.remote_sequence /\ t.ringbuf = Tail(s.ringbuf)
    BY <1>2, <1>4 DEF PlainSocket
  <1>6. Sane(Receiver, t)
    BY <1>2, <1>5 DEF Sane
  <1> HIDE DEF more, t
  <1>7. TakenOrdered(Trans!InRange(more) \cup Trans!InRange(t.ringbuf), t.remote_sequence,
                     f, Writer)
    BY <1>3, <1>4, <1>5 DEF ReceiverOrdered, TakenOrdered
  <1>8. ReceiverOrdered(t, more, f, Writer)
    BY <1>3, <1>4, <1>5, <1>7 DEF ReceiverOrdered
  <1>9. /\ sock' \in [Node -> PlainSocket] /\ sock'[Receiver] = t
        /\ sock'[Sender] = sock[Sender] /\ \A n \in Node : Sane(n, sock'[n])
    BY <1>1, <1>2, <1>5, <1>6, Boards DEF Ordered
  <1>10. Ordered(sock', net', more, Writer)
    BY <1>1, <1>2, <1>8, <1>9 DEF Ordered
  <1>11. Writer' = Writer
    BY <1>1, <1>9 DEF Writer
  <1>12. WriteInRange'
    BY <1>1 DEF OrderInv, WriteInRange, Data!NoWrite
  <1> QED
    BY <1>1, <1>4, <1>10, <1>11, <1>12 DEF OrderInv

LEMMA ReadNothingOrdered ==
    ASSUME OrderInv, Data!ReadNothing
    PROVE  OrderInv'
  <1> DEFINE s == sock[Receiver]
             at == Writer
  <1>1. /\ Ordered(sock, net, got, at) /\ at \in Writers
        /\ s \in PlainSocket /\ Sane(Receiver, s) /\ Receiver \in Node
    BY WriterTyped, OrderedFacts, Boards
  <1>2. w' = w /\ offered' = offered /\ got' = got
    BY DEF Data!ReadNothing
  <1> HIDE DEF at
  <1>3. Ordered(sock', net', got, at)
    <2>1. CASE s.zero_read_count < 2
      <3> DEFINE t == [s EXCEPT !.zero_read_count = s.zero_read_count + 1]
      <3>1. sock' = [sock EXCEPT ![Receiver] = t] /\ net' = net
        BY <2>1 DEF Data!ReadNothing
      <3>2. /\ t \in PlainSocket /\ t.remote = s.remote /\ t.state = s.state
            /\ t.remote_sequence = s.remote_sequence /\ t.ringbuf = s.ringbuf
        BY <1>1, SMTT(30) DEF PlainSocket
      <3>3. Sane(Receiver, t)
        BY <1>1, <3>2 DEF Sane
      <3> HIDE DEF t
      <3> QED
        BY <1>1, <3>1, <3>2, <3>3, SameOrdered, Boards
    <2>2. CASE ~(s.zero_read_count < 2)
      <3> DEFINE mid == [sock EXCEPT ![Receiver] = Disconnected(s)]
                 t == [Disconnected(s) EXCEPT !.zero_read_count = 0]
      <3>1. /\ sock' = [sock EXCEPT ![Receiver] = t]
            /\ net' = LinesAfterDisconnect(net, Receiver, s)
        BY <2>2, DataWords DEF Data!ReadNothing
      <3>2. Ordered(mid, net', got, at)
        BY <1>1, <3>1, HangUpOrdered
      <3>3. DOMAIN sock = Node /\ mid[Receiver] = Disconnected(s)
        BY <1>1 DEF Ordered
      <3>4. /\ t \in PlainSocket /\ t.remote = s.remote /\ t.state = "CLOSED"
            /\ t.remote_sequence = mid[Receiver].remote_sequence
            /\ t.ringbuf = mid[Receiver].ringbuf
        BY <1>1, <3>3 DEF Disconnected, PlainSocket, ConnectionState
      <3>5. Sane(Receiver, t)
        BY <1>1, <3>4 DEF Sane
      <3>6. sock' = [mid EXCEPT ![Receiver] = t]
        BY <3>1, <3>3
      <3> HIDE DEF mid, t
      <3> QED
        BY <1>1, <3>2, <3>4, <3>5, <3>6, SameOrdered, Boards
    <2> QED
      BY <2>1, <2>2
  <1> QED
    BY <1>2, <1>3, CountIs, OnlyOrdered DEF at

(* A board that was reset begins anew: all that was sent is of earlier
   messages, and what a new receiver hears first is a SYN.                  *)
LEMMA ResetOrdered ==
    ASSUME RoomBelowWrap, OrderInv, NEW n \in Node, Reset(n)
    PROVE  OrderInv'
  <1> DEFINE f == net[Forward]
  <1>1. /\ Ordered(sock, net, got, Writer) /\ Writer \in Writers /\ got \in Seq(Nat)
        /\ Writer.top = offered + w.len
        /\ offered \in Nat /\ w.len \in Nat /\ offered + w.len <= MaxFrames
    BY WriterTyped DEF OrderInv, WriteInRange
  <1>2. /\ sock' = [sock EXCEPT ![n] = NewSocket] /\ net' = net /\ got' = got
    BY ConnWords DEF Reset, Conn!Recreate
  <1>3. Sane(n, NewSocket)
    BY Sizes DEF NewSocket, PlainSocket, ConnectionState, Address, SeqNum, Sane, RoomBelowWrap
  <1>4. CASE n = Sender
    <2> DEFINE new == [base |-> offered', place |-> offered' + w'.pos,
                       top |-> offered' + w'.len, count |-> 1]
    <2>1. w' = Data!NoWrite /\ offered' = offered + w.len
      BY <1>4 DEF Reset
    <2>2. w'.pos = 0 /\ w'.len = 0 /\ offered' \in Nat /\ offered' + 0 = offered'
      BY <1>1, <2>1 DEF Data!NoWrite
    <2>3. WriteInRange'
      BY <1>1, <2>1, <2>2, Sizes DEF WriteInRange, Data!NoWrite
    <2>4. /\ new \in Writers /\ new.base = Writer.top /\ new.top = Writer.top
          /\ new.count = 1 /\ new.place \in Nat
      BY <1>1, <2>1, <2>2 DEF Writers
    <2>5. Writer' = new
      <3>1. sock'[Sender].sequence_number = 1
        BY <1>1, <1>2, <1>4 DEF NewSocket, Ordered
      <3> QED
        BY <3>1 DEF Writer
    <2> HIDE DEF new
    <2>6. GoesOn(Writer, new)
      BY <1>1, <2>4, AfterMessage
    <2>7. SenderOrdered(NewSocket, new)
      BY <2>4, Bounds DEF SenderOrdered, NewSocket
    <2>8. Ordered(sock', net', got, new)
      BY <1>1, <1>2, <1>3, <1>4, <2>4, <2>6, <2>7, WriterOrdered
    <2> QED
      BY <1>1, <1>2, <2>3, <2>5, <2>8 DEF OrderInv
  <1>5. CASE n = Receiver
    <2> DEFINE s == sock[Receiver]
    <2>1. w' = w /\ offered' = offered
      BY <1>5, Boards DEF Reset
    <2>2. ReceiverOrdered(s, got, f, Writer)
      BY <1>1 DEF Ordered
    <2>3. NewSocket.remote_sequence = Undef /\ NewSocket.ringbuf = <<>>
      BY DEF NewSocket
    <2>4. Trans!InRange(<<>>) = {} /\ Trans!InOrder(got, <<>>)
      BY <2>2 DEF ReceiverOrdered, Trans!InRange, Trans!InOrder, Trans!Sorted
    <2>5. TakenOrdered(Trans!InRange(got), Undef, f, Writer)
      BY <2>2 DEF ReceiverOrdered, TakenOrdered
    <2>6. ReceiverOrdered(NewSocket, got, f, Writer)
      BY <2>3, <2>4, <2>5 DEF ReceiverOrdered
    <2> HIDE DEF s
    <2>7. Ordered(sock', net', got, Writer)
      BY <1>1, <1>2, <1>3, <1>5, <2>6, ChangeOrdered, Boards
    <2>8. sock'[Sender].sequence_number = Writer.count
      BY <2>7, CountIs
    <2> QED
      BY <1>2, <2>1, <2>7, <2>8, OnlyOrdered
  <1> QED
    BY <1>4, <1>5, Boards

-----------------------------------------------------------------------------
LEMMA StepOrdered == RoomBelowWrap /\ OrderInv /\ [Next]_vars => OrderInv'
  <1> SUFFICES ASSUME RoomBelowWrap, OrderInv, [Next]_vars PROVE OrderInv'
    OBVIOUS
  <1>1. ASSUME NEW n \in Node, Handshake(n) PROVE OrderInv'
    BY <1>1, HandshakeOrdered
  <1>2. ASSUME NEW n \in Quitters, Disconnect(n) PROVE OrderInv'
    BY <1>2, DisconnectOrdered, StreamAssumption
  <1>3. CASE WriteBegin
    BY <1>3, WriteBeginOrdered
  <1>4. CASE SendFrame
    BY <1>4, SendFrameOrdered
  <1>5. CASE Decide
    BY <1>5, DecideOrdered
  <1>6. CASE ReadBegin
    BY <1>6, ReadBeginOrdered
  <1>7. CASE ReadEnd
    BY <1>7, ReadFrameOrdered, ReadNothingOrdered DEF ReadEnd
  <1>8. ASSUME NEW m \in Node, NEW n \in Node, Deliver(m, n) PROVE OrderInv'
    BY <1>8, DeliverKeepsOrder
  <1>9. ASSUME NEW m \in Node, NEW n \in Node, Lose(m, n) PROVE OrderInv'
    BY <1>9, LoseOrdered
  <1>10. ASSUME NEW n \in Resettable, Reset(n) PROVE OrderInv'
    BY <1>10, ResetOrdered, StreamAssumption
  <1>11. CASE UNCHANGED vars
    BY <1>11 DEF OrderInv, Writer, WriteInRange, Data!NoWrite, vars, dataVars
  <1> QED
    BY <1>1, <1>2, <1>3, <1>4, <1>5, <1>6, <1>7, <1>8, <1>9, <1>10, <1>11 DEF Next

(* What the receiver has taken, all boards' lives long, is strictly increasing:
   no frame twice, none before an earlier one, for any number of resets,
   connections, losses, messages and bursts, and a ring of any size that
   forgets the oldest frame or the new one, below the wrap of the counters.
   This is read() and the sequence test of both on_data handlers, which
   forget nothing between two connections.                                  *)
THEOREM StreamOrdered ==
    ASSUME RoomBelowWrap
    PROVE  Spec => []StreamInOrder
  <1>1. Init => OrderInv
    BY OrderInit
  <1>2. OrderInv /\ [Next]_vars => OrderInv'
    BY StepOrdered
  <1>3. OrderInv => StreamInOrder
    <2> SUFFICES ASSUME OrderInv PROVE StreamInOrder
      OBVIOUS
    <2> DEFINE ring == sock[Receiver].ringbuf
    <2>1. Ordered(sock, net, got, Writer) /\ got \in Seq(Nat) /\ ring \in Seq(Nat)
      BY WriterTyped, OrderedFacts, Boards
    <2>2. /\ Trans!Sorted(got) /\ Trans!Sorted(ring)
          /\ \A x \in Trans!InRange(got), y \in Trans!InRange(ring) : x < y
      BY <2>1 DEF Ordered, ReceiverOrdered, Trans!InOrder
    <2> HIDE DEF ring
    <2>3. Trans!Sorted(got \o ring)
      BY <2>1, <2>2, TransAssumed, Trans!SortedConcat
    <2> QED
      BY <2>3 DEF StreamInOrder, Data!DeliveredInOrder, Data!Delivered, Trans!Sorted, ring
  <1> QED
    BY <1>1, <1>2, <1>3, PTL DEF Spec

-----------------------------------------------------------------------------
(* Refinement: the same pipe for all lives of the two sockets. *)

LEMMA HeadOf ==
    ASSUME NEW T, NEW q \in Seq(T), q # <<>>
    PROVE  Head(q) \in T /\ Head(q) = q[1] /\ 1 \in DOMAIN q
  OBVIOUS

(* What a step does to it: write() hands over frames, read() takes one, and
   every other step does neither; a return of write and a reset of the writer
   keep the message as offered.                                             *)
LEMMA PipeStep ==
    ASSUME TypeInv, OrderInv, [Next]_vars
    PROVE  [Pipe!PipeNext]_<<offered + w.len, got>>
  <1> DEFINE ring == sock[Receiver].ringbuf
  <1>1. /\ offered \in Nat /\ w.len \in Nat /\ offered + w.len \in Nat
        /\ w.active \/ w.len = 0
    BY DEF TypeInv, WriteInRange, Data!NoWrite
  <1>2. CASE offered' + w'.len = offered + w.len /\ got' = got
    BY <1>2
  <1>3. CASE offered' = offered /\ w'.len = w.len /\ got' = got
    BY <1>3
  <1>4. CASE w' = Data!NoWrite /\ offered' = offered + w.len /\ got' = got
    <2>1. w'.len = 0 /\ offered' + 0 = offered + w.len
      BY <1>1, <1>4 DEF Data!NoWrite
    <2> QED
      BY <1>2, <1>4, <2>1
  <1>5. CASE WriteBegin
    <2>1. PICK len \in Lens : Data!WriteBegin(len)
      BY <1>5 DEF WriteBegin
    <2>2. /\ ~w.active /\ w' = Data!Burst(len, 0, 0) /\ offered' = offered /\ got' = got
          /\ len \in Nat /\ len > 0
      BY <2>1, StreamAssumption DEF Data!WriteBegin
    <2>3. w'.len = len
      BY <2>2 DEF Data!Burst
    <2>4. offered' + w'.len \in Nat /\ offered' + w'.len > offered + w.len
      BY <1>1, <2>2, <2>3
    <2> QED
      BY <2>2, <2>4 DEF Pipe!PipeNext, Pipe!Write
  <1>6. CASE Data!ReadFrame
    <2>1. /\ ring # <<>> /\ got' = Append(got, Head(ring)) /\ w' = w /\ offered' = offered
      BY <1>6 DEF Data!ReadFrame
    <2>2. /\ ReceiverOrdered(sock[Receiver], got, net[Forward], Writer)
          /\ got \in Seq(Nat) /\ Writer.top = offered + w.len
      BY WriterTyped DEF Ordered
    <2>3. ring \in Seq(1 .. MaxFrames) /\ Head(ring) \in 1 .. MaxFrames /\ Head(ring) = ring[1]
          /\ 1 \in DOMAIN ring
      <3>1. ring \in Seq(1 .. MaxFrames)
        BY Boards DEF TypeInv, FramesOffered, Frame
      <3>2. ring # <<>>
        BY <2>1
      <3> HIDE DEF ring
      <3> QED
        BY <3>1, <3>2, HeadOf
    <2> HIDE DEF ring
    <2>4. Head(ring) \in Trans!InRange(ring)
      BY <2>3 DEF Trans!InRange
    <2>5. Head(ring) <= offered + w.len
      BY <2>2, <2>4 DEF ReceiverOrdered, TakenOrdered, ring
    <2>6. Head(ring) \in 1 .. offered + w.len
      BY <1>1, <2>3, <2>5, Caps
    <2>7. \A i \in DOMAIN got : got[i] < Head(ring)
      BY <2>2, <2>4 DEF ReceiverOrdered, Trans!InOrder, Trans!InRange, ring
    <2>8. Pipe!Read(Head(ring))
      BY <2>1, <2>7 DEF Pipe!Read
    <2> QED
      BY <2>6, <2>8 DEF Pipe!PipeNext
  <1>7. CASE Decide
    <2>1. CASE \E ret \in {"OK", "TIMEOUT", "ACK_OUT_OF_SEQUENCE"} : Data!Return(ret)
      BY <1>4, <2>1 DEF Data!Return
    <2>2. CASE /\ \E pos, noack : w' = Data!Burst(w.len, pos, noack)
               /\ UNCHANGED <<offered, got>>
      BY <1>3, <2>2 DEF Data!Burst
    <2> QED
      BY <1>7, <2>1, <2>2
         DEF Decide, Data!Resend, Data!GiveUp, Data!Progress, Data!OutOfSequence
  <1>8. CASE SendFrame
    <2>1. w'.len = w.len /\ UNCHANGED <<offered, got>>
      BY <1>8 DEF SendFrame, Data!SendFrame, TypeInv, WriteInRange
    <2> QED
      BY <1>3, <2>1
  <1>9. ASSUME NEW n \in Node, Reset(n)
        PROVE  [Pipe!PipeNext]_<<offered + w.len, got>>
    BY <1>3, <1>4, <1>9 DEF Reset
  <1>10. CASE \/ \E n \in Node : Handshake(n) \/ Disconnect(n)
              \/ ReadBegin \/ Data!ReadNothing
              \/ \E m, n \in Node : Deliver(m, n) \/ Lose(m, n)
              \/ UNCHANGED vars
    <2>1. UNCHANGED <<w, offered, got>>
      BY <1>10 DEF Handshake, Disconnect, ReadBegin, Data!ReadBegin, Data!ReadNothing,
                   Deliver, Lose, Data!Lose, vars, dataVars
    <2> QED
      BY <1>3, <2>1
  <1> QED
    BY <1>5, <1>6, <1>7, <1>8, <1>9, <1>10, StreamAssumption DEF Next, ReadEnd

(* Below the wrap a stream is one ordered pipe over all its connections, and
   over resets of either board at any moment: what read() hands out is part
   of what write() was given, in that order, and never twice.               *)
THEOREM StreamIsPipe ==
    ASSUME RoomBelowWrap
    PROVE  Spec => ImplementsPipe
  <1>1. Init => Pipe!PipeInit
    BY DEF Init, Pipe!PipeInit, Data!NoWrite
  <1>2. TypeInv /\ OrderInv /\ [Next]_vars => [Pipe!PipeNext]_<<offered + w.len, got>>
    BY PipeStep
  <1>3. Spec => []TypeInv
    BY TypeInit, TypeStep, PTL DEF Spec
  <1>4. Spec => []OrderInv
    BY OrderInit, StepOrdered, PTL DEF Spec
  <1> QED
    BY <1>1, <1>2, <1>3, <1>4, PTL DEF Spec, ImplementsPipe, Pipe!PipeSpec
=============================================================================
