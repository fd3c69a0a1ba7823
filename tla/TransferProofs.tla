--------------------------- MODULE TransferProofs ---------------------------
(***************************************************************************)
(* For any lengths of messages and bursts, any ring, any losses and any    *)
(* timeouts, as long as the sequence numbers do not wrap: what the         *)
(* receiver has taken is in order, ACKs do not go back nor run ahead of    *)
(* what it has heard, and Transfer implements OrderedPipe.                 *)
(*                                                                         *)
(* The argument is about phases.  The phase of a DATA packet is the number *)
(* of its frame minus its sequence number; it measures how far the faulty  *)
(* counting of write has fallen behind.  The sender's phase never          *)
(* decreases, so phases do not decrease along the line either, and none    *)
(* is below that of the last frame taken.  A packet whose sequence number  *)
(* is one more than that of the last frame taken therefore carries a       *)
(* later frame.                                                            *)
(*                                                                         *)
(* When nothing is lost and timeouts are long enough: write never takes    *)
(* patience for silence, and a first burst that is acknowledged arrived.   *)
(***************************************************************************)
EXTENDS Transfer, TLAPS

Forward == <<Sender, Receiver>>
Back    == <<Receiver, Sender>>

(* No sequence number of the transfer reaches the last one before the wrap. *)
BelowWrap ==
    \A st \in Starts : /\ st.seq + MaxFrames < SeqMod - 1
                       /\ st.heard < SeqMod - 1
                       /\ st.ack < SeqMod - 1

(* The ends of the connection. *)
GoodEnd(s) ==
    /\ s \in Socket /\ s.state \in {"OPEN", "CLOSED"}
    /\ s.remote_sequence # Undef /\ s.remote_port # Undef

Ends ==
    /\ sock \in [Node -> Socket]
    /\ GoodEnd(sock[Sender]) /\ sock[Sender].remote = Receiver
    /\ GoodEnd(sock[Receiver]) /\ sock[Receiver].remote = Sender

(* The lines: nobody sends to himself. *)
GoodLines(lines) ==
    /\ lines \in [Route -> Seq(Packet)]
    /\ \A n \in Node : lines[<<n, n>>] = <<>>

(* The applications and the locals of write. *)
GoodCall ==
    /\ w \in [active : BOOLEAN, len : Nat, pos : Nat, n : 0 .. BurstSz,
              sent : 0 .. BurstSz, noack : 0 .. 2]
    /\ w.sent <= w.n /\ w.pos + w.n <= w.len
    /\ IF w.active THEN w.n > 0 ELSE w = NoWrite
    /\ offered \in 0 .. MaxFrames /\ offered + w.len <= MaxFrames

GoodRest ==
    /\ result \in [ret : {"none", "OK", "TIMEOUT", "ACK_OUT_OF_SEQUENCE"},
                   first : Nat, last : Nat]
    /\ reading \in BOOLEAN
    /\ got \in Seq(Nat)
    /\ losses \in 0 .. MaxLoss

Heard == sock[Receiver].remote_sequence
Ring == sock[Receiver].ringbuf
Written == offered + w.len
SenderPhase == offered + w.pos - sock[Sender].sequence_number

(* The counters stay below the wrap: the sender's leaves room for every frame
   still to come.                                                           *)
Counters ==
    /\ sock[Sender].sequence_number + MaxFrames - (offered + w.pos) < SeqMod - 1
    /\ Heard < SeqMod - 1
    /\ sock[Sender].last_recved_ack < SeqMod - 1

Phase(p) == p.arg - p.seq

(* The line f to the receiver: phases do not decrease, and end with the
   sender's.                                                                *)
GoodForward(f, written, phase) ==
    /\ \A i \in DOMAIN f : f[i].src = Sender /\ f[i].type \in {"DATA", "CLOSE"}
    /\ \A i \in DOMAIN f : f[i].type = "DATA" =>
          f[i].seq < SeqMod - 1 /\ f[i].arg \in 1 .. written /\ Phase(f[i]) <= phase
    /\ \A i, j \in DOMAIN f :
          i < j /\ f[i].type = "DATA" /\ f[j].type = "DATA" => Phase(f[i]) <= Phase(f[j])

(* The line b back to the sender. *)
GoodBack(b, heard) ==
    /\ \A i \in DOMAIN b : /\ b[i].src = Receiver /\ b[i].type \in {"ACK", "CLOSE"}
                           /\ b[i].type = "ACK" => b[i].seq <= heard
    /\ \A i, j \in DOMAIN b :
          i < j /\ b[i].type = "ACK" /\ b[j].type = "ACK" => b[i].seq <= b[j].seq

(* No frame that was taken is ahead of what is still to come. *)
GoodTaken(frames, heard, f, written, phase) ==
    \A x \in frames :
        /\ x \in 1 .. written
        /\ x - heard <= phase
        /\ \A i \in DOMAIN f : f[i].type = "DATA" => x - heard <= Phase(f[i])

Sorted(q) == \A i, j \in DOMAIN q : i < j => q[i] < q[j]

(* What the application has read, and then what it will read. *)
InOrder(read, ring) ==
    /\ Sorted(read) /\ Sorted(ring)
    /\ \A x \in InRange(read), y \in InRange(ring) : x < y

Flow ==
    /\ GoodForward(net[Forward], Written, SenderPhase)
    /\ GoodBack(net[Back], Heard)
    /\ GoodTaken(InRange(got) \cup InRange(Ring), Heard, net[Forward], Written, SenderPhase)
    /\ InOrder(got, Ring)

IInv == Ends /\ GoodLines(net) /\ GoodCall /\ GoodRest /\ Counters /\ Flow

-----------------------------------------------------------------------------
(* Sequences *)

(* Increasing sequences, one after the other. *)
LEMMA SortedConcat ==
    ASSUME NEW q \in Seq(Nat), NEW r \in Seq(Nat), Sorted(q), Sorted(r),
           \A x \in InRange(q), y \in InRange(r) : x < y
    PROVE  Sorted(q \o r)
  <1> SUFFICES ASSUME NEW i \in 1 .. Len(q) + Len(r), NEW j \in 1 .. Len(q) + Len(r), i < j
               PROVE  (q \o r)[i] < (q \o r)[j]
    BY DEF Sorted
  <1>1. /\ \A k \in 1 .. Len(q) : (q \o r)[k] = q[k] /\ q[k] \in InRange(q)
        /\ \A k \in Len(q) + 1 .. Len(q) + Len(r) :
              (q \o r)[k] = r[k - Len(q)] /\ r[k - Len(q)] \in InRange(r)
    BY DEF InRange
  <1>2. CASE j <= Len(q)
    BY <1>1, <1>2 DEF Sorted
  <1>3. CASE i <= Len(q) /\ j > Len(q)
    BY <1>1, <1>3
  <1>4. CASE i > Len(q)
    <2>1. i - Len(q) \in DOMAIN r /\ j - Len(q) \in DOMAIN r /\ i - Len(q) < j - Len(q)
      BY <1>4
    <2> QED
      BY <1>1, <1>4, <2>1 DEF Sorted
  <1> QED
    BY <1>2, <1>3, <1>4

(* An increasing sequence and a larger element. *)
LEMMA SortedAppend ==
    ASSUME NEW q \in Seq(Nat), NEW e \in Nat, Sorted(q), \A x \in InRange(q) : x < e
    PROVE  /\ Sorted(Append(q, e)) /\ Append(q, e) \in Seq(Nat)
           /\ InRange(Append(q, e)) = InRange(q) \cup {e}
  <1> DEFINE a == Append(q, e)
  <1>1. /\ a \in Seq(Nat) /\ Len(a) = Len(q) + 1 /\ a[Len(q) + 1] = e
        /\ \A k \in 1 .. Len(q) : a[k] = q[k] /\ q[k] \in InRange(q) /\ q[k] \in Nat
    BY DEF InRange
  <1>2. Len(q) \in Nat /\ DOMAIN q = 1 .. Len(q) /\ DOMAIN a = 1 .. Len(q) + 1
    OBVIOUS
  <1> HIDE DEF a
  <1>3. Sorted(a)
    <2> SUFFICES ASSUME NEW i \in 1 .. Len(q) + 1, NEW j \in 1 .. Len(q) + 1, i < j
                 PROVE  a[i] < a[j]
      BY <1>2 DEF Sorted
    <2>1. CASE j = Len(q) + 1
      <3>1. i \in 1 .. Len(q)
        BY <1>2, <2>1
      <3> QED
        BY <1>1, <2>1, <3>1
    <2>2. CASE j # Len(q) + 1
      <3>1. i \in 1 .. Len(q) /\ j \in 1 .. Len(q)
        BY <1>2, <2>2
      <3> QED
        BY <1>1, <1>2, <3>1 DEF Sorted
    <2> QED
      BY <2>1, <2>2
  <1>4. InRange(a) = InRange(q) \cup {e}
    <2>1. ASSUME NEW k \in 1 .. Len(q) + 1
          PROVE  a[k] \in InRange(q) \cup {e}
      <3>1. k \in 1 .. Len(q) \/ k = Len(q) + 1
        BY <1>2
      <3> QED
        BY <1>1, <3>1
    <2>2. InRange(a) \subseteq InRange(q) \cup {e}
      BY <1>2, <2>1 DEF InRange
    <2>3. 1 .. Len(q) \subseteq 1 .. Len(q) + 1 /\ Len(q) + 1 \in 1 .. Len(q) + 1
      BY <1>2
    <2>4. InRange(q) \cup {e} \subseteq InRange(a)
      BY <1>1, <1>2, <2>3 DEF InRange
    <2> QED
      BY <2>2, <2>4
  <1> QED
    BY <1>1, <1>3, <1>4 DEF a

(* What is left of an increasing sequence. *)
LEMMA SortedTail ==
    ASSUME NEW q \in Seq(Nat), q # <<>>, Sorted(q)
    PROVE  /\ Sorted(Tail(q)) /\ Tail(q) \in Seq(Nat)
           /\ InRange(Tail(q)) \subseteq InRange(q)
           /\ Head(q) \in InRange(q)
           /\ \A x \in InRange(Tail(q)) : Head(q) < x
  BY DEF Sorted, InRange

(* A larger frame is put into the ring, whatever a full ring does. *)
LEMMA SortedRing ==
    ASSUME NEW q \in Seq(Nat), NEW e \in Nat, Sorted(q), \A x \in InRange(q) : x < e
    PROVE  /\ Sorted(RingPut(q, e)) /\ RingPut(q, e) \in Seq(Nat)
           /\ InRange(RingPut(q, e)) \subseteq InRange(q) \cup {e}
           /\ InRange(RingPut(q, e)) \subseteq Nat
  <1>1. CASE Len(q) < RingCap
    BY <1>1, SortedAppend DEF RingPut, InRange
  <1>2. CASE Len(q) >= RingCap
    <2>1. q # <<>>
      BY <1>2, SocketAssumption
    <2>2. /\ Tail(q) \in Seq(Nat) /\ Sorted(Tail(q))
          /\ InRange(Tail(q)) \subseteq InRange(q)
      BY <2>1, SortedTail
    <2>3. /\ Sorted(Append(Tail(q), e)) /\ Append(Tail(q), e) \in Seq(Nat)
          /\ InRange(Append(Tail(q), e)) = InRange(Tail(q)) \cup {e}
      BY <2>2, SortedAppend
    <2>4. InRange(q) \subseteq Nat
      BY DEF InRange
    <2> QED
      BY <1>2, <2>2, <2>3, <2>4, SocketAssumption DEF RingPut
  <1> QED
    BY <1>1, <1>2, SocketAssumption

-----------------------------------------------------------------------------
(* Lines *)

(* The two boards and the two routes between them. *)
LEMMA TwoNodes ==
    /\ Node = {Sender, Receiver} /\ Sender # Receiver
    /\ Forward \in Route /\ Back \in Route /\ Forward # Back
    /\ \A n \in Node : <<n, n>> \in Route /\ <<n, n>> # Forward /\ <<n, n>> # Back
  BY TransferAssumption DEF Route, Forward, Back

(* A packet enters one of the two routes, or is lost there. *)
LEMMA TransmitOn ==
    ASSUME NEW lines, GoodLines(lines), NEW p \in Packet, NEW r \in {Forward, Back},
           r = <<p.src, p.dst>>
    PROVE  LET new == Transmit(lines, p)
           IN  /\ GoodLines(new)
               /\ new[r] = lines[r] \/ new[r] = Append(lines[r], p)
               /\ \A q \in Route \ {r} : new[q] = lines[q]
  <1> DEFINE new == Transmit(lines, p)
  <1>1. new = [q \in Route |-> IF q = r /\ Len(lines[q]) < LineCap
                               THEN Append(lines[q], p) ELSE lines[q]]
    BY DEF Transmit
  <1>2. \A q \in Route : lines[q] \in Seq(Packet)
    BY DEF GoodLines
  <1>3. \A q \in Route \ {r} : new[q] = lines[q]
    BY <1>1
  <1>4. new[r] = lines[r] \/ new[r] = Append(lines[r], p)
    BY <1>1, TwoNodes
  <1> HIDE DEF new
  <1>5. ASSUME NEW q \in Route PROVE new[q] \in Seq(Packet)
    <2>1. lines[q] \in Seq(Packet) /\ Append(lines[q], p) \in Seq(Packet)
      BY <1>2
    <2> QED
      BY <1>3, <1>4, <2>1
  <1>6. new \in [Route -> Seq(Packet)]
    BY <1>1, <1>5
  <1> QED
    BY <1>3, <1>4, <1>6, TwoNodes DEF GoodLines, new

(* The oldest packet of one of the two routes leaves it. *)
LEMMA ConsumeOn ==
    ASSUME NEW lines, GoodLines(lines), NEW r \in {Forward, Back}, lines[r] # <<>>
    PROVE  LET new == Consume(lines, r)
           IN  /\ GoodLines(new)
               /\ Head(lines[r]) \in Packet
               /\ new[r] = Tail(lines[r])
               /\ \A q \in Route \ {r} : new[q] = lines[q]
  <1>1. lines[r] \in Seq(Packet) /\ r \in Route
    BY TwoNodes DEF GoodLines
  <1>2. Tail(lines[r]) \in Seq(Packet) /\ Head(lines[r]) \in Packet
    BY <1>1
  <1> QED
    BY <1>1, <1>2, TwoNodes DEF GoodLines, Consume

(* Only the two routes between the ends ever hold a packet. *)
LEMMA UsedRoute ==
    ASSUME GoodLines(net), NEW m \in Node, NEW n \in Node, net[<<m, n>>] # <<>>
    PROVE  \/ <<m, n>> = Forward /\ n = Receiver
           \/ <<m, n>> = Back /\ n = Sender
  <1>1. m # n
    BY DEF GoodLines
  <1> QED
    BY <1>1, TwoNodes DEF Forward, Back

-----------------------------------------------------------------------------
(* What a line that is good stays when the sender advances, when its oldest
   packet leaves and when a packet enters.                                  *)

(* The fields of a packet. *)
LEMMA PacketFacts ==
    \A p \in Packet : p.seq \in SeqNum /\ p.seq \in Int /\ p.arg \in Nat /\ p.src \in Node
  BY DEF Packet, SeqNum

(* On the line to the receiver. *)
LEMMA ForwardMono ==
    ASSUME NEW f \in Seq(Packet), NEW wr \in Int, NEW ph \in Int,
           NEW wr2 \in Int, NEW ph2 \in Int,
           GoodForward(f, wr, ph), wr <= wr2, ph <= ph2
    PROVE  GoodForward(f, wr2, ph2)
  <1>1. \A i \in DOMAIN f : f[i].seq \in Int /\ f[i].arg \in Int
    <2>1. \A i \in DOMAIN f : f[i] \in Packet
      OBVIOUS
    <2> QED
      BY <2>1, PacketFacts
  <1> QED
    BY <1>1 DEF GoodForward, Phase

(* Its oldest packet leaves. *)
LEMMA ForwardTail ==
    ASSUME NEW f \in Seq(Packet), f # <<>>, NEW wr, NEW ph, GoodForward(f, wr, ph)
    PROVE  GoodForward(Tail(f), wr, ph)
  <1>1. /\ DOMAIN Tail(f) = 1 .. Len(f) - 1 /\ DOMAIN f = 1 .. Len(f)
        /\ Len(f) \in Nat
        /\ \A i \in 1 .. Len(f) - 1 : Tail(f)[i] = f[i + 1] /\ i + 1 \in 1 .. Len(f)
    OBVIOUS
  <1> QED
    BY <1>1 DEF GoodForward

(* A packet with the sender's phase enters. *)
LEMMA ForwardAppend ==
    ASSUME NEW f \in Seq(Packet), NEW wr, NEW ph \in Int, GoodForward(f, wr, ph),
           NEW p \in Packet, p.src = Sender, p.type \in {"DATA", "CLOSE"},
           p.type = "DATA" => p.seq < SeqMod - 1 /\ p.arg \in 1 .. wr /\ Phase(p) = ph
    PROVE  GoodForward(Append(f, p), wr, ph)
  <1> DEFINE g == Append(f, p)
  <1>1. /\ DOMAIN g = 1 .. Len(f) + 1 /\ DOMAIN f = 1 .. Len(f) /\ Len(f) \in Nat
        /\ g[Len(f) + 1] = p
        /\ \A i \in 1 .. Len(f) : g[i] = f[i]
    OBVIOUS
  <1>2. \A i \in 1 .. Len(f) + 1 : i \in 1 .. Len(f) \/ i = Len(f) + 1
    BY <1>1
  <1>3. Phase(p) \in Int
    BY PacketFacts DEF Phase
  <1> HIDE DEF g
  <1>4. \A i \in DOMAIN g : g[i].src = Sender /\ g[i].type \in {"DATA", "CLOSE"}
    BY <1>1, <1>2 DEF GoodForward
  <1>5. \A i \in DOMAIN g : g[i].type = "DATA" =>
           g[i].seq < SeqMod - 1 /\ g[i].arg \in 1 .. wr /\ Phase(g[i]) <= ph
    BY <1>1, <1>2, <1>3 DEF GoodForward
  <1>6. ASSUME NEW i \in DOMAIN g, NEW j \in DOMAIN g, i < j,
               g[i].type = "DATA", g[j].type = "DATA"
        PROVE  Phase(g[i]) <= Phase(g[j])
    <2>1. i \in 1 .. Len(f)
      BY <1>1, <1>2, <1>6
    <2>2. CASE j \in 1 .. Len(f)
      BY <2>1, <2>2, <1>1, <1>6 DEF GoodForward
    <2>3. CASE j = Len(f) + 1
      BY <2>3, <1>1, <1>5, <1>6
    <2> QED
      BY <1>1, <1>2, <2>2, <2>3
  <1> QED
    BY <1>4, <1>5, <1>6 DEF GoodForward, g

(* The same on the line back. *)
LEMMA BackTail ==
    ASSUME NEW b \in Seq(Packet), b # <<>>, NEW h, GoodBack(b, h)
    PROVE  GoodBack(Tail(b), h)
  <1> DEFINE g == Tail(b)
  <1>1. /\ DOMAIN g = 1 .. Len(b) - 1 /\ DOMAIN b = 1 .. Len(b)
        /\ \A i \in 1 .. Len(b) - 1 : g[i] = b[i + 1] /\ i + 1 \in 1 .. Len(b)
    OBVIOUS
  <1>2. \A i, j \in 1 .. Len(b) - 1 : i < j => i + 1 < j + 1
    OBVIOUS
  <1> HIDE DEF g
  <1> QED
    BY <1>1, <1>2 DEF GoodBack

(* An ACK of what the receiver has heard last enters. *)
LEMMA BackAppend ==
    ASSUME NEW b \in Seq(Packet), NEW h, GoodBack(b, h),
           NEW p \in Packet, p.src = Receiver, p.type \in {"ACK", "CLOSE"},
           h \in Int, p.type = "ACK" => p.seq = h
    PROVE  GoodBack(Append(b, p), h)
  <1> DEFINE g == Append(b, p)
  <1>1. /\ DOMAIN g = 1 .. Len(b) + 1 /\ DOMAIN b = 1 .. Len(b) /\ Len(b) \in Nat
        /\ g[Len(b) + 1] = p
        /\ \A i \in 1 .. Len(b) : g[i] = b[i]
    OBVIOUS
  <1>2. \A i \in 1 .. Len(b) + 1 : i \in 1 .. Len(b) \/ i = Len(b) + 1
    BY <1>1
  <1> HIDE DEF g
  <1>3. \A i, j \in 1 .. Len(b) + 1 :
          i < j /\ g[i].type = "ACK" /\ g[j].type = "ACK" => g[i].seq <= g[j].seq
    <2> SUFFICES ASSUME NEW i \in 1 .. Len(b) + 1, NEW j \in 1 .. Len(b) + 1, i < j,
                        g[i].type = "ACK", g[j].type = "ACK"
                 PROVE  g[i].seq <= g[j].seq
      OBVIOUS
    <2>1. i \in 1 .. Len(b)
      BY <1>1
    <2>2. g[i].seq <= h
      BY <1>1, <2>1 DEF GoodBack
    <2> QED
      BY <1>1, <1>2, <2>1, <2>2 DEF GoodBack
  <1> QED
    BY <1>1, <1>2, <1>3 DEF GoodBack

(* The receiver takes another frame. *)
LEMMA BackMono ==
    ASSUME NEW b \in Seq(Packet), NEW h \in Int, NEW h2 \in Int, GoodBack(b, h), h <= h2
    PROVE  GoodBack(b, h2)
  <1>1. \A i \in DOMAIN b : b[i].seq \in Int
    <2>1. \A i \in DOMAIN b : b[i] \in Packet
      OBVIOUS
    <2> QED
      BY <2>1, PacketFacts
  <1> QED
    BY <1>1 DEF GoodBack

-----------------------------------------------------------------------------
(* What was taken, when the sender advances and when packets leave and enter. *)

LEMMA TakenMono ==
    ASSUME NEW X, NEW X2, X2 \subseteq X, NEW h \in Int, NEW f,
           NEW wr \in Int, NEW ph \in Int, NEW wr2 \in Int, NEW ph2 \in Int,
           GoodTaken(X, h, f, wr, ph), wr <= wr2, ph <= ph2
    PROVE  GoodTaken(X2, h, f, wr2, ph2)
  BY DEF GoodTaken

(* The same of the frames taken: the oldest packet leaves, *)
LEMMA TakenTail ==
    ASSUME NEW X, NEW h, NEW f \in Seq(Packet), f # <<>>, NEW wr, NEW ph,
           GoodTaken(X, h, f, wr, ph)
    PROVE  GoodTaken(X, h, Tail(f), wr, ph)
  <1>1. /\ DOMAIN Tail(f) = 1 .. Len(f) - 1 /\ DOMAIN f = 1 .. Len(f)
        /\ \A i \in 1 .. Len(f) - 1 : Tail(f)[i] = f[i + 1] /\ i + 1 \in 1 .. Len(f)
    OBVIOUS
  <1> QED
    BY <1>1 DEF GoodTaken

(* and a packet with the sender's phase enters. *)
LEMMA TakenAppend ==
    ASSUME NEW X, NEW h, NEW f \in Seq(Packet), NEW wr, NEW ph,
           GoodTaken(X, h, f, wr, ph),
           NEW p \in Packet, p.type = "DATA" => Phase(p) = ph
    PROVE  GoodTaken(X, h, Append(f, p), wr, ph)
  <1> DEFINE g == Append(f, p)
  <1>1. /\ DOMAIN g = 1 .. Len(f) + 1 /\ DOMAIN f = 1 .. Len(f) /\ Len(f) \in Nat
        /\ g[Len(f) + 1] = p
        /\ \A i \in 1 .. Len(f) : g[i] = f[i]
    OBVIOUS
  <1>2. \A i \in 1 .. Len(f) + 1 : i \in 1 .. Len(f) \/ i = Len(f) + 1
    BY <1>1
  <1> HIDE DEF g
  <1> QED
    BY <1>1, <1>2 DEF GoodTaken, g

(* The heart of the matter: a packet with the number that is expected carries
   a frame later than all that were taken, and taking it keeps the order of
   phases.                                                                  *)
LEMMA TakenAccept ==
    ASSUME NEW X, NEW h \in Int, NEW f \in Seq(Packet), f # <<>>,
           NEW wr \in Int, NEW ph \in Int,
           GoodForward(f, wr, ph), GoodTaken(X, h, f, wr, ph),
           Head(f).type = "DATA", Head(f).seq = h + 1
    PROVE  /\ \A x \in X : x < Head(f).arg
           /\ GoodTaken(X \cup {Head(f).arg}, Head(f).seq, Tail(f), wr, ph)
  <1> DEFINE p == Head(f)
  <1>1. /\ DOMAIN Tail(f) = 1 .. Len(f) - 1 /\ DOMAIN f = 1 .. Len(f)
        /\ Len(f) \in Nat /\ 1 \in DOMAIN f /\ f[1] = p
        /\ \A i \in 1 .. Len(f) - 1 : Tail(f)[i] = f[i + 1] /\ i + 1 \in 1 .. Len(f) /\ 1 < i + 1
    OBVIOUS
  <1>2. \A i \in DOMAIN f : f[i] \in Packet
    OBVIOUS
  <1>3. \A i \in DOMAIN f : f[i].seq \in Int /\ f[i].arg \in Int /\ Phase(f[i]) \in Int
    BY <1>2, PacketFacts DEF Phase
  <1> HIDE DEF p
  <1>4. p.seq = h + 1 /\ p.type = "DATA" /\ p.seq \in Int /\ p.arg \in Int
    BY <1>1, <1>3 DEF p
  <1>5. p.arg \in 1 .. wr /\ Phase(p) <= ph /\ Phase(p) = p.arg - p.seq
    BY <1>1, <1>4 DEF GoodForward, Phase
  <1>6. ASSUME NEW x \in X PROVE x \in 1 .. wr /\ x - h <= Phase(p)
    BY <1>1, <1>4, <1>6 DEF GoodTaken
  <1>7. ASSUME NEW x \in X PROVE x < p.arg /\ x - p.seq <= Phase(p)
    BY <1>4, <1>5, <1>6, <1>7
  <1>8. ASSUME NEW i \in DOMAIN Tail(f), Tail(f)[i].type = "DATA"
        PROVE  Phase(p) <= Phase(Tail(f)[i]) /\ Phase(Tail(f)[i]) \in Int
    BY <1>1, <1>3, <1>4, <1>8 DEF GoodForward
  <1>9. ASSUME NEW x \in X \cup {p.arg}
        PROVE  x \in 1 .. wr /\ x - p.seq <= Phase(p)
    <2>1. CASE x \in X
      BY <1>6, <1>7, <2>1
    <2>2. CASE x = p.arg
      BY <1>4, <1>5, <2>2
    <2> QED
      BY <1>9, <2>1, <2>2
  <1>10. GoodTaken(X \cup {p.arg}, p.seq, Tail(f), wr, ph)
    <2> SUFFICES ASSUME NEW x \in X \cup {p.arg}
                 PROVE  /\ x \in 1 .. wr /\ x - p.seq <= ph
                        /\ \A i \in DOMAIN Tail(f) :
                             Tail(f)[i].type = "DATA" => x - p.seq <= Phase(Tail(f)[i])
      BY DEF GoodTaken
    <2>1. x \in Int /\ Phase(p) \in Int /\ x - p.seq <= Phase(p) /\ x \in 1 .. wr
      BY <1>4, <1>5, <1>9
    <2> QED
      BY <1>4, <1>5, <1>8, <2>1
  <1> QED
    BY <1>7, <1>10 DEF p

-----------------------------------------------------------------------------
(* The handlers *)

(* An unwritten byte is no number. *)
LEMMA UndefFacts == Undef \notin SeqNum /\ Undef \notin Nat /\ SeqNum \subseteq Nat
  BY SocketAssumption DEF SeqNum

(* The ring keeps its type. *)
LEMMA RingTyped ==
    ASSUME NEW ring \in Seq(Nat), NEW frame \in Nat
    PROVE  RingPut(ring, frame) \in Seq(Nat)
  <1>1. CASE Len(ring) < RingCap
    BY <1>1 DEF RingPut
  <1>2. CASE Len(ring) >= RingCap
    <2>1. Tail(ring) \in Seq(Nat)
      BY <1>2, SocketAssumption
    <2> QED
      BY <2>1, <1>2, SocketAssumption DEF RingPut
  <1> QED
    BY <1>1, <1>2, SocketAssumption

(* Below the wrap both handlers expect the same number. *)
LEMMA NextFacts ==
    ASSUME NEW s \in Socket, s.remote_sequence \in SeqNum, s.remote_sequence < SeqMod - 1
    PROVE  /\ NextForServer(s) = s.remote_sequence + 1
           /\ NextForClient(s) = s.remote_sequence + 1
           /\ s.remote_sequence + 1 \in SeqNum
  BY SocketAssumption DEF NextForServer, NextForClient, SeqNum

(* An open or closed socket, given a packet of its peer. *)
LEMMA ReceivedIs ==
    ASSUME NEW n \in Node, NEW s, GoodEnd(s), NEW p \in Packet, p.src = s.remote,
           s.remote_sequence < SeqMod - 1
    PROVE  /\ s.state = "OPEN" =>
                Received(n, s, p) = OpenOnData(Dispatched(s, p), p, s.remote_sequence + 1)
           /\ s.state = "CLOSED" => Received(n, s, p) = Dispatched(s, p)
           /\ Dispatched(s, p) = s
  <1>1. Dispatched(s, p) = s
    BY DEF Dispatched, GoodEnd, Socket
  <1>2. NextForServer(s) = s.remote_sequence + 1 /\ NextForClient(s) = s.remote_sequence + 1
    BY NextFacts DEF GoodEnd, Socket
  <1> QED
    BY <1>1, <1>2 DEF Received, ServerOnData, ClientOnData, GoodEnd

(* A DATA packet with the number expected is taken; anything else is not. *)
LEMMA ReceiverTakes ==
    ASSUME NEW s, GoodEnd(s), s.remote = Sender, s.remote_sequence < SeqMod - 1,
           NEW p \in Packet, p.src = Sender, p.type \in {"DATA", "CLOSE"}
    PROVE  LET t == Received(Receiver, s, p)
           IN  /\ GoodEnd(t) /\ t.remote = Sender
               /\ \/ /\ p.type = "DATA" /\ p.seq = s.remote_sequence + 1
                     /\ t.remote_sequence = p.seq
                     /\ t.ringbuf = RingPut(s.ringbuf, p.arg)
                  \/ /\ t.remote_sequence = s.remote_sequence
                     /\ t.ringbuf = s.ringbuf
  <1> DEFINE t == Received(Receiver, s, p)
  <1>1. /\ s.state = "OPEN" => t = OpenOnData(s, p, s.remote_sequence + 1)
        /\ s.state = "CLOSED" => t = s
    BY ReceivedIs, TwoNodes
  <1>2. CASE s.state = "OPEN" /\ p.type = "CLOSE"
    <2>1. t = [s EXCEPT !.state = "CLOSED"]
      BY <1>1, <1>2 DEF OpenOnData
    <2> QED
      BY <2>1 DEF GoodEnd, Socket, ConnectionState
  <1>3. CASE s.state = "OPEN" /\ p.type = "DATA" /\ p.seq = s.remote_sequence + 1
    <2>1. t = Accept(s, p)
      BY <1>1, <1>3 DEF OpenOnData
    <2>2. p.seq \in SeqNum /\ p.seq # Undef /\ p.arg \in Nat
      BY PacketFacts, UndefFacts
    <2>3. RingPut(s.ringbuf, p.arg) \in Seq(Nat)
      BY <2>2, RingTyped DEF GoodEnd, Socket
    <2> QED
      BY <1>3, <2>1, <2>2, <2>3 DEF Accept, GoodEnd, Socket
  <1>4. CASE t = s
    BY <1>4
  <1> QED
    BY <1>1, <1>2, <1>3, <1>4 DEF OpenOnData, GoodEnd

(* The sender's counters are its own; an ACK is kept. *)
LEMMA SenderHears ==
    ASSUME NEW s, GoodEnd(s), s.remote = Receiver,
           NEW p \in Packet, p.src = Receiver, p.type \in {"ACK", "CLOSE"}
    PROVE  LET t == Received(Sender, s, p)
           IN  /\ GoodEnd(t) /\ t.remote = Receiver
               /\ t.sequence_number = s.sequence_number
               /\ t.remote_sequence = s.remote_sequence
               /\ \/ t.last_recved_ack = s.last_recved_ack
                  \/ p.type = "ACK" /\ t.last_recved_ack = p.seq
  <1> DEFINE t == Received(Sender, s, p)
  <1>1. /\ s.state = "OPEN" => \E next : t = OpenOnData(s, p, next)
        /\ s.state = "CLOSED" => t = s
    <2>1. Dispatched(s, p) = s
      BY DEF Dispatched, GoodEnd, Socket
    <2> QED
      BY <2>1 DEF Received, ServerOnData, ClientOnData, GoodEnd
  <1>2. CASE s.state = "OPEN" /\ p.type = "CLOSE"
    <2>1. t = [s EXCEPT !.state = "CLOSED"]
      BY <1>1, <1>2 DEF OpenOnData
    <2> QED
      BY <2>1 DEF GoodEnd, Socket, ConnectionState
  <1>3. CASE s.state = "OPEN" /\ p.type = "ACK"
    <2>1. t = [s EXCEPT !.last_recved_ack = p.seq]
      BY <1>1, <1>3 DEF OpenOnData
    <2> QED
      BY <1>3, <2>1, PacketFacts DEF GoodEnd, Socket
  <1>4. CASE t = s
    BY <1>4
  <1> QED
    BY <1>1, <1>2, <1>3, <1>4 DEF GoodEnd

-----------------------------------------------------------------------------
(* The sender's arithmetic *)

(* A number below the wrap is its own remainder. *)
LEMMA SmallMod == \A x \in SeqNum : x % SeqMod = x
  BY SocketAssumption DEF SeqNum

(* What the invariant says of the packets, the sockets and the sequences. *)
LEMMA StateFacts ==
    ASSUME IInv
    PROVE  /\ net[Forward] \in Seq(Packet) /\ net[Back] \in Seq(Packet)
           /\ sock[Sender] \in Socket /\ sock[Receiver] \in Socket
           /\ Ring \in Seq(Nat) /\ got \in Seq(Nat)
  <1>1. net[Forward] \in Seq(Packet) /\ net[Back] \in Seq(Packet)
    BY TwoNodes DEF IInv, GoodLines
  <1>2. sock[Sender] \in Socket /\ sock[Receiver] \in Socket
    BY TwoNodes DEF IInv, Ends
  <1>3. Ring \in Seq(Nat)
    BY <1>2 DEF Socket, Ring
  <1> QED
    BY <1>1, <1>2, <1>3 DEF IInv, GoodRest

(* What it says of the numbers. *)
LEMMA NumFacts ==
    ASSUME IInv
    PROVE  /\ sock[Sender].sequence_number \in Nat
           /\ sock[Sender].last_recved_ack \in Nat /\ Heard \in Nat
           /\ offered \in Nat /\ w.len \in Nat /\ w.pos \in Nat /\ w.n \in Nat /\ w.sent \in Nat
           /\ Written = offered + w.len
           /\ SenderPhase = offered + w.pos - sock[Sender].sequence_number
           /\ Written \in Nat /\ SenderPhase \in Int
           /\ BurstSz \in Nat /\ w.n <= BurstSz
           /\ MaxFrames \in Nat /\ SeqMod \in Nat /\ SeqMod > 2
           /\ w.pos + w.n <= w.len /\ w.sent <= w.n
           /\ offered + w.len <= MaxFrames
           /\ sock[Sender].sequence_number + MaxFrames - (offered + w.pos) < SeqMod - 1
           /\ Heard < SeqMod - 1
           /\ sock[Sender].last_recved_ack < SeqMod - 1
  <1>1. /\ sock[Sender].sequence_number \in Nat /\ sock[Sender].last_recved_ack \in Nat
        /\ Heard \in Nat
    BY StateFacts, UndefFacts DEF IInv, Ends, GoodEnd, Socket, Heard
  <1>2. /\ offered \in Nat /\ w.len \in Nat /\ w.pos \in Nat /\ w.n \in Nat /\ w.sent \in Nat
        /\ w.pos + w.n <= w.len /\ w.sent <= w.n
        /\ offered + w.len <= MaxFrames
        /\ BurstSz \in Nat /\ w.n <= BurstSz
    BY TransferAssumption DEF IInv, GoodCall
  <1>3. Written \in Nat /\ SenderPhase \in Int
    BY <1>1, <1>2 DEF Written, SenderPhase
  <1> QED
    BY <1>1, <1>2, <1>3, TransferAssumption, SocketAssumption
    DEF IInv, Counters, Written, SenderPhase

(* The numbers of a burst do not wrap. *)
LEMMA SlotSeqIs ==
    ASSUME IInv, NEW i \in 0 .. w.n - 1
    PROVE  /\ SlotSeq(i) = sock[Sender].sequence_number + i + 1
           /\ SlotSeq(i) < SeqMod - 1 /\ SlotSeq(i) \in SeqNum
           /\ offered + w.pos + i + 1 \in 1 .. Written
  <1>1. /\ sock[Sender].sequence_number + i + 1 < SeqMod - 1
        /\ sock[Sender].sequence_number + i + 1 \in 0 .. SeqMod - 1
        /\ offered + w.pos + i + 1 \in 1 .. Written
    BY NumFacts
  <1>2. sock[Sender].sequence_number + i + 1 \in SeqNum
    BY <1>1 DEF SeqNum
  <1>3. SlotSeq(i) = sock[Sender].sequence_number + i + 1
    BY <1>2, SmallMod DEF SlotSeq
  <1> QED
    BY <1>1, <1>2, <1>3

(* A frame that leaves has the sender's phase. *)
LEMMA DataPacketIs ==
    ASSUME IInv, w.active, w.sent < w.n
    PROVE  LET p == DataPacket(w.sent)
           IN  /\ p \in Packet /\ Forward = <<p.src, p.dst>> /\ p.src = Sender
               /\ p.type = "DATA" /\ p.seq < SeqMod - 1
               /\ p.arg \in 1 .. Written /\ Phase(p) = SenderPhase
  <1>1. w.sent \in 0 .. w.n - 1
    BY NumFacts
  <1>2. /\ SlotSeq(w.sent) = sock[Sender].sequence_number + w.sent + 1
        /\ SlotSeq(w.sent) < SeqMod - 1 /\ SlotSeq(w.sent) \in SeqNum
        /\ offered + w.pos + w.sent + 1 \in 1 .. Written
    BY <1>1, SlotSeqIs
  <1> DEFINE p == DataPacket(w.sent)
  <1>3. p = [type |-> "DATA", src |-> Sender, dst |-> Receiver, port |-> sock[Sender].remote_port,
             seq |-> SlotSeq(w.sent), arg |-> offered + w.pos + w.sent + 1]
    BY DEF DataPacket, ToRemote, IInv, Ends
  <1>4. /\ offered + w.pos + w.sent + 1 \in Nat
        /\ sock[Sender].remote_port \in Port \cup {Undef}
        /\ Sender \in Node /\ Receiver \in Address
    <2>1. offered + w.pos + w.sent + 1 \in Nat
      BY NumFacts
    <2> QED
      BY <2>1, StateFacts, TwoNodes DEF Socket, Address
  <1> HIDE DEF p
  <1>5. p \in Packet
    BY <1>2, <1>3, <1>4 DEF Packet, MessageType
  <1>6. /\ p.type = "DATA" /\ p.src = Sender /\ p.dst = Receiver
        /\ p.seq = sock[Sender].sequence_number + w.sent + 1
        /\ p.arg = offered + w.pos + w.sent + 1
    BY <1>2, <1>3
  <1>7. Phase(p) = SenderPhase
    BY <1>6, NumFacts DEF Phase
  <1> QED
    BY <1>2, <1>5, <1>6, <1>7 DEF Forward, p

(* Progress finds the frame whose ACK came, and never an empty slot. *)
LEMMA ProgressIs ==
    ASSUME IInv, Progress
    PROVE  LET ack == sock[Sender].last_recved_ack
               k   == FrameSlot(ack)
           IN  /\ k \in 0 .. w.n - 1
               /\ NextPos(ack) = w.pos + k + 1
               /\ sock' = [sock EXCEPT ![Sender].sequence_number = sock[Sender].sequence_number + k]
               /\ sock[Sender].sequence_number + k \in SeqNum
  <1> DEFINE ack == sock[Sender].last_recved_ack
             k   == FrameSlot(ack)
             seq == sock[Sender].sequence_number
  <1>1. ~EmptyFound(ack)
    BY NumFacts DEF EmptyFound
  <1>2. FrameFound(ack)
    BY <1>1 DEF Progress
  <1>3. k \in 0 .. w.n - 1
    BY <1>2 DEF FrameFound, FrameSlot
  <1>4. seq + k \in SeqNum
    <2>1. seq + k + 1 \in SeqNum
      BY <1>3, SlotSeqIs
    <2> QED
      BY <1>3, <2>1, NumFacts DEF SeqNum
  <1>5. (seq + SlotAdvance(ack)) % SeqMod = seq + k
    <2>1. SlotAdvance(ack) = k + 0
      BY <1>1, <1>2 DEF SlotAdvance
    <2>2. k + 0 = k
      BY <1>3, NumFacts
    <2> QED
      BY <1>4, <2>1, <2>2, SmallMod
  <1>6. NextPos(ack) = w.pos + k + 1
    BY <1>1 DEF NextPos
  <1>7. sock' = [sock EXCEPT ![Sender].sequence_number = (@ + SlotAdvance(ack)) % SeqMod]
    BY DEF Progress
  <1>8. sock' = [sock EXCEPT ![Sender].sequence_number = seq + k]
    BY <1>5, <1>7
  <1> QED
    BY <1>3, <1>4, <1>6, <1>8

-----------------------------------------------------------------------------
(* The steps of write *)

(* A step that leaves the receiver, its application and the lines alone, and
   does not take the sender's phase back, keeps the flow.                   *)
LEMMA SenderAlone ==
    ASSUME IInv, net' = net, got' = got, sock'[Receiver] = sock[Receiver],
           Written' \in Int, SenderPhase' \in Int,
           Written <= Written', SenderPhase <= SenderPhase'
    PROVE  Flow'
  <1>1. /\ Heard' = Heard /\ Ring' = Ring
    BY DEF Heard, Ring
  <1>2. Written \in Int /\ SenderPhase \in Int /\ Heard \in Int
    BY NumFacts
  <1>3. /\ GoodForward(net[Forward], Written, SenderPhase)
        /\ GoodTaken(InRange(got) \cup InRange(Ring), Heard, net[Forward], Written, SenderPhase)
        /\ GoodBack(net[Back], Heard) /\ InOrder(got, Ring)
    BY DEF IInv, Flow
  <1>4. GoodForward(net[Forward], Written', SenderPhase')
    BY <1>2, <1>3, ForwardMono, StateFacts
  <1>5. GoodTaken(InRange(got) \cup InRange(Ring), Heard, net[Forward], Written', SenderPhase')
    BY <1>2, <1>3, TakenMono
  <1> QED
    BY <1>1, <1>3, <1>4, <1>5 DEF Flow

(* A step of write that only changes its locals and what is offered. *)
LEMMA LocalStep ==
    ASSUME IInv, UNCHANGED <<sock, net, reading, got, losses>>,
           GoodCall', result' \in [ret : {"none", "OK", "TIMEOUT", "ACK_OUT_OF_SEQUENCE"},
                                   first : Nat, last : Nat],
           offered' + w'.pos >= offered + w.pos,
           offered' + w'.len >= offered + w.len
    PROVE  IInv'
  <1>1. /\ offered' \in Nat /\ w'.len \in Nat /\ w'.pos \in Nat
    BY TransferAssumption DEF GoodCall
  <1>2. /\ Written' = offered' + w'.len
        /\ SenderPhase' = offered' + w'.pos - sock[Sender].sequence_number
    BY DEF Written, SenderPhase
  <1>3. /\ Written' \in Int /\ SenderPhase' \in Int
        /\ Written <= Written' /\ SenderPhase <= SenderPhase'
        /\ sock[Sender].sequence_number + MaxFrames - (offered' + w'.pos) < SeqMod - 1
    BY <1>1, <1>2, NumFacts
  <1>4. Flow'
    BY <1>3, SenderAlone
  <1>5. Counters'
    BY <1>3 DEF Counters, IInv, Heard
  <1> QED
    BY <1>4, <1>5 DEF IInv, Ends, GoodLines, GoodRest

(* A step that begins a burst within its message. *)
LEMMA BurstCall ==
    ASSUME IInv, NEW len \in Nat, NEW pos \in Nat, pos < len, NEW noack \in 0 .. 2,
           offered + len <= MaxFrames, w' = Burst(len, pos, noack), offered' = offered
    PROVE  GoodCall' /\ w'.pos = pos /\ w'.len = len
  <1>1. /\ w' \in [active : BOOLEAN, len : Nat, pos : Nat, n : 0 .. BurstSz,
                   sent : 0 .. BurstSz, noack : 0 .. 2]
        /\ w'.active = TRUE /\ w'.len = len /\ w'.pos = pos
        /\ w'.n > 0 /\ w'.sent <= w'.n /\ w'.pos + w'.n <= w'.len
    BY TransferAssumption DEF Burst
  <1>2. offered' \in 0 .. MaxFrames /\ offered' + w'.len <= MaxFrames
    BY <1>1 DEF IInv, GoodCall
  <1> QED
    BY <1>1, <1>2 DEF GoodCall

(* write() is called. *)
LEMMA WriteBeginKeeps ==
    ASSUME IInv, NEW len \in Lens, WriteBegin(len)
    PROVE  IInv'
  <1>1. len \in Nat /\ len > 0
    BY TransferAssumption
  <1>2. /\ w = NoWrite /\ offered \in 0 .. MaxFrames
    BY DEF IInv, GoodCall, WriteBegin
  <1>3. /\ w' = Burst(len, 0, 0) /\ offered' = offered /\ offered + len <= MaxFrames
        /\ UNCHANGED <<sock, net, result, reading, got, losses>>
    BY DEF WriteBegin
  <1>4. GoodCall'
    BY <1>1, <1>3, BurstCall
  <1>5. w.pos = 0 /\ w.len = 0 /\ w'.pos = 0 /\ w'.len = len
    BY <1>1, <1>2, <1>3, BurstCall DEF NoWrite
  <1>6. offered' + w'.pos >= offered + w.pos /\ offered' + w'.len >= offered + w.len
    BY <1>1, <1>3, <1>5, NumFacts
  <1> QED
    BY <1>3, <1>4, <1>6, LocalStep DEF IInv, GoodRest

(* A silent burst is sent again. *)
LEMMA ResendKeeps ==
    ASSUME IInv, Resend
    PROVE  IInv'
  <1>1. /\ w' = Burst(w.len, w.pos, w.noack + 1) /\ w.noack < 2 /\ w.active
        /\ UNCHANGED <<sock, net, offered, result, reading, got, losses>>
    BY DEF Resend, BurstOver
  <1>2. w.n > 0 /\ w.noack + 1 \in 0 .. 2
    BY <1>1 DEF IInv, GoodCall
  <1>3. w.pos < w.len
    BY <1>2, NumFacts
  <1>4. GoodCall' /\ w'.pos = w.pos /\ w'.len = w.len
    <2>1. w.len \in Nat /\ w.pos \in Nat /\ offered + w.len <= MaxFrames
      BY NumFacts
    <2> QED
      BY <2>1, <1>1, <1>2, <1>3, BurstCall
  <1>5. offered' + w'.pos >= offered + w.pos /\ offered' + w'.len >= offered + w.len
    BY <1>1, <1>4, NumFacts
  <1> QED
    BY <1>1, <1>4, <1>5, LocalStep DEF IInv, GoodRest

(* write returns: whatever it returns, its frames are behind it. *)
LEMMA ReturnGood ==
    ASSUME IInv, NEW ret \in {"OK", "TIMEOUT", "ACK_OUT_OF_SEQUENCE"}, Return(ret)
    PROVE  /\ GoodCall'
           /\ result' \in [ret : {"none", "OK", "TIMEOUT", "ACK_OUT_OF_SEQUENCE"},
                           first : Nat, last : Nat]
           /\ w'.pos = 0 /\ w'.len = 0 /\ offered' = offered + w.len
  <1>1. /\ w' = NoWrite /\ offered' = offered + w.len
        /\ result' = [ret |-> ret, first |-> offered + 1, last |-> offered + w.len]
    BY DEF Return
  <1>2. offered + w.len \in 0 .. MaxFrames /\ offered + 1 \in Nat /\ offered + w.len \in Nat
    BY NumFacts
  <1>3. offered + w.len + 0 <= MaxFrames
    BY <1>2, NumFacts
  <1>4. GoodCall'
    BY <1>1, <1>2, <1>3, TransferAssumption DEF GoodCall, NoWrite
  <1> QED
    BY <1>1, <1>2, <1>4 DEF NoWrite

(* write() returns an error. *)
LEMMA FailKeeps ==
    ASSUME IInv, GiveUp \/ OutOfSequence
    PROVE  IInv'
  <1>1. PICK ret \in {"TIMEOUT", "ACK_OUT_OF_SEQUENCE"} : Return(ret) /\ UNCHANGED sock
    BY DEF GiveUp, OutOfSequence
  <1>2. /\ GoodCall' /\ w'.pos = 0 /\ w'.len = 0 /\ offered' = offered + w.len
        /\ result' \in [ret : {"none", "OK", "TIMEOUT", "ACK_OUT_OF_SEQUENCE"},
                        first : Nat, last : Nat]
    BY <1>1, ReturnGood
  <1>3. UNCHANGED <<sock, net, reading, got, losses>>
    BY <1>1 DEF Return
  <1>4. offered' + w'.pos >= offered + w.pos /\ offered' + w'.len >= offered + w.len
    BY <1>2, NumFacts
  <1> QED
    BY <1>2, <1>3, <1>4, LocalStep

(* A burst is acknowledged, in part or whole: the phase grows by one. *)
LEMMA ProgressKeeps ==
    ASSUME IInv, Progress
    PROVE  IInv'
  <1> DEFINE k == FrameSlot(sock[Sender].last_recved_ack)
             num == sock[Sender].sequence_number + k
             next == NextPos(sock[Sender].last_recved_ack)
  <1>1. /\ k \in 0 .. w.n - 1 /\ next = w.pos + k + 1
        /\ sock' = [sock EXCEPT ![Sender].sequence_number = num] /\ num \in SeqNum
    BY ProgressIs
  <1>2. \/ next = w.len /\ Return("OK")
        \/ /\ next # w.len /\ w' = Burst(w.len, next, w.noack)
           /\ UNCHANGED <<net, offered, result, reading, got, losses>>
    BY DEF Progress
  <1> HIDE DEF k, next, num
  <1>3. /\ next \in Nat /\ next <= w.len /\ k \in Nat
        /\ w.len \in Nat /\ offered + w.len <= MaxFrames
    BY <1>1, NumFacts
  <1>4. UNCHANGED <<net, reading, got, losses>>
    BY <1>2 DEF Return
  <1>5. /\ GoodCall'
        /\ result' \in [ret : {"none", "OK", "TIMEOUT", "ACK_OUT_OF_SEQUENCE"},
                        first : Nat, last : Nat]
        /\ offered' + w'.pos = offered + next
        /\ offered' + w'.len = offered + w.len
        /\ offered' \in Nat /\ w'.pos \in Nat /\ w'.len \in Nat
    <2>1. CASE next = w.len /\ Return("OK")
      <3>1. /\ GoodCall' /\ w'.pos = 0 /\ w'.len = 0 /\ offered' = offered + w.len
            /\ result' \in [ret : {"none", "OK", "TIMEOUT", "ACK_OUT_OF_SEQUENCE"},
                            first : Nat, last : Nat]
        BY <2>1, ReturnGood
      <3>2. offered' + w'.pos = offered + next /\ offered' + w'.len = offered + w.len
            /\ offered' \in Nat
        BY <2>1, <3>1, NumFacts
      <3> QED
        BY <3>1, <3>2
    <2>2. CASE /\ next # w.len /\ w' = Burst(w.len, next, w.noack)
               /\ UNCHANGED <<net, offered, result, reading, got, losses>>
      <3>1. next < w.len /\ w.noack \in 0 .. 2
        BY <1>3, <2>2 DEF IInv, GoodCall
      <3>2. GoodCall' /\ w'.pos = next /\ w'.len = w.len
        BY <1>3, <2>2, <3>1, BurstCall
      <3>3. offered' = offered /\ offered \in Nat
        BY <2>2, NumFacts
      <3>4. result' \in [ret : {"none", "OK", "TIMEOUT", "ACK_OUT_OF_SEQUENCE"},
                         first : Nat, last : Nat]
        BY <2>2 DEF IInv, GoodRest
      <3> QED
        BY <1>3, <3>2, <3>3, <3>4
    <2> QED
      BY <1>2, <2>1, <2>2
  <1>6. /\ sock' \in [Node -> Socket] /\ sock'[Receiver] = sock[Receiver]
        /\ sock'[Sender] = [sock[Sender] EXCEPT !.sequence_number = num]
    <2>1. /\ sock \in [Node -> Socket]
          /\ [sock[Sender] EXCEPT !.sequence_number = num] \in Socket
      BY <1>1, StateFacts DEF IInv, Ends, Socket
    <2> QED
      BY <1>1, <2>1, TwoNodes
  <1>7. Ends'
    <2>1. GoodEnd(sock[Sender]) /\ sock[Sender].remote = Receiver
      BY DEF IInv, Ends
    <2>2. /\ sock'[Sender] \in Socket
          /\ sock'[Sender].state = sock[Sender].state
          /\ sock'[Sender].remote = sock[Sender].remote
          /\ sock'[Sender].remote_sequence = sock[Sender].remote_sequence
          /\ sock'[Sender].remote_port = sock[Sender].remote_port
      BY <1>6, StateFacts, TwoNodes DEF Socket
    <2>3. GoodEnd(sock'[Sender]) /\ sock'[Sender].remote = Receiver
      BY <2>1, <2>2 DEF GoodEnd
    <2> QED
      BY <1>6, <2>3 DEF IInv, Ends
  <1>8. sock'[Sender].sequence_number = num /\ num = sock[Sender].sequence_number + k
        /\ sock'[Sender].last_recved_ack = sock[Sender].last_recved_ack /\ Heard' = Heard
    BY <1>6, StateFacts DEF Socket, Heard, num
  <1>9. /\ Written' = offered' + w'.len
        /\ SenderPhase' = offered' + w'.pos - num
    BY <1>8 DEF Written, SenderPhase
  <1>10. /\ Written' \in Int /\ SenderPhase' \in Int
         /\ Written <= Written' /\ SenderPhase <= SenderPhase'
         /\ num + MaxFrames - (offered' + w'.pos) < SeqMod - 1
    BY <1>1, <1>3, <1>5, <1>8, <1>9, NumFacts
  <1>11. Flow'
    BY <1>4, <1>6, <1>10, SenderAlone
  <1>12. Counters'
    BY <1>8, <1>10 DEF IInv, Counters
  <1> QED
    BY <1>4, <1>5, <1>7, <1>11, <1>12 DEF IInv, GoodLines, GoodRest

(* A packet enters the line to the receiver: a frame with the sender's phase,
   or a CLOSE.                                                              *)
LEMMA FlowAppend ==
    ASSUME IInv, NEW p \in Packet, p.src = Sender, p.type \in {"DATA", "CLOSE"},
           p.type = "DATA" =>
              p.seq < SeqMod - 1 /\ p.arg \in 1 .. Written /\ Phase(p) = SenderPhase,
           NEW f, f = net[Forward] \/ f = Append(net[Forward], p)
    PROVE  /\ GoodForward(f, Written, SenderPhase)
           /\ GoodTaken(InRange(got) \cup InRange(Ring), Heard, f, Written, SenderPhase)
  <1>1. SenderPhase \in Int
    BY NumFacts
  <1>2. /\ GoodForward(net[Forward], Written, SenderPhase)
        /\ GoodTaken(InRange(got) \cup InRange(Ring), Heard, net[Forward], Written, SenderPhase)
    BY DEF IInv, Flow
  <1>3. GoodForward(Append(net[Forward], p), Written, SenderPhase)
    BY <1>1, <1>2, StateFacts, ForwardAppend
  <1>4. GoodTaken(InRange(got) \cup InRange(Ring), Heard, Append(net[Forward], p), Written, SenderPhase)
    BY <1>2, StateFacts, TakenAppend
  <1> QED
    BY <1>2, <1>3, <1>4

(* A frame of the burst leaves. *)
LEMMA SendFrameKeeps ==
    ASSUME IInv, SendFrame
    PROVE  IInv'
  <1>1. /\ w.active /\ w.sent < w.n
        /\ net' = Transmit(net, DataPacket(w.sent))
        /\ w' = [w EXCEPT !.sent = @ + 1]
        /\ UNCHANGED <<sock, offered, result, reading, got, losses>>
    BY DEF SendFrame
  <1>2. PICK p : p = DataPacket(w.sent)
    OBVIOUS
  <1>3. /\ p \in Packet /\ Forward = <<p.src, p.dst>> /\ p.src = Sender
        /\ p.type = "DATA" /\ p.seq < SeqMod - 1
        /\ p.arg \in 1 .. Written /\ Phase(p) = SenderPhase
    BY <1>1, <1>2, DataPacketIs
  <1>4. /\ GoodLines(net')
        /\ net'[Forward] = net[Forward] \/ net'[Forward] = Append(net[Forward], p)
        /\ \A q \in Route \ {Forward} : net'[q] = net[q]
    BY <1>1, <1>2, <1>3, TransmitOn DEF IInv
  <1>5. GoodCall' /\ w'.pos = w.pos /\ w'.len = w.len
    <2>1. w.sent + 1 \in 0 .. BurstSz /\ w.sent + 1 <= w.n
      BY <1>1, NumFacts
    <2> QED
      BY <1>1, <2>1 DEF IInv, GoodCall
  <1>6. /\ Heard' = Heard /\ Ring' = Ring /\ Written' = Written /\ SenderPhase' = SenderPhase
    BY <1>1, <1>5 DEF Heard, Ring, Written, SenderPhase
  <1>7. Flow'
    <2>1. net'[Back] = net[Back]
      BY <1>4, TwoNodes
    <2>2. /\ GoodForward(net'[Forward], Written, SenderPhase)
          /\ GoodTaken(InRange(got) \cup InRange(Ring), Heard, net'[Forward], Written, SenderPhase)
      BY <1>3, <1>4, FlowAppend
    <2> QED
      BY <1>1, <1>6, <2>1, <2>2 DEF IInv, Flow
  <1>8. Counters'
    BY <1>1, <1>5, <1>6 DEF IInv, Counters
  <1> QED
    BY <1>1, <1>4, <1>5, <1>7, <1>8 DEF IInv, Ends, GoodLines, GoodRest

-----------------------------------------------------------------------------
(* The steps of the ends and of the lines *)

(* The socket of one board changes and stays an end of the connection. *)
LEMMA EndStep ==
    ASSUME IInv, NEW n \in Node, NEW t, GoodEnd(t), t.remote = sock[n].remote,
           sock' = [sock EXCEPT ![n] = t]
    PROVE  /\ Ends' /\ sock'[n] = t
           /\ \A m \in Node : m # n => sock'[m] = sock[m]
  <1>1. sock \in [Node -> Socket] /\ t \in Socket
    BY DEF IInv, Ends, GoodEnd
  <1>2. /\ sock' \in [Node -> Socket] /\ sock'[n] = t
        /\ \A m \in Node : m # n => sock'[m] = sock[m]
    BY <1>1
  <1>3. \A m \in Node : GoodEnd(sock'[m]) /\ sock'[m].remote = sock[m].remote
    BY <1>2, TwoNodes DEF IInv, Ends
  <1> QED
    BY <1>2, <1>3, TwoNodes DEF IInv, Ends

(* A board's CLOSE is a packet on the line to the other board. *)
LEMMA CloseIs ==
    ASSUME IInv, NEW n \in Node
    PROVE  LET p == ClosePacket(n, sock[n])
           IN  /\ p \in Packet /\ p.type = "CLOSE" /\ p.src = n
               /\ <<p.src, p.dst>> = IF n = Sender THEN Forward ELSE Back
  <1>1. sock[n] \in Socket /\ sock[n].remote = IF n = Sender THEN Receiver ELSE Sender
    BY TwoNodes DEF IInv, Ends
  <1> QED
    BY <1>1, TwoNodes DEF ClosePacket, ToRemote, Packet, MessageType, Socket, Forward, Back

(* A step that changes no counter and no ring, and puts at most a CLOSE on a
   line: disconnect(), and a read() that finds nothing.                     *)
LEMMA QuietStep ==
    ASSUME IInv, NEW n \in Node, NEW t, GoodEnd(t), t.remote = sock[n].remote,
           t.sequence_number = sock[n].sequence_number,
           t.last_recved_ack = sock[n].last_recved_ack,
           t.remote_sequence = sock[n].remote_sequence,
           t.ringbuf = sock[n].ringbuf,
           sock' = [sock EXCEPT ![n] = t],
           net' = net \/ net' = Transmit(net, ClosePacket(n, sock[n])),
           UNCHANGED <<w, offered, result, got, losses>>, reading' \in BOOLEAN
    PROVE  IInv'
  <1>1. /\ Ends' /\ sock'[n] = t
        /\ \A m \in Node : m # n => sock'[m] = sock[m]
    BY EndStep
  <1>2. /\ sock'[Sender].sequence_number = sock[Sender].sequence_number
        /\ sock'[Sender].last_recved_ack = sock[Sender].last_recved_ack
        /\ Heard' = Heard /\ Ring' = Ring
    BY <1>1, TwoNodes DEF Heard, Ring
  <1>3. Written' = Written /\ SenderPhase' = SenderPhase
    BY <1>2 DEF Written, SenderPhase
  <1>4. PICK p : p = ClosePacket(n, sock[n])
    OBVIOUS
  <1>5. /\ p \in Packet /\ p.type = "CLOSE" /\ p.src = n
        /\ <<p.src, p.dst>> = IF n = Sender THEN Forward ELSE Back
    BY <1>4, CloseIs
  <1>6. /\ GoodLines(net')
        /\ \/ net'[Forward] = net[Forward]
           \/ n = Sender /\ net'[Forward] = Append(net[Forward], p)
        /\ \/ net'[Back] = net[Back]
           \/ n = Receiver /\ net'[Back] = Append(net[Back], p)
    <2>1. CASE net' = net
      BY <2>1 DEF IInv
    <2>2. CASE net' = Transmit(net, p) /\ n = Sender
      BY <1>5, <2>2, TransmitOn, TwoNodes DEF IInv
    <2>3. CASE net' = Transmit(net, p) /\ n = Receiver
      BY <1>5, <2>3, TransmitOn, TwoNodes DEF IInv
    <2> QED
      BY <1>4, <2>1, <2>2, <2>3, TwoNodes
  <1>7. /\ GoodForward(net'[Forward], Written, SenderPhase)
        /\ GoodTaken(InRange(got) \cup InRange(Ring), Heard, net'[Forward], Written, SenderPhase)
    <2>1. CASE net'[Forward] = net[Forward]
      BY <2>1 DEF IInv, Flow
    <2>2. CASE n = Sender /\ net'[Forward] = Append(net[Forward], p)
      BY <1>5, <2>2, FlowAppend
    <2> QED
      BY <1>6, <2>1, <2>2
  <1>8. GoodBack(net'[Back], Heard)
    <2>1. GoodBack(net[Back], Heard)
      BY DEF IInv, Flow
    <2>2. CASE n = Receiver /\ net'[Back] = Append(net[Back], p)
      <3>1. Heard \in Int /\ net[Back] \in Seq(Packet) /\ p.type # "ACK"
        BY <1>5, NumFacts, StateFacts
      <3> QED
        BY <1>5, <2>1, <2>2, <3>1, BackAppend
    <2> QED
      BY <1>6, <2>1, <2>2
  <1>9. Flow'
    BY <1>2, <1>3, <1>7, <1>8 DEF IInv, Flow
  <1>10. GoodCall' /\ GoodRest' /\ Counters'
    BY <1>2 DEF IInv, GoodCall, GoodRest, Counters
  <1> QED
    BY <1>1, <1>6, <1>9, <1>10 DEF IInv

(* disconnect() is called. *)
LEMMA DisconnectKeeps ==
    ASSUME IInv, NEW n \in Node, Disconnect(n)
    PROVE  IInv'
  <1> DEFINE t == Disconnected(sock[n])
  <1>1. GoodEnd(sock[n]) /\ reading \in BOOLEAN
    BY TwoNodes DEF IInv, Ends, GoodRest
  <1>2. /\ GoodEnd(t) /\ t.remote = sock[n].remote
        /\ t.sequence_number = sock[n].sequence_number
        /\ t.last_recved_ack = sock[n].last_recved_ack
        /\ t.remote_sequence = sock[n].remote_sequence
        /\ t.ringbuf = sock[n].ringbuf
    BY <1>1 DEF Disconnected, GoodEnd, Socket, ConnectionState
  <1>3. /\ sock' = [sock EXCEPT ![n] = t]
        /\ net' = net \/ net' = Transmit(net, ClosePacket(n, sock[n]))
        /\ UNCHANGED <<w, offered, result, reading, got, losses>>
    BY DEF Disconnect, LinesAfterDisconnect
  <1> HIDE DEF t
  <1> QED
    BY <1>1, <1>2, <1>3, QuietStep

(* read() times out. *)
LEMMA ReadNothingKeeps ==
    ASSUME IInv, ReadNothing
    PROVE  IInv'
  <1> DEFINE s == sock[Receiver]
  <1>1. GoodEnd(s) /\ Receiver \in Node
    BY TwoNodes DEF IInv, Ends
  <1>2. UNCHANGED <<w, offered, result, got, losses>> /\ reading' = FALSE
    BY DEF ReadNothing
  <1>3. PICK t : /\ \/ t = [s EXCEPT !.zero_read_count = @ + 1] /\ s.zero_read_count < 2
                    \/ t = [Disconnected(s) EXCEPT !.zero_read_count = 0]
                 /\ sock' = [sock EXCEPT ![Receiver] = t]
                 /\ net' = net \/ net' = Transmit(net, ClosePacket(Receiver, s))
    <2>1. CASE s.zero_read_count < 2
      <3>1. sock' = [sock EXCEPT ![Receiver].zero_read_count = @ + 1] /\ net' = net
        BY <2>1 DEF ReadNothing
      <3>2. sock' = [sock EXCEPT ![Receiver] = [s EXCEPT !.zero_read_count = @ + 1]]
        BY <3>1
      <3> QED
        BY <2>1, <3>1, <3>2
    <2>2. CASE ~(s.zero_read_count < 2)
      BY <2>2 DEF ReadNothing, LinesAfterDisconnect
    <2> QED
      BY <2>1, <2>2
  <1>4. /\ GoodEnd(t) /\ t.remote = s.remote
        /\ t.sequence_number = s.sequence_number
        /\ t.last_recved_ack = s.last_recved_ack
        /\ t.remote_sequence = s.remote_sequence
        /\ t.ringbuf = s.ringbuf
    <2>1. CASE t = [s EXCEPT !.zero_read_count = @ + 1] /\ s.zero_read_count < 2
      <3>1. s.zero_read_count + 1 \in 0 .. 2
        BY <1>1, <2>1 DEF GoodEnd, Socket
      <3> QED
        BY <1>1, <2>1, <3>1 DEF GoodEnd, Socket
    <2>2. CASE t = [Disconnected(s) EXCEPT !.zero_read_count = 0]
      <3>1. 0 \in 0 .. 2 /\ "CLOSED" \in ConnectionState
        BY DEF ConnectionState
      <3>2. t = [s EXCEPT !.state = "CLOSED", !.zero_read_count = 0]
        BY <2>2 DEF Disconnected
      <3> HIDE DEF s
      <3> QED
        BY <1>1, <3>1, <3>2 DEF GoodEnd, Socket
    <2> QED
      BY <1>3, <2>1, <2>2
  <1> QED
    BY <1>1, <1>2, <1>3, <1>4, QuietStep

(* read() takes the oldest frame of the ring. *)
LEMMA ReadFrameKeeps ==
    ASSUME IInv, ReadFrame
    PROVE  IInv'
  <1> DEFINE x == Head(Ring)
             t == [sock[Receiver] EXCEPT !.ringbuf = Tail(@)]
  <1>1. /\ Ring # <<>> /\ got' = Append(got, x) /\ reading' = FALSE
        /\ sock' = [sock EXCEPT ![Receiver] = t]
        /\ UNCHANGED <<net, w, offered, result, losses>>
    BY DEF ReadFrame, Ring
  <1>2. InOrder(got, Ring) /\ got \in Seq(Nat) /\ Ring \in Seq(Nat)
    BY StateFacts DEF IInv, Flow
  <1>3. /\ Sorted(Tail(Ring)) /\ Tail(Ring) \in Seq(Nat)
        /\ InRange(Tail(Ring)) \subseteq InRange(Ring)
        /\ x \in InRange(Ring) /\ x \in Nat
        /\ \A y \in InRange(Tail(Ring)) : x < y
    BY <1>1, <1>2, SortedTail DEF InOrder
  <1>4. GoodEnd(sock[Receiver]) /\ Receiver \in Node
    BY TwoNodes DEF IInv, Ends
  <1>5. /\ GoodEnd(t) /\ t.remote = sock[Receiver].remote
        /\ t.remote_sequence = sock[Receiver].remote_sequence
        /\ t.ringbuf = Tail(Ring)
    BY <1>3, <1>4 DEF GoodEnd, Socket, Ring
  <1> HIDE DEF x, t
  <1>6. /\ Ends' /\ sock'[Receiver] = t /\ sock'[Sender] = sock[Sender]
    BY <1>1, <1>4, <1>5, EndStep, TwoNodes
  <1>7. /\ Heard' = Heard /\ Ring' = Tail(Ring) /\ Written' = Written
        /\ SenderPhase' = SenderPhase
    BY <1>1, <1>5, <1>6 DEF Heard, Ring, Written, SenderPhase
  <1>8. \A y \in InRange(got) : y < x
    BY <1>2, <1>3 DEF InOrder
  <1>9. /\ Sorted(got') /\ got' \in Seq(Nat) /\ InRange(got') = InRange(got) \cup {x}
    BY <1>1, <1>2, <1>3, <1>8, SortedAppend DEF InOrder
  <1>10. InOrder(got', Tail(Ring))
    BY <1>2, <1>3, <1>9 DEF InOrder
  <1>11. GoodTaken(InRange(got') \cup InRange(Tail(Ring)), Heard, net[Forward], Written, SenderPhase)
    <2>1. InRange(got') \cup InRange(Tail(Ring)) \subseteq InRange(got) \cup InRange(Ring)
      BY <1>3, <1>9
    <2> QED
      BY <2>1 DEF IInv, Flow, GoodTaken
  <1>12. Flow'
    BY <1>1, <1>7, <1>10, <1>11 DEF IInv, Flow
  <1>13. GoodCall' /\ GoodRest' /\ Counters' /\ GoodLines(net')
    BY <1>1, <1>6, <1>7, <1>9 DEF IInv, GoodCall, GoodRest, Counters
  <1> QED
    BY <1>6, <1>12, <1>13 DEF IInv

(* read() is called. *)
LEMMA ReadBeginKeeps ==
    ASSUME IInv, ReadBegin
    PROVE  IInv'
  <1>1. reading' = TRUE /\ UNCHANGED <<sock, net, w, offered, result, got, losses>>
    BY DEF ReadBegin
  <1>2. /\ Heard' = Heard /\ Ring' = Ring /\ Written' = Written /\ SenderPhase' = SenderPhase
    BY <1>1 DEF Heard, Ring, Written, SenderPhase
  <1>3. Flow' /\ Counters'
    BY <1>1, <1>2 DEF IInv, Flow, Counters
  <1> QED
    BY <1>1, <1>3 DEF IInv, Ends, GoodLines, GoodCall, GoodRest

(* The oldest packet of a line is lost. *)
LEMMA LoseKeeps ==
    ASSUME IInv, NEW m \in Node, NEW n \in Node, Lose(m, n)
    PROVE  IInv'
  <1>1. /\ losses < MaxLoss /\ losses' = losses + 1 /\ net[<<m, n>>] # <<>>
        /\ net' = Consume(net, <<m, n>>)
        /\ UNCHANGED <<sock, w, offered, result, reading, got>>
    BY DEF Lose
  <1>2. <<m, n>> \in {Forward, Back} /\ Forward # Back
    BY <1>1, UsedRoute, TwoNodes DEF IInv
  <1>3. /\ GoodLines(net') /\ net'[<<m, n>>] = Tail(net[<<m, n>>])
        /\ \A q \in Route \ {<<m, n>>} : net'[q] = net[q]
    BY <1>1, <1>2, ConsumeOn DEF IInv
  <1>4. /\ Heard' = Heard /\ Ring' = Ring /\ Written' = Written /\ SenderPhase' = SenderPhase
    BY <1>1 DEF Heard, Ring, Written, SenderPhase
  <1>5. /\ GoodForward(net[Forward], Written, SenderPhase) /\ GoodBack(net[Back], Heard)
        /\ GoodTaken(InRange(got) \cup InRange(Ring), Heard, net[Forward], Written, SenderPhase)
    BY DEF IInv, Flow
  <1>6. Ends' /\ GoodCall' /\ GoodRest' /\ Counters'
    <2>1. losses' \in 0 .. MaxLoss
      BY <1>1, TransferAssumption DEF IInv, GoodRest
    <2> QED
      BY <1>1, <1>4, <2>1 DEF IInv, Ends, GoodCall, GoodRest, Counters
  <1>7. CASE <<m, n>> = Forward
    <2>1. /\ net'[Back] = net[Back] /\ net'[Forward] = Tail(net[Forward])
          /\ net[Forward] # <<>>
      BY <1>1, <1>2, <1>3, <1>7, TwoNodes
    <2>2. /\ GoodForward(net'[Forward], Written, SenderPhase)
          /\ GoodTaken(InRange(got) \cup InRange(Ring), Heard, net'[Forward], Written, SenderPhase)
      BY <1>5, <2>1, ForwardTail, TakenTail, StateFacts
    <2> QED
      BY <1>1, <1>3, <1>4, <1>6, <2>1, <2>2 DEF IInv, Flow
  <1>8. CASE <<m, n>> = Back
    <2>1. /\ net'[Forward] = net[Forward] /\ net'[Back] = Tail(net[Back])
          /\ net[Back] # <<>>
      BY <1>1, <1>2, <1>3, <1>8, TwoNodes
    <2>2. GoodBack(net'[Back], Heard)
      BY <1>5, <2>1, BackTail, StateFacts
    <2> QED
      BY <1>1, <1>3, <1>4, <1>6, <2>1, <2>2 DEF IInv, Flow
  <1> QED
    BY <1>2, <1>7, <1>8

(* The receiver handles the oldest packet of its line. *)
LEMMA DeliverForward ==
    ASSUME IInv, Deliver(Sender, Receiver), net[Forward] # <<>>
    PROVE  IInv'
  <1> DEFINE f == net[Forward]
             p == Head(f)
             s == sock[Receiver]
             t == Received(Receiver, s, p)
             X == InRange(got) \cup InRange(Ring)
  <1>1. /\ sock' = [sock EXCEPT ![Receiver] = t]
        /\ net' = LinesAfter(net, Forward, Receiver, s, p)
        /\ UNCHANGED <<w, offered, result, reading, got, losses>>
    BY DEF Deliver, Forward
  <1>2. /\ f \in Seq(Packet) /\ p \in Packet /\ 1 \in DOMAIN f /\ f[1] = p
    BY StateFacts
  <1>3. /\ GoodForward(f, Written, SenderPhase) /\ GoodBack(net[Back], Heard)
        /\ GoodTaken(X, Heard, f, Written, SenderPhase) /\ InOrder(got, Ring)
    BY DEF IInv, Flow
  <1>4. /\ p.src = Sender /\ p.type \in {"DATA", "CLOSE"}
        /\ p.type = "DATA" => p.seq < SeqMod - 1
        /\ p.seq \in Nat /\ p.arg \in Nat
    BY <1>2, <1>3, PacketFacts, UndefFacts DEF GoodForward
  <1>5. GoodEnd(s) /\ s.remote = Sender /\ s.remote_sequence < SeqMod - 1
        /\ Receiver \in Node /\ s.remote_sequence = Heard /\ s.ringbuf = Ring
    BY TwoNodes DEF IInv, Ends, Counters, Heard, Ring
  <1>6. /\ GoodEnd(t) /\ t.remote = Sender
        /\ \/ /\ p.type = "DATA" /\ p.seq = Heard + 1
              /\ t.remote_sequence = p.seq
              /\ t.ringbuf = RingPut(Ring, p.arg)
           \/ /\ t.remote_sequence = Heard
              /\ t.ringbuf = Ring
    BY <1>2, <1>4, <1>5, ReceiverTakes
  <1> HIDE DEF p, t
  <1>7. /\ Ends' /\ sock'[Receiver] = t /\ sock'[Sender] = sock[Sender]
    BY <1>1, <1>5, <1>6, EndStep, TwoNodes
  <1>8. /\ Heard' = t.remote_sequence /\ Ring' = t.ringbuf /\ Written' = Written
        /\ SenderPhase' = SenderPhase
    BY <1>1, <1>7 DEF Heard, Ring, Written, SenderPhase
  <1>9. Heard' \in Nat /\ Heard <= Heard' /\ Heard' < SeqMod - 1
    <2>1. CASE p.type = "DATA" /\ p.seq = Heard + 1 /\ t.remote_sequence = p.seq
      <3>1. Heard' = Heard + 1 /\ Heard' < SeqMod - 1
        BY <1>4, <1>8, <2>1
      <3>2. Heard \in Nat /\ SeqMod \in Nat
        BY NumFacts
      <3> QED
        BY <3>1, <3>2
    <2>2. CASE t.remote_sequence = Heard
      BY <1>8, <2>2, NumFacts
    <2> QED
      BY <1>6, <2>1, <2>2
  <1>10. Counters'
    BY <1>1, <1>7, <1>9 DEF IInv, Counters
  <1>11. GoodForward(Tail(f), Written, SenderPhase)
    BY <1>2, <1>3, ForwardTail
  <1>12. /\ GoodTaken(InRange(got) \cup InRange(Ring'), Heard', Tail(f), Written, SenderPhase)
         /\ InOrder(got, Ring')
    <2>1. CASE /\ p.type = "DATA" /\ p.seq = Heard + 1
               /\ t.remote_sequence = p.seq /\ t.ringbuf = RingPut(Ring, p.arg)
      <3>1. Heard \in Int /\ Written \in Int /\ SenderPhase \in Int
        BY NumFacts
      <3>2. /\ \A x \in X : x < p.arg
            /\ GoodTaken(X \cup {p.arg}, p.seq, Tail(f), Written, SenderPhase)
        BY <1>2, <1>3, <2>1, <3>1, TakenAccept DEF p
      <3>3. /\ Sorted(Ring') /\ InRange(Ring') \subseteq InRange(Ring) \cup {p.arg}
        BY <1>3, <1>4, <1>8, <2>1, <3>2, StateFacts, SortedRing DEF InOrder
      <3>4. InOrder(got, Ring')
        BY <1>3, <3>2, <3>3 DEF InOrder
      <3>5. InRange(got) \cup InRange(Ring') \subseteq X \cup {p.arg}
        BY <3>3
      <3> QED
        BY <1>8, <2>1, <3>2, <3>4, <3>5 DEF GoodTaken
    <2>2. CASE t.remote_sequence = Heard /\ t.ringbuf = Ring
      BY <1>2, <1>3, <1>8, <2>2, TakenTail
    <2> QED
      BY <1>6, <2>1, <2>2
  <1>13. PICK a : a = AckPacket(Receiver, t)
    OBVIOUS
  <1>14. /\ a \in Packet /\ a.src = Receiver /\ a.type = "ACK" /\ a.seq = Heard'
         /\ Back = <<a.src, a.dst>>
    BY <1>6, <1>8, <1>13, TwoNodes DEF AckPacket, ToRemote, Packet, MessageType, Address, GoodEnd, Socket, Back
  <1>15. PICK lines : lines = Consume(net, Forward)
    OBVIOUS
  <1>16. /\ GoodLines(lines) /\ lines[Forward] = Tail(f) /\ lines[Back] = net[Back]
    BY <1>15, ConsumeOn, TwoNodes DEF IInv
  <1>17. net' = lines \/ net' = Transmit(lines, a)
    BY <1>1, <1>13, <1>15 DEF LinesAfter, t
  <1>18. /\ GoodLines(net') /\ net'[Forward] = Tail(f)
         /\ net'[Back] = net[Back] \/ net'[Back] = Append(net[Back], a)
    <2>1. CASE net' = lines
      BY <1>16, <2>1
    <2>2. CASE net' = Transmit(lines, a)
      BY <1>14, <1>16, <2>2, TransmitOn, TwoNodes
    <2> QED
      BY <1>17, <2>1, <2>2
  <1>19. GoodBack(net'[Back], Heard')
    <2>1. GoodBack(net[Back], Heard') /\ net[Back] \in Seq(Packet)
      BY <1>3, <1>9, NumFacts, StateFacts, BackMono
    <2>2. GoodBack(Append(net[Back], a), Heard')
      BY <1>9, <1>14, <2>1, BackAppend
    <2> QED
      BY <1>18, <2>1, <2>2
  <1>20. Flow'
    BY <1>1, <1>8, <1>11, <1>12, <1>18, <1>19 DEF Flow
  <1>21. GoodCall' /\ GoodRest'
    BY <1>1 DEF IInv, GoodCall, GoodRest
  <1> QED
    BY <1>7, <1>10, <1>18, <1>20, <1>21 DEF IInv

(* The sender handles the oldest packet of its line. *)
LEMMA DeliverBack ==
    ASSUME IInv, Deliver(Receiver, Sender), net[Back] # <<>>
    PROVE  IInv'
  <1> DEFINE b == net[Back]
             p == Head(b)
             s == sock[Sender]
             t == Received(Sender, s, p)
  <1>1. /\ sock' = [sock EXCEPT ![Sender] = t]
        /\ net' = LinesAfter(net, Back, Sender, s, p)
        /\ UNCHANGED <<w, offered, result, reading, got, losses>>
    BY DEF Deliver, Back
  <1>2. /\ b \in Seq(Packet) /\ p \in Packet /\ 1 \in DOMAIN b /\ b[1] = p
    BY StateFacts
  <1>3. GoodBack(b, Heard)
    BY DEF IInv, Flow
  <1>4. /\ p.src = Receiver /\ p.type \in {"ACK", "CLOSE"}
        /\ p.type = "ACK" => p.seq <= Heard
    BY <1>2, <1>3 DEF GoodBack
  <1>5. GoodEnd(s) /\ s.remote = Receiver /\ Sender \in Node
    BY TwoNodes DEF IInv, Ends
  <1>6. /\ GoodEnd(t) /\ t.remote = Receiver
        /\ t.sequence_number = s.sequence_number
        /\ t.last_recved_ack = s.last_recved_ack \/ t.last_recved_ack < SeqMod - 1
    <2>1. p.type = "ACK" => p.seq < SeqMod - 1
      <3> HIDE DEF p
      <3>1. p.seq \in Int /\ Heard \in Int /\ Heard < SeqMod - 1 /\ SeqMod \in Int
        BY <1>2, PacketFacts, NumFacts
      <3> QED
        BY <1>4, <3>1
    <2> QED
      BY <1>2, <1>4, <1>5, <2>1, SenderHears
  <1>7. net' = Consume(net, Back)
    BY <1>1, <1>4 DEF LinesAfter, Acknowledges
  <1> HIDE DEF p, t
  <1>8. /\ Ends' /\ sock'[Sender] = t /\ sock'[Receiver] = sock[Receiver]
    BY <1>1, <1>5, <1>6, EndStep, TwoNodes
  <1>9. /\ Heard' = Heard /\ Ring' = Ring /\ Written' = Written /\ SenderPhase' = SenderPhase
    BY <1>1, <1>6, <1>8 DEF Heard, Ring, Written, SenderPhase
  <1>10. /\ GoodLines(net') /\ net'[Back] = Tail(b) /\ net'[Forward] = net[Forward]
    BY <1>7, ConsumeOn, TwoNodes DEF IInv
  <1>11. GoodBack(Tail(b), Heard)
    BY <1>2, <1>3, BackTail
  <1>12. Flow'
    BY <1>1, <1>9, <1>10, <1>11 DEF IInv, Flow
  <1>13. GoodCall' /\ GoodRest' /\ Counters'
    BY <1>1, <1>6, <1>8, <1>9 DEF IInv, GoodCall, GoodRest, Counters
  <1> QED
    BY <1>8, <1>10, <1>12, <1>13 DEF IInv

(* Packets are delivered from one end to the other. *)
LEMMA DeliverKeeps ==
    ASSUME IInv, NEW m \in Node, NEW n \in Node, Deliver(m, n)
    PROVE  IInv'
  <1>1. net[<<m, n>>] # <<>>
    BY DEF Deliver
  <1>2. \/ m = Sender /\ n = Receiver /\ net[Forward] # <<>>
        \/ m = Receiver /\ n = Sender /\ net[Back] # <<>>
    BY <1>1, UsedRoute DEF IInv, Forward, Back
  <1> QED
    BY <1>2, DeliverForward, DeliverBack

-----------------------------------------------------------------------------
(* The invariant holds *)

(* A connection below the wrap begins in the invariant. *)
LEMMA InitGood ==
    ASSUME BelowWrap, Init
    PROVE  IInv
  <1>1. PICK st \in Starts :
          sock = [n \in Node |->
                   IF n = Sender
                   THEN [OpenTo(Receiver, NewSocket) EXCEPT
                           !.sequence_number = st.seq, !.remote_sequence = 1,
                           !.last_recved_ack = st.ack]
                   ELSE [OpenTo(Sender, NewSocket) EXCEPT
                           !.sequence_number = 2, !.remote_sequence = st.heard]]
    BY DEF Init
  <1>2. /\ net = EmptyLines /\ w = NoWrite /\ offered = 0
        /\ result = [ret |-> "none", first |-> 1, last |-> 0]
        /\ reading = FALSE /\ got = <<>> /\ losses = 0
    BY DEF Init
  <1>3. /\ st.seq \in SeqNum /\ st.heard \in SeqNum /\ st.ack \in SeqNum
        /\ st.seq + MaxFrames < SeqMod - 1 /\ st.heard < SeqMod - 1 /\ st.ack < SeqMod - 1
    BY TransferAssumption DEF BelowWrap
  <1>4. /\ 0 \in SeqNum /\ 1 \in SeqNum /\ 2 \in SeqNum
        /\ PortOf[Sender] \in Port /\ PortOf[Receiver] \in Port
        /\ PortOf[Sender] # Undef /\ PortOf[Receiver] # Undef
        /\ Sender \in Address /\ Receiver \in Address
    BY SocketAssumption, TwoNodes DEF SeqNum, Port, Address
  <1>5. /\ sock[Sender] =
             [state |-> "OPEN", remote |-> Receiver, remote_port |-> PortOf[Receiver],
              remote_sequence |-> 1, sequence_number |-> st.seq, last_recved_ack |-> st.ack,
              zero_read_count |-> 0, ringbuf |-> <<>>]
        /\ sock[Receiver] =
             [state |-> "OPEN", remote |-> Sender, remote_port |-> PortOf[Sender],
              remote_sequence |-> st.heard, sequence_number |-> 2, last_recved_ack |-> 0,
              zero_read_count |-> 0, ringbuf |-> <<>>]
    BY <1>1, TwoNodes DEF OpenTo, NewSocket
  <1>6. <<>> \in Seq(Nat)
    OBVIOUS
  <1>7. GoodEnd(sock[Sender]) /\ GoodEnd(sock[Receiver])
    BY <1>3, <1>4, <1>5, <1>6, UndefFacts DEF GoodEnd, Socket, ConnectionState
  <1>8. sock \in [Node -> Socket]
    <2>1. DOMAIN sock = Node /\ sock = [n \in Node |-> sock[n]]
      BY <1>1
    <2>2. \A n \in Node : sock[n] \in Socket
      BY <1>7, TwoNodes DEF GoodEnd
    <2> QED
      BY <2>1, <2>2
  <1>9. Ends
    BY <1>5, <1>7, <1>8 DEF Ends
  <1>10. GoodLines(net) /\ net[Forward] = <<>> /\ net[Back] = <<>>
    BY <1>2, TwoNodes DEF GoodLines, EmptyLines
  <1>11. GoodCall /\ GoodRest
    <2>1. 0 \in 0 .. MaxFrames /\ 0 \in 0 .. MaxLoss /\ 0 \in 0 .. BurstSz /\ 0 + 0 <= MaxFrames
      BY TransferAssumption
    <2>2. GoodCall
      BY <1>2, <2>1 DEF GoodCall, NoWrite
    <2>3. GoodRest
      BY <1>2, <1>6, <2>1 DEF GoodRest
    <2> QED
      BY <2>2, <2>3
  <1>12. w.pos = 0 /\ w.len = 0
    BY <1>2 DEF NoWrite
  <1>13. Counters
    <2>1. st.seq + MaxFrames - (offered + w.pos) < SeqMod - 1
      BY <1>2, <1>3, <1>12, TransferAssumption, SocketAssumption DEF SeqNum
    <2> QED
      BY <1>3, <1>5, <2>1 DEF Counters, Heard
  <1>14. InRange(got) = {} /\ InRange(Ring) = {}
    BY <1>2, <1>5 DEF InRange, Ring
  <1>15. Flow
    BY <1>2, <1>5, <1>10, <1>14
    DEF Flow, GoodForward, GoodBack, GoodTaken, InOrder, Sorted, Ring
  <1> QED
    BY <1>9, <1>10, <1>11, <1>13, <1>15 DEF IInv

(* Every step keeps the invariant. *)
LEMMA NextKeeps ==
    ASSUME IInv, [Next]_vars
    PROVE  IInv'
  <1>1. CASE UNCHANGED vars
    BY <1>1 DEF vars, IInv, Ends, GoodLines, GoodCall, GoodRest, Counters, Flow,
                Heard, Ring, Written, SenderPhase
  <1>2. ASSUME NEW len \in Lens, WriteBegin(len) PROVE IInv'
    BY <1>2, WriteBeginKeeps
  <1>3. CASE SendFrame
    BY <1>3, SendFrameKeeps
  <1>4. CASE Resend
    BY <1>4, ResendKeeps
  <1>5. CASE GiveUp \/ OutOfSequence
    BY <1>5, FailKeeps
  <1>6. CASE Progress
    BY <1>6, ProgressKeeps
  <1>7. CASE ReadBegin
    BY <1>7, ReadBeginKeeps
  <1>8. CASE ReadFrame
    BY <1>8, ReadFrameKeeps
  <1>9. CASE ReadNothing
    BY <1>9, ReadNothingKeeps
  <1>10. ASSUME NEW n \in Quitters, Disconnect(n) PROVE IInv'
    BY <1>10, DisconnectKeeps, TransferAssumption
  <1>11. ASSUME NEW m \in Node, NEW n \in Node, Deliver(m, n) PROVE IInv'
    BY <1>11, DeliverKeeps
  <1>12. ASSUME NEW m \in Node, NEW n \in Node, Lose(m, n) PROVE IInv'
    BY <1>12, LoseKeeps
  <1> QED
    BY <1>1, <1>2, <1>3, <1>4, <1>5, <1>6, <1>7, <1>8, <1>9, <1>10, <1>11, <1>12 DEF Next

(* The inductive invariant, in every transfer that stays below the wrap. *)
THEOREM Invariance ==
    ASSUME BelowWrap
    PROVE  Spec => []IInv
  <1>1. Init => IInv
    BY InitGood
  <1>2. IInv /\ [Next]_vars => IInv'
    BY NextKeeps
  <1> QED
    BY <1>1, <1>2, PTL DEF Spec

-----------------------------------------------------------------------------
(* What follows *)

(* Below the wrap every variable keeps its type, and a burst lies within its
   message.                                                                 *)
THEOREM TypeCorrect ==
    ASSUME BelowWrap
    PROVE  Spec => []TypeOK
  <1>1. IInv => TypeOK
    <2> SUFFICES ASSUME IInv PROVE TypeOK
      OBVIOUS
    <2>1. \A n \in Node : GoodEnd(sock[n])
      BY TwoNodes DEF IInv, Ends
    <2> QED
      BY <2>1 DEF IInv, TypeOK, Ends, GoodEnd, GoodLines, GoodCall, GoodRest
  <1>2. Spec => []IInv
    BY Invariance
  <1> QED
    BY <1>1, <1>2, PTL

(* Below the wrap the ACKs on the line to the sender are numbered in the order
   they were sent, and none is ahead of what the receiver has heard, wherever
   the counters stood at first.                                             *)
THEOREM AcksAreHonest ==
    ASSUME BelowWrap
    PROVE  Spec => []AckHonest
  <1>1. IInv => AckHonest
    <2> SUFFICES ASSUME IInv,
                        NEW i \in DOMAIN net[Back], NEW j \in DOMAIN net[Back], i <= j,
                        net[Back][i].type = "ACK", net[Back][j].type = "ACK"
                 PROVE  /\ net[Back][i].seq <= net[Back][j].seq
                        /\ net[Back][j].seq <= Heard
      BY DEF AckHonest, Back, Heard
    <2>1. GoodBack(net[Back], Heard) /\ net[Back] \in Seq(Packet)
      BY StateFacts DEF IInv, Flow
    <2>2. i \in Nat /\ j \in Nat /\ net[Back][i].seq <= net[Back][i].seq
      <3>1. net[Back][i] \in Packet
        BY <2>1
      <3> QED
        BY <2>1, <3>1, PacketFacts, UndefFacts
    <2>3. CASE i = j
      BY <2>1, <2>2, <2>3 DEF GoodBack
    <2>4. CASE i < j
      BY <2>1, <2>4 DEF GoodBack
    <2> QED
      BY <2>2, <2>3, <2>4
  <1>2. Spec => []IInv
    BY Invariance
  <1> QED
    BY <1>1, <1>2, PTL

(* Below the wrap on_data takes frames in the order of their writing and none
   twice: a resent or a stale frame never gets in.                          *)
THEOREM TakenInOrder ==
    ASSUME BelowWrap
    PROVE  Spec => []DeliveredInOrder
  <1>1. IInv => DeliveredInOrder
    <2> SUFFICES ASSUME IInv PROVE Sorted(got \o Ring)
      BY DEF DeliveredInOrder, Delivered, Sorted, Ring
    <2>1. InOrder(got, Ring)
      BY DEF IInv, Flow
    <2> QED
      BY <2>1, StateFacts, SortedConcat DEF InOrder
  <1>2. Spec => []IInv
    BY Invariance
  <1> QED
    BY <1>1, <1>2, PTL

-----------------------------------------------------------------------------
(* Refinement *)

(* What a step does to the pipe: write() hands over frames, read() takes one,
   and every other step, a return of write included, does neither.          *)
LEMMA PipeStep ==
    ASSUME IInv, [Next]_vars
    PROVE  [Pipe!PipeNext]_<<Written, got>>
  <1>1. ASSUME NEW len \in Lens, WriteBegin(len) PROVE Pipe!Write
    <2>1. len \in Nat /\ len > 0
      BY TransferAssumption
    <2>2. w = NoWrite /\ w' = Burst(len, 0, 0) /\ UNCHANGED <<offered, got>>
          /\ offered + len <= MaxFrames
      BY <1>1 DEF IInv, GoodCall, WriteBegin
    <2>3. w.len = 0 /\ w'.len = len
      BY <2>1, <2>2, BurstCall DEF NoWrite
    <2>4. /\ offered' + w'.len = offered + len /\ offered + w.len = offered
          /\ offered + len \in Nat /\ offered + len > offered
      BY <2>1, <2>2, <2>3, NumFacts
    <2> QED
      BY <2>2, <2>4 DEF Pipe!Write
  <1>2. CASE ReadFrame
    <2>1. /\ Ring # <<>> /\ got' = Append(got, Head(Ring))
          /\ UNCHANGED <<w, offered>>
      BY <1>2 DEF ReadFrame, Ring
    <2>2. InOrder(got, Ring) /\ got \in Seq(Nat) /\ Ring \in Seq(Nat)
      BY StateFacts DEF IInv, Flow
    <2>3. Head(Ring) \in InRange(Ring)
      BY <2>1, <2>2, SortedTail DEF InOrder
    <2>4. Head(Ring) \in 1 .. offered + w.len
      BY <2>3 DEF IInv, Flow, GoodTaken, Written
    <2>5. \A i \in DOMAIN got : got[i] < Head(Ring)
      BY <2>2, <2>3 DEF InOrder, InRange
    <2>6. Pipe!Read(Head(Ring))
      BY <2>1, <2>5 DEF Pipe!Read
    <2> QED
      BY <2>4, <2>6 DEF Pipe!PipeNext
  <1>3. CASE \E ret \in {"OK", "TIMEOUT", "ACK_OUT_OF_SEQUENCE"} : Return(ret)
    <2>1. PICK ret \in {"OK", "TIMEOUT", "ACK_OUT_OF_SEQUENCE"} : Return(ret)
      BY <1>3
    <2>2. w'.len = 0 /\ offered' = offered + w.len /\ got' = got
      BY <2>1, ReturnGood DEF Return
    <2>3. offered' + w'.len = offered + w.len
      BY <2>2, NumFacts
    <2> QED
      BY <2>2, <2>3 DEF Written
  <1>4. CASE w'.len = w.len /\ UNCHANGED <<offered, got>>
    BY <1>4 DEF Written
  <1>5. CASE SendFrame
    <2>1. w'.len = w.len /\ UNCHANGED <<offered, got>>
      BY <1>5 DEF SendFrame, IInv, GoodCall
    <2> QED
      BY <2>1, <1>4
  <1>6. CASE Resend
    <2>1. w'.len = w.len /\ UNCHANGED <<offered, got>>
      BY <1>6 DEF Resend, Burst
    <2> QED
      BY <2>1, <1>4
  <1>7. CASE Progress
    <2>1. \/ Return("OK")
          \/ w'.len = w.len /\ UNCHANGED <<offered, got>>
      BY <1>7 DEF Progress, Burst
    <2> QED
      BY <2>1, <1>3, <1>4
  <1>8. CASE GiveUp \/ OutOfSequence
    BY <1>3, <1>8 DEF GiveUp, OutOfSequence
  <1>9. CASE ReadBegin \/ ReadNothing \/ \E n \in Quitters : Disconnect(n)
    BY <1>4, <1>9 DEF ReadBegin, ReadNothing, Disconnect
  <1>10. CASE \E m, n \in Node : Deliver(m, n) \/ Lose(m, n)
    BY <1>4, <1>10 DEF Deliver, Lose
  <1>11. CASE UNCHANGED vars
    BY <1>4, <1>11 DEF vars
  <1> QED
    BY <1>1, <1>2, <1>5, <1>6, <1>7, <1>8, <1>9, <1>10, <1>11 DEF Next, Pipe!PipeNext

(* Below the wrap a stream is an ordered pipe from write() to read(): what
   the application reads, however frames and ACKs are lost and bursts
   resent, is part of what was written, in that order and without
   repetition.                                                              *)
THEOREM StreamIsPipe ==
    ASSUME BelowWrap
    PROVE  Spec => ImplementsPipe
  <1>1. Init => Pipe!PipeInit
    <2> SUFFICES ASSUME Init PROVE Pipe!PipeInit
      OBVIOUS
    <2>1. w = NoWrite /\ offered = 0 /\ got = <<>>
      BY DEF Init
    <2> QED
      BY <2>1 DEF Pipe!PipeInit, NoWrite
  <1>2. IInv /\ [Next]_vars => [Pipe!PipeNext]_<<offered + w.len, got>>
    BY PipeStep DEF Written
  <1>3. Spec => []IInv
    BY Invariance
  <1> QED
    BY <1>1, <1>2, <1>3, PTL DEF Spec, ImplementsPipe, Pipe!PipeSpec

-----------------------------------------------------------------------------
(* When nothing is lost.  What an open receiver has not answered yet is still
   on its way, so write never takes patience for silence.                   *)

(* A timeout waits until nothing is under way, and the lines have room. *)
PatientLines == Patient /\ MaxFrames <= LineCap

Count == sock[Sender].sequence_number
LastAck == sock[Sender].last_recved_ack

Calm == losses = 0 /\ sock[Receiver].state = "OPEN"
Talking == Calm /\ sock[Sender].state = "OPEN"

OnlyAcks(b) == \A i \in DOMAIN b : b[i].type = "ACK"
OnlyData(f) == \A i \in DOMAIN f : f[i].type = "DATA"

(* The last ACK that was sent, where ack is the last one that was handled. *)
LastWord(b, ack) == IF b = <<>> THEN ack ELSE b[Len(b)].seq

(* The first frame of the burst, numbered after c, is on the line, and what may
   follow it there has not the number c; or it was handled and so moved what
   was heard away from c.                                                   *)
FirstOut(f, c) ==
    \E k \in DOMAIN f : f[k].seq = c + 1 /\ \A j \in DOMAIN f : j > k => f[j].seq # c
Moving(f, heard, c) ==
    FirstOut(f, c) \/ (heard # c /\ \A j \in DOMAIN f : f[j].seq # c)

(* While both ends are open: each frame that was sent is on its way or has its
   answer on its way, as long as neither has arrived, and the last answer
   tells what was heard.                                                    *)
Answered(f, b, sent) ==
    /\ OnlyData(f)
    /\ Len(f) + Len(b) <= sent
    /\ LastWord(b, LastAck) = Heard \/ w.sent = 0 \/ f # <<>>
    /\ w.sent > 0 => Moving(f, Heard, Count)

QuietInv ==
    /\ Calm => /\ OnlyAcks(net[Back]) /\ result.ret # "TIMEOUT"
               /\ w.active => Talking
    /\ Talking => Answered(net[Forward], net[Back], offered + w.pos + w.sent)

-----------------------------------------------------------------------------
(* Sequences of packets, again. *)
LEMMA AppendFacts ==
    ASSUME NEW S, NEW f \in Seq(S), NEW p \in S
    PROVE  LET g == Append(f, p)
           IN  /\ g \in Seq(S) /\ Len(g) = Len(f) + 1 /\ Len(f) \in Nat
               /\ DOMAIN g = DOMAIN f \cup {Len(f) + 1}
               /\ g # <<>> /\ g[Len(f) + 1] = p
               /\ \A i \in DOMAIN f : g[i] = f[i] /\ i \in Nat /\ 0 < i /\ i < Len(f) + 1
  OBVIOUS

LEMMA TailFacts ==
    ASSUME NEW S, NEW f \in Seq(S), f # <<>>
    PROVE  LET g == Tail(f)
           IN  /\ g \in Seq(S) /\ Len(g) = Len(f) - 1 /\ Len(f) \in Nat /\ Len(f) > 0
               /\ 1 \in DOMAIN f /\ Head(f) = f[1]
               /\ \A i \in DOMAIN g : i + 1 \in DOMAIN f /\ g[i] = f[i + 1] /\ i \in Nat /\ i > 0
               /\ \A i \in DOMAIN f : i \in Nat /\ (i = 1 \/ i - 1 \in DOMAIN g)
               /\ g = <<>> => Len(f) = 1
               /\ g # <<>> => g[Len(g)] = f[Len(f)]
  <1> DEFINE g == Tail(f)
  <1>1. /\ g \in Seq(S) /\ Len(g) = Len(f) - 1 /\ Len(f) \in Nat /\ Len(f) > 0
        /\ 1 \in DOMAIN f /\ Head(f) = f[1]
        /\ \A i \in DOMAIN g : i + 1 \in DOMAIN f /\ g[i] = f[i + 1] /\ i \in Nat /\ i > 0
        /\ \A i \in DOMAIN f : i \in Nat /\ (i = 1 \/ i - 1 \in DOMAIN g)
    OBVIOUS
  <1> HIDE DEF g
  <1>2. g = <<>> => Len(f) = 1
    BY <1>1
  <1>3. ASSUME g # <<>> PROVE g[Len(g)] = f[Len(f)]
    <2>1. Len(g) \in DOMAIN g /\ Len(g) + 1 = Len(f)
      BY <1>1, <1>3
    <2> QED
      BY <1>1, <2>1
  <1> QED
    BY <1>1, <1>2, <1>3 DEF g

(* What write has sent so far, of all messages. *)
LEMMA SentFacts ==
    ASSUME IInv
    PROVE  offered + w.pos + w.sent \in Nat /\ offered + w.pos + w.sent <= MaxFrames
  BY NumFacts

(* A frame of the burst leaves: its first, numbered after c, or a later one. *)
LEMMA MovingAppend ==
    ASSUME NEW f \in Seq(Packet), NEW p \in Packet, NEW heard, NEW c \in Nat, NEW i \in Nat,
           p.seq = c + i + 1, i > 0 => Moving(f, heard, c)
    PROVE  Moving(Append(f, p), heard, c)
  <1> DEFINE g == Append(f, p)
  <1>1. /\ DOMAIN g = DOMAIN f \cup {Len(f) + 1} /\ g[Len(f) + 1] = p /\ Len(f) \in Nat
        /\ \A j \in DOMAIN f : g[j] = f[j] /\ j \in Nat /\ j < Len(f) + 1
    BY AppendFacts
  <1>2. p.seq # c
    <2>1. c + i + 1 # c
      OBVIOUS
    <2> QED
      BY <2>1
  <1> HIDE DEF g
  <1>3. CASE i = 0
    <2>1. p.seq = c + 1
      BY <1>3
    <2>2. \A j \in DOMAIN g : ~(j > Len(f) + 1)
      BY <1>1
    <2> QED
      BY <1>1, <2>1, <2>2 DEF Moving, FirstOut, g
  <1>4. CASE i > 0
    <2>1. CASE FirstOut(f, c)
      <3>1. PICK k \in DOMAIN f : f[k].seq = c + 1 /\ \A j \in DOMAIN f : j > k => f[j].seq # c
        BY <2>1 DEF FirstOut
      <3>2. k \in DOMAIN g /\ g[k].seq = c + 1 /\ \A j \in DOMAIN g : j > k => g[j].seq # c
        BY <1>1, <1>2, <3>1
      <3> QED
        BY <3>2 DEF Moving, FirstOut, g
    <2>2. CASE heard # c /\ \A j \in DOMAIN f : f[j].seq # c
      BY <1>1, <1>2, <2>2 DEF Moving, g
    <2> QED
      BY <1>4, <2>1, <2>2 DEF Moving
  <1> QED
    BY <1>3, <1>4

(* The oldest frame is handled: it is taken if it is the next. *)
LEMMA MovingTail ==
    ASSUME NEW f \in Seq(Packet), f # <<>>, NEW heard \in Nat, NEW c \in Nat, NEW heard2,
           Moving(f, heard, c),
           \/ Head(f).seq = heard + 1 /\ heard2 = Head(f).seq
           \/ Head(f).seq # heard + 1 /\ heard2 = heard
    PROVE  Moving(Tail(f), heard2, c)
  <1> DEFINE g == Tail(f)
  <1>1. /\ 1 \in DOMAIN f /\ Head(f) = f[1]
        /\ \A i \in DOMAIN g : i + 1 \in DOMAIN f /\ g[i] = f[i + 1] /\ i \in Nat /\ i > 0
        /\ \A i \in DOMAIN f : i \in Nat /\ (i = 1 \/ i - 1 \in DOMAIN g)
    BY TailFacts
  <1> SUFFICES Moving(g, heard2, c)
    OBVIOUS
  <1> HIDE DEF g
  <1>2. ASSUME NEW k \in DOMAIN f, f[k].seq = c + 1, \A j \in DOMAIN f : j > k => f[j].seq # c
        PROVE  Moving(g, heard2, c)
    <2>1. CASE k = 1
      <3>1. \A j \in DOMAIN g : g[j].seq # c
        BY <1>1, <1>2, <2>1
      <3>2. heard2 # c
        <4>1. c + 1 # c
          OBVIOUS
        <4>2. Head(f).seq = c + 1
          BY <1>1, <1>2, <2>1
        <4>3. CASE Head(f).seq # heard + 1 /\ heard2 = heard
          BY <4>2, <4>3
        <4> QED
          BY <4>1, <4>2, <4>3
      <3> QED
        BY <3>1, <3>2 DEF Moving
    <2>2. CASE k # 1
      <3>1. k - 1 \in DOMAIN g /\ k \in Nat /\ (k - 1) + 1 = k
        BY <1>1, <1>2, <2>2
      <3>2. g[k - 1].seq = c + 1
        BY <1>1, <1>2, <3>1
      <3>3. ASSUME NEW j \in DOMAIN g, j > k - 1 PROVE g[j].seq # c
        <4>1. j + 1 \in DOMAIN f /\ j + 1 > k /\ g[j] = f[j + 1]
          BY <1>1, <3>1, <3>3
        <4> QED
          BY <1>2, <4>1
      <3> QED
        BY <3>1, <3>2, <3>3 DEF Moving, FirstOut
    <2> QED
      BY <2>1, <2>2
  <1>3. CASE heard # c /\ \A j \in DOMAIN f : f[j].seq # c
    <2>1. \A j \in DOMAIN g : g[j].seq # c
      BY <1>1, <1>3
    <2>2. heard2 # c
      BY <1>1, <1>3
    <2> QED
      BY <2>1, <2>2 DEF Moving
  <1> QED
    BY <1>2, <1>3 DEF Moving, FirstOut

-----------------------------------------------------------------------------
(* A step that leaves the sender, what was heard and the lines alone. *)
LEMMA QuietSame ==
    ASSUME QuietInv, UNCHANGED <<net, w, offered, result, losses>>,
           sock'[Sender] = sock[Sender],
           Heard' = Heard, sock'[Receiver].state = sock[Receiver].state
    PROVE  QuietInv'
  <1>1. Count' = Count /\ LastAck' = LastAck /\ (Calm' <=> Calm) /\ (Talking' <=> Talking)
    BY DEF Count, LastAck, Calm, Talking
  <1> QED
    BY <1>1 DEF QuietInv, Answered

(* A step of write that leaves the lines alone and begins a burst anew or ends. *)
LEMMA QuietBurst ==
    ASSUME QuietInv, UNCHANGED <<net, losses>>,
           sock'[Receiver] = sock[Receiver], sock'[Sender].state = sock[Sender].state,
           Calm => sock[Sender].state = "OPEN",
           w'.sent = 0, Calm => result'.ret # "TIMEOUT",
           Talking => Len(net[Forward]) + Len(net[Back]) <= offered' + w'.pos + w'.sent
    PROVE  QuietInv'
  <1>1. (Calm' <=> Calm) /\ (Talking' <=> Talking) /\ ~(w'.sent > 0)
    BY DEF Calm, Talking
  <1>2. Talking' => Answered(net[Forward], net[Back], offered + w.pos + w.sent)'
    BY <1>1 DEF QuietInv, Answered
  <1>3. Calm' => OnlyAcks(net'[Back]) /\ result'.ret # "TIMEOUT" /\ Talking'
    BY <1>1 DEF QuietInv, Calm, Talking
  <1> QED
    BY <1>2, <1>3 DEF QuietInv

(* Where a burst is over while both ends are open: its last frame was heard. *)
LEMMA BurstHeard ==
    ASSUME IInv, QuietInv, PatientLines, Calm, BurstOver
    PROVE  /\ Talking /\ w.sent = w.n /\ w.n > 0 /\ w.n \in Nat
           /\ LastAck # Count
           /\ LastAck = Count + w.n \/ (net = EmptyLines /\ LastAck = Heard)
  <1>1. /\ w.active /\ w.sent = w.n /\ w.n > 0 /\ w.n \in Nat
        /\ LastAck = SlotSeq(w.n - 1) \/ net = EmptyLines
    BY NumFacts DEF BurstOver, MayTimeOut, PatientLines, IInv, GoodCall, LastAck
  <1>2. Talking /\ Answered(net[Forward], net[Back], offered + w.pos + w.sent)
    BY <1>1 DEF QuietInv
  <1>3. CASE LastAck = SlotSeq(w.n - 1)
    <2>1. w.n - 1 \in 0 .. w.n - 1
      BY <1>1
    <2>2. LastAck = Count + (w.n - 1) + 1
      BY <1>3, <2>1, SlotSeqIs DEF Count
    <2>3. Count \in Nat
      BY NumFacts DEF Count
    <2> QED
      BY <1>1, <1>2, <2>2, <2>3
  <1>4. CASE net = EmptyLines
    <2>1. net[Forward] = <<>> /\ net[Back] = <<>>
      BY <1>4, TwoNodes DEF EmptyLines
    <2>2. LastAck = Heard
      BY <1>1, <1>2, <2>1 DEF Answered, LastWord
    <2>3. Moving(<<>>, Heard, Count)
      BY <1>1, <1>2, <2>1 DEF Answered
    <2>4. Heard # Count
      BY <2>3 DEF Moving, FirstOut
    <2> QED
      BY <1>1, <1>2, <1>4, <2>2, <2>4
  <1> QED
    BY <1>1, <1>3, <1>4

LEMMA QuietWriteBegin ==
    ASSUME IInv, QuietInv, NEW len \in Lens, WriteBegin(len)
    PROVE  QuietInv'
  <1>1. /\ UNCHANGED <<sock, net, offered, result, losses>>
        /\ sock[Sender].state = "OPEN" /\ w = NoWrite
        /\ w'.sent = 0 /\ w'.pos = 0
    BY DEF WriteBegin, Burst, IInv, GoodCall
  <1>2. offered + w.pos + w.sent = offered' + w'.pos + w'.sent
    BY <1>1, NumFacts DEF NoWrite
  <1> QED
    BY <1>1, <1>2, QuietBurst DEF QuietInv, Answered

(* Nothing is repeated and no write gives up, while the receiver is there. *)
LEMMA QuietSilent ==
    ASSUME IInv, QuietInv, PatientLines, Resend \/ GiveUp
    PROVE  QuietInv' /\ ~Calm
  <1>1. ~Calm
    BY BurstHeard DEF Resend, GiveUp, Silent, LastAck, Count
  <1>2. UNCHANGED <<sock, losses>>
    BY DEF Resend, GiveUp, Return
  <1>3. ~Calm' /\ ~Talking' /\ ~Talking
    BY <1>1, <1>2 DEF Calm, Talking
  <1> QED
    BY <1>1, <1>3 DEF QuietInv

(* Two empty lines hold no more than was sent. *)
LEMMA Zero == \A x \in Nat : 0 + 0 <= x + 0 + 0
  OBVIOUS

LEMMA QuietOutOfSequence ==
    ASSUME IInv, QuietInv, PatientLines, OutOfSequence
    PROVE  QuietInv'
  <1>1. /\ UNCHANGED <<sock, net, losses>> /\ w' = NoWrite /\ BurstOver
        /\ ~FrameFound(LastAck) /\ result'.ret = "ACK_OUT_OF_SEQUENCE"
    BY DEF OutOfSequence, Return, LastAck
  <1>2. Calm => net = EmptyLines
    <2> SUFFICES ASSUME Calm, LastAck = Count + w.n PROVE FALSE
      BY <1>1, BurstHeard
    <2>1. w.n > 0 /\ w.n \in Nat
      BY <1>1, BurstHeard
    <2>2. w.n - 1 \in 0 .. w.n - 1
      BY <2>1
    <2>3. SlotSeq(w.n - 1) = Count + (w.n - 1) + 1 /\ Count \in Nat
      BY <2>2, SlotSeqIs, NumFacts DEF Count
    <2>4. SlotSeq(w.n - 1) = LastAck /\ w.n - 1 < w.n
      BY <2>1, <2>3
    <2> QED
      BY <1>1, <2>2, <2>4 DEF FrameFound, MatchesFrame
  <1>3. Calm => Talking
    BY <1>1, BurstHeard
  <1>4. /\ w'.sent = 0 /\ w'.pos = 0
    BY <1>1 DEF NoWrite
  <1>5. offered' \in Nat
    BY NumFacts DEF OutOfSequence, Return
  <1>6. Talking => Len(net[Forward]) + Len(net[Back]) <= offered' + w'.pos + w'.sent
    <2> SUFFICES ASSUME net = EmptyLines
                 PROVE  Len(net[Forward]) + Len(net[Back]) <= offered' + w'.pos + w'.sent
      BY <1>2 DEF Talking
    <2>1. net[Forward] = <<>> /\ net[Back] = <<>>
      BY TwoNodes DEF EmptyLines
    <2>2. Len(net[Forward]) = 0 /\ Len(net[Back]) = 0
      BY <2>1
    <2> QED
      BY <1>4, <1>5, <2>2, Zero
  <1> QED
    BY <1>1, <1>3, <1>4, <1>6, QuietBurst DEF Talking

(* An acknowledged burst is over, or the lines are empty. *)
LEMMA QuietProgress ==
    ASSUME IInv, QuietInv, PatientLines, Progress
    PROVE  QuietInv'
  <1> DEFINE k == FrameSlot(LastAck)
  <1>1. /\ k \in 0 .. w.n - 1 /\ NextPos(LastAck) = w.pos + k + 1
        /\ sock' = [sock EXCEPT ![Sender].sequence_number = Count + k]
    BY ProgressIs DEF LastAck, Count
  <1>2. /\ BurstOver /\ UNCHANGED <<net, losses>>
        /\ FrameFound(LastAck) \/ EmptyFound(LastAck)
        /\ \/ /\ NextPos(LastAck) = w.len
              /\ w' = NoWrite /\ offered' = offered + w.len /\ result'.ret = "OK"
           \/ /\ w' = Burst(w.len, NextPos(LastAck), w.noack)
              /\ offered' = offered /\ result' = result
    BY DEF Progress, Return, LastAck
  <1>3. /\ sock'[Receiver] = sock[Receiver] /\ sock'[Sender].state = sock[Sender].state
    <2>1. sock \in [Node -> Socket]
      BY DEF IInv, Ends
    <2>2. "sequence_number" # "state"
      OBVIOUS
    <2> QED
      BY <1>1, <2>1, <2>2, TwoNodes
  <1>4. Calm => Talking
    <2>1. BurstOver
      BY <1>2
    <2> QED
      BY <2>1, BurstHeard
  <1>5. /\ w'.sent = 0 /\ offered' + w'.pos + w'.sent = offered + w.pos + k + 1
    <2> SUFFICES /\ w'.sent = 0
                 /\ offered' + w'.pos + 0 = offered + w.pos + k + 1
      OBVIOUS
    <2> HIDE DEF k
    <2>1. CASE NextPos(LastAck) = w.len /\ w' = NoWrite /\ offered' = offered + w.len
      <3>1. w'.sent = 0 /\ w'.pos = 0
        BY <2>1 DEF NoWrite
      <3>2. k \in Nat /\ w.len = w.pos + k + 1
        BY <1>1, <2>1, NumFacts
      <3> QED
        BY <2>1, <3>1, <3>2, NumFacts
    <2>2. CASE w' = Burst(w.len, NextPos(LastAck), w.noack) /\ offered' = offered
      <3>1. w'.sent = 0 /\ w'.pos = w.pos + k + 1
        BY <1>1, <2>2 DEF Burst
      <3>2. k \in Nat
        BY <1>1, NumFacts
      <3> QED
        BY <2>2, <3>1, <3>2, NumFacts
    <2> QED
      BY <1>2, <2>1, <2>2
  <1> HIDE DEF k
  <1>6. k \in Nat /\ offered + w.pos + k + 1 \in Nat
    BY <1>1, NumFacts
  <1>7. Talking => Len(net[Forward]) + Len(net[Back]) <= offered' + w'.pos + w'.sent
    <2> SUFFICES ASSUME Talking
                 PROVE  Len(net[Forward]) + Len(net[Back]) <= offered + w.pos + k + 1
      BY <1>5
    <2>0. BurstOver
      BY <1>2
    <2>1. Calm
      BY DEF Talking
    <2>2. CASE LastAck = Count + w.n
      <3>1. k = w.n - 1
        <4>1. FrameFound(LastAck)
          <5>1. ~EmptyFound(LastAck)
            BY NumFacts DEF EmptyFound, LastAck
          <5> QED
            BY <1>2, <5>1
        <4>2. SlotSeq(k) = LastAck
          BY <4>1 DEF FrameFound, FrameSlot, MatchesFrame, k
        <4>3. SlotSeq(k) = Count + k + 1 /\ Count \in Nat
          BY <1>1, SlotSeqIs, NumFacts DEF Count, k
        <4> QED
          BY <1>6, <2>2, <4>2, <4>3, NumFacts
      <3>2. Len(net[Forward]) + Len(net[Back]) <= offered + w.pos + w.sent
        BY DEF QuietInv, Answered
      <3>3. w.sent = w.n
        BY <2>0, <2>1, BurstHeard
      <3>4. offered + w.pos + w.sent = offered + w.pos + k + 1
        BY <3>1, <3>3, NumFacts
      <3> QED
        BY <3>2, <3>4
    <2>3. CASE net = EmptyLines
      <3>1. net[Forward] = <<>> /\ net[Back] = <<>>
        BY <2>3, TwoNodes DEF EmptyLines
      <3>2. Len(net[Forward]) = 0 /\ Len(net[Back]) = 0
        BY <3>1
      <3> QED
        BY <1>6, <3>2
    <2> QED
      BY <2>0, <2>1, <2>2, <2>3, BurstHeard
  <1>8. Calm => result'.ret # "TIMEOUT"
    BY <1>2 DEF QuietInv
  <1> QED
    BY <1>2, <1>3, <1>4, <1>5, <1>7, <1>8, QuietBurst DEF Talking

(* A frame leaves; the lines have room for it. *)
LEMMA FrameLeaves ==
    ASSUME IInv, QuietInv, PatientLines, SendFrame
    PROVE  LET p == DataPacket(w.sent)
           IN  /\ p \in Packet /\ p.type = "DATA"
               /\ p.seq = Count + w.sent + 1 /\ p.arg = offered + w.pos + w.sent + 1
               /\ net'[Back] = net[Back]
               /\ Talking => net'[Forward] = Append(net[Forward], p)
  <1> DEFINE f == net[Forward]
             b == net[Back]
             p == DataPacket(w.sent)
             total == offered + w.pos + w.sent
  <1>1. w.active /\ w.sent < w.n /\ net' = Transmit(net, p)
    BY DEF SendFrame
  <1>2. /\ p \in Packet /\ Forward = <<p.src, p.dst>> /\ p.type = "DATA"
        /\ p.seq = Count + w.sent + 1 /\ p.arg = offered + w.pos + w.sent + 1
    <2>1. w.sent \in 0 .. w.n - 1
      BY <1>1, NumFacts
    <2>2. SlotSeq(w.sent) = Count + w.sent + 1
      BY <2>1, SlotSeqIs DEF Count
    <2>3. p.seq = SlotSeq(w.sent) /\ p.arg = offered + w.pos + w.sent + 1
      BY DEF DataPacket, ToRemote
    <2> QED
      BY <1>1, <2>2, <2>3, DataPacketIs
  <1> HIDE DEF p
  <1>3. net'[Back] = b
    BY <1>1, <1>2, TransmitOn, TwoNodes DEF IInv
  <1>4. ASSUME Talking PROVE net'[Forward] = Append(f, p)
    <2>1. Len(f) < LineCap
      <3>1. Len(f) \in Nat /\ Len(b) \in Nat
        BY StateFacts
      <3>2. Len(f) + Len(b) <= total
        BY <1>4 DEF QuietInv, Answered
      <3>3. MaxFrames \in Nat /\ LineCap \in Nat /\ MaxFrames <= LineCap
        BY TransferAssumption, LineCapAssumption DEF PatientLines
      <3>4. total \in Nat /\ total < MaxFrames
        BY <1>1, NumFacts
      <3> HIDE DEF total, f, b
      <3> QED
        BY <3>1, <3>2, <3>3, <3>4
    <2>2. Forward \in Route
      BY TwoNodes
    <2> QED
      BY <1>1, <1>2, <2>1, <2>2 DEF Transmit
  <1> QED
    BY <1>2, <1>3, <1>4 DEF p

LEMMA QuietSendFrame ==
    ASSUME IInv, QuietInv, PatientLines, SendFrame
    PROVE  QuietInv'
  <1> DEFINE f == net[Forward]
             b == net[Back]
             p == DataPacket(w.sent)
             total == offered + w.pos + w.sent
  <1>1. /\ w.active /\ w.sent < w.n
        /\ net' = Transmit(net, p) /\ w' = [w EXCEPT !.sent = @ + 1]
        /\ UNCHANGED <<sock, offered, result, losses>>
    BY DEF SendFrame
  <1>2. /\ p \in Packet /\ p.type = "DATA" /\ p.seq = Count + w.sent + 1
        /\ net'[Back] = b
        /\ Talking => net'[Forward] = Append(f, p)
    BY FrameLeaves
  <1> HIDE DEF p
  <1>3. Count' = Count /\ Heard' = Heard /\ LastAck' = LastAck
        /\ (Calm' <=> Calm) /\ (Talking' <=> Talking)
    BY <1>1 DEF Count, Heard, LastAck, Calm, Talking
  <1>4. /\ w'.active /\ w'.sent = w.sent + 1 /\ w'.pos = w.pos /\ w.sent \in Nat
        /\ w'.sent > 0 /\ total \in Nat /\ total < MaxFrames
        /\ offered' + w'.pos + w'.sent = total + 1
    <2>1. w'.active /\ w'.sent = w.sent + 1 /\ w'.pos = w.pos
      BY <1>1 DEF IInv, GoodCall
    <2> QED
      BY <1>1, <2>1, NumFacts
  <1>6. ASSUME Talking
        PROVE  Answered(net[Forward], net[Back], offered + w.pos + w.sent)'
    <2>1. Answered(f, b, total)
      BY <1>6 DEF QuietInv
    <2>2. f \in Seq(Packet) /\ b \in Seq(Packet) /\ Count \in Nat
      BY StateFacts, NumFacts DEF Count
    <2>3. net'[Forward] = Append(f, p)
      BY <1>2, <1>6
    <2> HIDE DEF f, b
    <2> DEFINE g == Append(f, p)
    <2>4. /\ Len(g) = Len(f) + 1 /\ Len(f) \in Nat /\ Len(b) \in Nat
          /\ DOMAIN g = DOMAIN f \cup {Len(f) + 1}
          /\ g # <<>> /\ g[Len(f) + 1] = p
          /\ \A i \in DOMAIN f : g[i] = f[i]
      BY <1>2, <2>2, AppendFacts
    <2>5. Moving(g, Heard, Count)
      BY <1>2, <1>4, <2>1, <2>2, MovingAppend DEF Answered
    <2> HIDE DEF g
    <2>6. OnlyData(g)
      BY <1>2, <2>1, <2>4 DEF Answered, OnlyData
    <2>7. Len(g) + Len(b) <= total + 1
      <3>1. Len(f) + Len(b) <= total /\ total \in Nat
        BY <1>4, <2>1 DEF Answered
      <3> HIDE DEF total
      <3> QED
        BY <2>4, <3>1
    <2>8. net'[Forward] = g /\ net'[Back] = b
      BY <1>2, <2>3 DEF g, f, b
    <2> QED
      BY <1>3, <1>4, <2>4, <2>5, <2>6, <2>7, <2>8 DEF Answered
  <1>7. Calm' => OnlyAcks(net'[Back]) /\ result'.ret # "TIMEOUT" /\ Talking'
    BY <1>1, <1>2, <1>3 DEF QuietInv
  <1>8. Talking' => Answered(net[Forward], net[Back], offered + w.pos + w.sent)'
    BY <1>3, <1>6
  <1> QED
    BY <1>7, <1>8 DEF QuietInv

(* The receiver answers what it is handed, as long as it is open. *)
LEMMA ReceiverIs ==
    ASSUME NEW s, GoodEnd(s), s.remote = Sender, s.remote_sequence < SeqMod - 1,
           NEW p \in Packet, p.src = Sender, p.type \in {"DATA", "CLOSE"}
    PROVE  LET t == Received(Receiver, s, p)
           IN  /\ t.state = "OPEN" => s.state = "OPEN" /\ p.type = "DATA"
               /\ s.state = "OPEN" /\ p.type = "DATA" =>
                     /\ t.state = "OPEN"
                     /\ \/ p.seq = s.remote_sequence + 1 /\ t = Accept(s, p)
                        \/ p.seq # s.remote_sequence + 1 /\ t = s
  <1> DEFINE t == Received(Receiver, s, p)
  <1>1. /\ s.state = "OPEN" => t = OpenOnData(s, p, s.remote_sequence + 1)
        /\ s.state = "CLOSED" => t = s
        /\ s.state \in {"OPEN", "CLOSED"} /\ s \in Socket
    BY ReceivedIs, TwoNodes DEF GoodEnd
  <1>2. CASE s.state = "OPEN" /\ p.type = "CLOSE"
    <2>1. t = [s EXCEPT !.state = "CLOSED"]
      BY <1>1, <1>2 DEF OpenOnData
    <2> QED
      BY <1>1, <1>2, <2>1 DEF Socket
  <1>3. CASE s.state = "OPEN" /\ p.type = "DATA" /\ p.seq = s.remote_sequence + 1
    <2>1. t = Accept(s, p)
      BY <1>1, <1>3 DEF OpenOnData
    <2>2. t.state = s.state
      BY <1>1, <2>1 DEF Accept, Socket
    <2> QED
      BY <1>3, <2>1, <2>2
  <1>4. CASE s.state = "OPEN" /\ p.type = "DATA" /\ p.seq # s.remote_sequence + 1
    <2>1. t = s
      BY <1>1, <1>4 DEF OpenOnData
    <2> QED
      BY <1>4, <2>1
  <1>5. CASE s.state = "CLOSED"
    BY <1>1, <1>5
  <1> QED
    BY <1>1, <1>2, <1>3, <1>4, <1>5

(* The receiver handles a packet and stays open: it was a frame, and an ACK of
   what is heard then is its answer.                                        *)
LEMMA HandledForward ==
    ASSUME IInv, Deliver(Sender, Receiver), net[Forward] # <<>>, Calm'
    PROVE  LET p == Head(net[Forward])
               a == AckPacket(Receiver, sock'[Receiver])
           IN  /\ Calm /\ (Talking' <=> Talking) /\ sock'[Sender] = sock[Sender]
               /\ UNCHANGED <<w, offered, result, reading, got, losses>>
               /\ p \in Packet /\ p.type = "DATA"
               /\ \/ p.seq = Heard + 1 /\ sock'[Receiver] = Accept(sock[Receiver], p)
                  \/ p.seq # Heard + 1 /\ sock'[Receiver] = sock[Receiver]
               /\ a \in Packet /\ a.type = "ACK" /\ a.seq = Heard'
               /\ net'[Forward] = Tail(net[Forward])
               /\ net'[Back] = IF Len(net[Back]) < LineCap THEN Append(net[Back], a)
                                                         ELSE net[Back]
  <1> DEFINE p == Head(net[Forward])
             s == sock[Receiver]
             t == Received(Receiver, s, p)
             a == AckPacket(Receiver, sock'[Receiver])
  <1>1. /\ sock' = [sock EXCEPT ![Receiver] = t]
        /\ net' = LinesAfter(net, Forward, Receiver, s, p)
        /\ UNCHANGED <<w, offered, result, reading, got, losses>>
    BY DEF Deliver, Forward
  <1>2. /\ p \in Packet /\ p.src = Sender /\ p.type \in {"DATA", "CLOSE"}
    <2>1. net[Forward] \in Seq(Packet) /\ GoodForward(net[Forward], Written, SenderPhase)
      BY StateFacts DEF IInv, Flow
    <2>2. 1 \in DOMAIN net[Forward] /\ p = net[Forward][1] /\ p \in Packet
      BY <2>1
    <2> QED
      BY <2>1, <2>2 DEF GoodForward
  <1>3. GoodEnd(s) /\ s.remote = Sender /\ s.remote_sequence < SeqMod - 1
        /\ s.remote_sequence = Heard
    BY DEF IInv, Ends, Counters, Heard
  <1>4. sock'[Receiver] = t /\ sock'[Sender] = sock[Sender]
    BY <1>1, TwoNodes DEF IInv, Ends
  <1>5. /\ s.state = "OPEN" /\ p.type = "DATA"
        /\ \/ p.seq = Heard + 1 /\ t = Accept(s, p)
           \/ p.seq # Heard + 1 /\ t = s
    <2>1. t.state = "OPEN"
      BY <1>4 DEF Calm
    <2> HIDE DEF p, s, t
    <2> QED
      BY <1>2, <1>3, <2>1, ReceiverIs DEF t
  <1>6. Calm /\ (Talking' <=> Talking)
    BY <1>1, <1>4, <1>5 DEF Calm, Talking
  <1>7. /\ GoodEnd(t) /\ t.remote = Sender
    BY <1>2, <1>3, ReceiverTakes
  <1> HIDE DEF t
  <1>8. /\ a \in Packet /\ a.src = Receiver /\ a.dst = Sender /\ a.type = "ACK"
        /\ a.seq = Heard'
    BY <1>4, <1>7, TwoNodes
    DEF AckPacket, ToRemote, Packet, MessageType, Address, GoodEnd, Socket, Heard
  <1>9. net' = Transmit(Consume(net, Forward), a)
    BY <1>1, <1>4, <1>5 DEF LinesAfter, Acknowledges, t
  <1> DEFINE lines == Consume(net, Forward)
  <1>10. /\ GoodLines(lines) /\ lines[Forward] = Tail(net[Forward]) /\ lines[Back] = net[Back]
    BY ConsumeOn, TwoNodes DEF IInv
  <1> HIDE DEF lines, a
  <1>11. /\ net'[Forward] = lines[Forward]
         /\ net'[Back] = IF Len(lines[Back]) < LineCap THEN Append(lines[Back], a) ELSE lines[Back]
    BY <1>8, <1>9, TwoNodes DEF Transmit, Forward, Back, lines
  <1> QED
    BY <1>1, <1>2, <1>4, <1>5, <1>6, <1>8, <1>10, <1>11 DEF a

LEMMA QuietDeliverForward ==
    ASSUME IInv, QuietInv, PatientLines, Deliver(Sender, Receiver), net[Forward] # <<>>
    PROVE  QuietInv'
  <1> DEFINE f == net[Forward]
             b == net[Back]
             p == Head(f)
             a == AckPacket(Receiver, sock'[Receiver])
             total == offered + w.pos + w.sent
  <1> SUFFICES ASSUME Calm' PROVE QuietInv'
    BY DEF QuietInv, Talking
  <1>1. /\ Calm /\ (Talking' <=> Talking) /\ sock'[Sender] = sock[Sender]
        /\ UNCHANGED <<w, offered, result>>
        /\ p \in Packet /\ p.type = "DATA"
        /\ \/ p.seq = Heard + 1 /\ sock'[Receiver] = Accept(sock[Receiver], p)
           \/ p.seq # Heard + 1 /\ sock'[Receiver] = sock[Receiver]
        /\ a \in Packet /\ a.type = "ACK" /\ a.seq = Heard'
        /\ net'[Forward] = Tail(f)
        /\ net'[Back] = IF Len(b) < LineCap THEN Append(b, a) ELSE b
    BY HandledForward
  <1>2. \/ p.seq = Heard + 1 /\ Heard' = p.seq
        \/ p.seq # Heard + 1 /\ Heard' = Heard
    <2>1. sock[Receiver] \in Socket
      BY StateFacts
    <2> QED
      BY <1>1, <2>1 DEF Accept, Socket, Heard
  <1>3. /\ f \in Seq(Packet) /\ f # <<>> /\ b \in Seq(Packet)
        /\ Count \in Nat /\ Heard \in Nat
    BY StateFacts, NumFacts DEF Count
  <1> HIDE DEF a, p
  <1>4. /\ Len(Append(b, a)) = Len(b) + 1 /\ Append(b, a) # <<>>
        /\ Len(b) \in Nat /\ Append(b, a)[Len(b) + 1] = a
        /\ DOMAIN Append(b, a) = DOMAIN b \cup {Len(b) + 1}
        /\ \A i \in DOMAIN b : Append(b, a)[i] = b[i]
    BY <1>1, <1>3, AppendFacts
  <1>5. /\ Len(Tail(f)) = Len(f) - 1 /\ Len(f) \in Nat /\ Len(f) > 0
        /\ \A i \in DOMAIN Tail(f) : i + 1 \in DOMAIN f /\ Tail(f)[i] = f[i + 1]
    BY <1>3, TailFacts
  <1>6. Calm' => OnlyAcks(net'[Back]) /\ result'.ret # "TIMEOUT" /\ (w'.active => Talking')
    <2>1. OnlyAcks(b) /\ result.ret # "TIMEOUT" /\ (w.active => Talking)
      BY <1>1 DEF QuietInv
    <2>2. OnlyAcks(Append(b, a))
      BY <1>1, <1>4, <2>1 DEF OnlyAcks
    <2> QED
      BY <1>1, <2>1, <2>2
  <1>7. ASSUME Talking
        PROVE  Answered(net[Forward], net[Back], offered + w.pos + w.sent)'
    <2>1. Answered(f, b, total)
      BY <1>7 DEF QuietInv
    <2>2. Len(f) + Len(b) <= total /\ total \in Nat /\ total <= MaxFrames
      <3>1. Len(f) + Len(b) <= total
        BY <2>1 DEF Answered
      <3>2. total \in Nat /\ total <= MaxFrames
        BY SentFacts
      <3> QED
        BY <3>1, <3>2
    <2>3. MaxFrames \in Nat /\ LineCap \in Nat /\ MaxFrames <= LineCap
      BY TransferAssumption, LineCapAssumption DEF PatientLines
    <2> HIDE DEF total, f, b
    <2>4. Len(b) < LineCap
      BY <1>4, <1>5, <2>2, <2>3
    <2>5. net'[Back] = Append(b, a)
      BY <1>1, <2>4
    <2>6. Len(Tail(f)) + Len(Append(b, a)) <= total
      <3>1. (Len(f) - 1) + (Len(b) + 1) <= total
        BY <1>4, <1>5, <2>2
      <3> QED
        BY <1>4, <1>5, <3>1
    <2>7. OnlyData(Tail(f))
      BY <1>5, <2>1 DEF Answered, OnlyData
    <2>8. LastWord(Append(b, a), LastAck) = Heard'
      BY <1>1, <1>4 DEF LastWord
    <2>9. w.sent > 0 => Moving(Tail(f), Heard', Count)
      BY <1>2, <1>3, <2>1, MovingTail DEF Answered, p
    <2>10. Count' = Count /\ LastAck' = LastAck /\ w' = w /\ offered' = offered
      BY <1>1 DEF Count, LastAck
    <2>11. offered' + w'.pos + w'.sent = total
      BY <2>10 DEF total
    <2> QED
      BY <1>1, <2>5, <2>6, <2>7, <2>8, <2>9, <2>10, <2>11 DEF Answered
  <1> QED
    BY <1>1, <1>6, <1>7 DEF QuietInv

(* What the sender does with an ACK. *)
LEMMA SenderIs ==
    ASSUME NEW s, GoodEnd(s), s.remote = Receiver,
           NEW p \in Packet, p.src = Receiver, p.type = "ACK"
    PROVE  LET t == Received(Sender, s, p)
           IN  /\ t.state = s.state
               /\ s.state = "OPEN" => t.last_recved_ack = p.seq
  <1> DEFINE t == Received(Sender, s, p)
  <1>1. /\ s.state = "OPEN" => \E next : t = OpenOnData(s, p, next)
        /\ s.state = "CLOSED" => t = s
        /\ s.state \in {"OPEN", "CLOSED"} /\ s \in Socket
    <2>1. Dispatched(s, p) = s
      BY DEF Dispatched, GoodEnd, Socket
    <2> QED
      BY <2>1 DEF Received, ServerOnData, ClientOnData, GoodEnd
  <1>2. CASE s.state = "OPEN"
    <2>1. t = [s EXCEPT !.last_recved_ack = p.seq]
      BY <1>1, <1>2 DEF OpenOnData
    <2> QED
      BY <1>1, <2>1 DEF Socket
  <1> QED
    BY <1>1, <1>2

(* An ACK that is handled is then the last one handled. *)
LEMMA QuietDeliverBack ==
    ASSUME IInv, QuietInv, Deliver(Receiver, Sender), net[Back] # <<>>
    PROVE  QuietInv'
  <1> DEFINE f == net[Forward]
             b == net[Back]
             p == Head(b)
             s == sock[Sender]
             t == Received(Sender, s, p)
             total == offered + w.pos + w.sent
  <1>1. /\ sock' = [sock EXCEPT ![Sender] = t]
        /\ net' = LinesAfter(net, Back, Sender, s, p)
        /\ UNCHANGED <<w, offered, result, reading, got, losses>>
    BY DEF Deliver, Back
  <1>2. /\ b \in Seq(Packet) /\ p \in Packet /\ 1 \in DOMAIN b /\ b[1] = p
    BY StateFacts
  <1>3. p.src = Receiver /\ p.type \in {"ACK", "CLOSE"}
    BY <1>2 DEF GoodBack, IInv, Flow
  <1>4. sock'[Sender] = t /\ sock'[Receiver] = sock[Receiver]
    BY <1>1, TwoNodes DEF IInv, Ends
  <1>5. Calm' <=> Calm
    BY <1>1, <1>4 DEF Calm
  <1> SUFFICES ASSUME Calm PROVE QuietInv'
    BY <1>5 DEF QuietInv, Talking
  <1>6. p.type = "ACK" /\ OnlyAcks(b)
    BY <1>2 DEF QuietInv, OnlyAcks
  <1>7. /\ t.state = s.state /\ t.sequence_number = s.sequence_number
        /\ s.state = "OPEN" => t.last_recved_ack = p.seq
    <2>1. GoodEnd(s) /\ s.remote = Receiver
      BY DEF IInv, Ends
    <2> HIDE DEF s, p, t
    <2> QED
      BY <1>2, <1>3, <1>6, <2>1, SenderIs, SenderHears DEF t
  <1>8. net' = Consume(net, Back)
    BY <1>1, <1>6 DEF LinesAfter, Acknowledges
  <1> HIDE DEF t, p
  <1>9. /\ net'[Back] = Tail(b) /\ net'[Forward] = f
    BY <1>8, ConsumeOn, TwoNodes DEF IInv
  <1>10. (Talking' <=> Talking) /\ Heard' = Heard /\ Count' = Count
    BY <1>4, <1>5, <1>7 DEF Talking, Heard, Count
  <1>11. /\ Len(Tail(b)) = Len(b) - 1 /\ Len(b) \in Nat /\ Len(f) \in Nat
         /\ \A i \in DOMAIN Tail(b) : i + 1 \in DOMAIN b /\ Tail(b)[i] = b[i + 1]
    BY <1>2, TailFacts, StateFacts
  <1>12. OnlyAcks(net'[Back]) /\ result'.ret # "TIMEOUT" /\ (w'.active => Talking')
    BY <1>1, <1>6, <1>9, <1>10, <1>11 DEF QuietInv, OnlyAcks
  <1>13. ASSUME Talking
         PROVE  Answered(net[Forward], net[Back], offered + w.pos + w.sent)'
    <2>1. Answered(f, b, total)
      BY <1>13 DEF QuietInv
    <2>2. LastAck' = p.seq
      BY <1>4, <1>7, <1>13 DEF Talking, LastAck
    <2>3. LastWord(Tail(b), p.seq) = LastWord(b, LastAck)
      <3>1. /\ Tail(b) = <<>> => Len(b) = 1
            /\ Tail(b) # <<>> => Tail(b)[Len(Tail(b))] = b[Len(b)]
        BY <1>2, TailFacts
      <3> QED
        BY <1>2, <3>1 DEF LastWord
    <2>4. Len(f) + Len(Tail(b)) <= total
      <3>1. Len(f) + Len(b) <= total
        BY <2>1 DEF Answered
      <3>2. total \in Nat
        BY SentFacts
      <3> HIDE DEF total, f, b
      <3> QED
        BY <1>11, <3>1, <3>2
    <2>5. w' = w /\ offered' = offered /\ offered' + w'.pos + w'.sent = total
      BY <1>1
    <2> HIDE DEF f, b, total
    <2> QED
      BY <1>9, <1>10, <2>1, <2>2, <2>3, <2>4, <2>5 DEF Answered
  <1> QED
    BY <1>10, <1>12, <1>13 DEF QuietInv

(* disconnect() and the third empty read end the calm, or the talk. *)
LEMMA QuietDisconnect ==
    ASSUME IInv, QuietInv, NEW n \in Node, Disconnect(n)
    PROVE  QuietInv'
  <1>1. /\ sock' = [sock EXCEPT ![n] = Disconnected(@)]
        /\ net' = Transmit(net, ClosePacket(n, sock[n]))
        /\ UNCHANGED <<w, offered, result, losses>>
        /\ n = Sender => ~w.active
    BY DEF Disconnect, LinesAfterDisconnect
  <1>2. sock'[n].state = "CLOSED" /\ \A m \in Node \ {n} : sock'[m] = sock[m]
    BY <1>1, TwoNodes DEF IInv, Ends, Socket, Disconnected
  <1>3. CASE n = Receiver
    <2>1. ~Calm' /\ ~Talking'
      BY <1>2, <1>3 DEF Calm, Talking
    <2> QED
      BY <2>1 DEF QuietInv
  <1>4. CASE n = Sender
    <2>1. ~Talking' /\ (Calm' <=> Calm)
      BY <1>1, <1>2, <1>4, TwoNodes DEF Calm, Talking
    <2>2. net'[Back] = net[Back]
      <3>1. ClosePacket(n, sock[n]).src = Sender
        BY <1>4 DEF ClosePacket, ToRemote
      <3> QED
        BY <1>1, <3>1, TwoNodes DEF Transmit, Back
    <2> QED
      BY <1>1, <1>4, <2>1, <2>2 DEF QuietInv
  <1> QED
    BY <1>3, <1>4, TwoNodes

LEMMA QuietReadNothing ==
    ASSUME IInv, QuietInv, ReadNothing
    PROVE  QuietInv'
  <1>1. UNCHANGED <<w, offered, result, got, losses>>
    BY DEF ReadNothing
  <1>2. CASE sock[Receiver].zero_read_count < 2
    <2>1. net' = net /\ sock' = [sock EXCEPT ![Receiver].zero_read_count = @ + 1]
      BY <1>2 DEF ReadNothing
    <2>2. /\ sock'[Sender] = sock[Sender] /\ Heard' = Heard
          /\ sock'[Receiver].state = sock[Receiver].state
      BY <2>1, TwoNodes DEF IInv, Ends, Socket, Heard
    <2> QED
      BY <1>1, <2>1, <2>2, QuietSame
  <1>3. CASE ~(sock[Receiver].zero_read_count < 2)
    <2>1. sock' = [sock EXCEPT ![Receiver] =
                     [Disconnected(sock[Receiver]) EXCEPT !.zero_read_count = 0]]
      BY <1>3 DEF ReadNothing
    <2>2. sock'[Receiver].state = "CLOSED"
      BY <2>1, TwoNodes DEF IInv, Ends, Socket, Disconnected
    <2>3. ~Calm' /\ ~Talking'
      BY <2>2 DEF Calm, Talking
    <2> QED
      BY <2>3 DEF QuietInv
  <1> QED
    BY <1>2, <1>3

LEMMA QuietRead ==
    ASSUME IInv, QuietInv, ReadBegin \/ ReadFrame
    PROVE  QuietInv'
  <1>1. UNCHANGED <<net, w, offered, result, losses>>
    BY DEF ReadBegin, ReadFrame
  <1>2. /\ sock'[Sender] = sock[Sender] /\ Heard' = Heard
        /\ sock'[Receiver].state = sock[Receiver].state
    <2>1. CASE ReadBegin
      BY <2>1 DEF ReadBegin, Heard
    <2>2. CASE ReadFrame
      <3>1. sock' = [sock EXCEPT ![Receiver].ringbuf = Tail(@)]
        BY <2>2 DEF ReadFrame
      <3> QED
        BY <3>1, TwoNodes DEF IInv, Ends, Socket, Heard
    <2> QED
      BY <2>1, <2>2
  <1> QED
    BY <1>1, <1>2, QuietSame

LEMMA QuietLose ==
    ASSUME IInv, NEW m \in Node, NEW n \in Node, Lose(m, n)
    PROVE  QuietInv' /\ ~Calm'
  <1>1. losses' = losses + 1 /\ losses \in Nat
    BY TransferAssumption DEF Lose, IInv, GoodRest
  <1>2. losses' # 0
    BY <1>1
  <1> QED
    BY <1>2 DEF QuietInv, Calm, Talking

LEMMA QuietInit ==
    ASSUME BelowWrap, Init
    PROVE  QuietInv
  <1>1. /\ net = EmptyLines /\ w = NoWrite /\ offered = 0
        /\ result = [ret |-> "none", first |-> 1, last |-> 0]
    BY DEF Init
  <1>2. net[Forward] = <<>> /\ net[Back] = <<>>
    BY <1>1, TwoNodes DEF EmptyLines
  <1>3. w.sent = 0 /\ w.pos = 0 /\ ~w.active
    BY <1>1 DEF NoWrite
  <1>4. OnlyAcks(net[Back]) /\ OnlyData(net[Forward])
    BY <1>2 DEF OnlyAcks, OnlyData
  <1>5. Len(net[Forward]) + Len(net[Back]) <= offered + w.pos + w.sent
    BY <1>1, <1>2, <1>3
  <1>6. ~(w.sent > 0)
    BY <1>3
  <1> QED
    BY <1>1, <1>3, <1>4, <1>5, <1>6 DEF QuietInv, Answered

LEMMA QuietStepKept ==
    ASSUME IInv, QuietInv, PatientLines, [Next]_vars
    PROVE  QuietInv'
  <1>1. CASE UNCHANGED vars
    BY <1>1, QuietSame DEF vars, Heard
  <1>2. ASSUME NEW len \in Lens, WriteBegin(len) PROVE QuietInv'
    BY <1>2, QuietWriteBegin
  <1>3. CASE SendFrame
    BY <1>3, QuietSendFrame
  <1>4. CASE Resend \/ GiveUp
    BY <1>4, QuietSilent
  <1>5. CASE OutOfSequence
    BY <1>5, QuietOutOfSequence
  <1>6. CASE Progress
    BY <1>6, QuietProgress
  <1>7. CASE ReadBegin \/ ReadFrame
    BY <1>7, QuietRead
  <1>8. CASE ReadNothing
    BY <1>8, QuietReadNothing
  <1>9. ASSUME NEW n \in Quitters, Disconnect(n) PROVE QuietInv'
    BY <1>9, QuietDisconnect, TransferAssumption
  <1>10. ASSUME NEW m \in Node, NEW n \in Node, Deliver(m, n) PROVE QuietInv'
    <2>1. net[<<m, n>>] # <<>>
      BY <1>10 DEF Deliver
    <2>2. \/ m = Sender /\ n = Receiver /\ net[Forward] # <<>>
          \/ m = Receiver /\ n = Sender /\ net[Back] # <<>>
      BY <2>1, UsedRoute DEF IInv, Forward, Back
    <2> QED
      BY <1>10, <2>2, QuietDeliverForward, QuietDeliverBack
  <1>11. ASSUME NEW m \in Node, NEW n \in Node, Lose(m, n) PROVE QuietInv'
    BY <1>11, QuietLose
  <1> QED
    BY <1>1, <1>2, <1>3, <1>4, <1>5, <1>6, <1>7, <1>8, <1>9, <1>10, <1>11 DEF Next

(* write() takes patience for silence never: when a timeout waits for the line, as
   its length is meant to, and no packet is lost, write returns TIMEOUT only
   to a receiver that has closed, whatever the counters were at first.      *)
THEOREM TimeoutsAreTrue ==
    ASSUME BelowWrap, PatientLines
    PROVE  Spec => []TimeoutMeansNoResponse
  <1>1. Init => QuietInv
    BY QuietInit
  <1>2. IInv /\ QuietInv /\ [Next]_vars => QuietInv'
    BY QuietStepKept
  <1>3. IInv /\ QuietInv => TimeoutMeansNoResponse
    <2> SUFFICES ASSUME IInv, QuietInv PROVE TimeoutMeansNoResponse
      OBVIOUS
    <2>1. losses \in Nat /\ sock[Receiver].state \in {"OPEN", "CLOSED"}
      BY TransferAssumption DEF IInv, GoodRest, Ends, GoodEnd
    <2> QED
      BY <2>1 DEF QuietInv, TimeoutMeansNoResponse, Calm
  <1>4. Spec => []IInv
    BY Invariance
  <1> QED
    BY <1>1, <1>2, <1>3, <1>4, PTL DEF Spec

-----------------------------------------------------------------------------
(* The first burst of a connection that starts in step.                     *)

(* The receiver expects the sender's first frame and has room for all, and the
   ACK that the sender keeps is not one of a number to come.                *)
StartsInStep ==
    /\ \A st \in Starts : st.heard = st.seq /\ st.ack <= st.heard
    /\ MaxFrames <= RingCap

(* Nothing but a message that fits a burst was written yet. *)
Opening == offered = 0 /\ w.len <= BurstSz

(* A burst takes all it may. *)
Clipped == w.active => w.n = Burst(w.len, w.pos, w.noack).n

(* No frame is before its place in the ring, which therefore never fills. *)
Spread(q) == \A i \in DOMAIN q : q[i] >= i

(* The frames of the first burst, numbered after c, of which sent are sent and
   those up to heard are heard: the first ones were taken, and the others are
   on the line f.                                                           *)
FirstFrames(f, taken, heard, c, sent) ==
    /\ heard >= c /\ Len(f) = sent - (heard - c)
    /\ \A i \in DOMAIN f : f[i].arg = heard - c + i /\ f[i].seq = heard + i
    /\ Len(taken) = heard - c
    /\ \A i \in DOMAIN taken : taken[i] = i

Begins ==
    Talking /\ Opening =>
        w.pos = 0 /\ FirstFrames(net[Forward], Delivered, Heard, Count, w.sent)

Kept ==
    Calm /\ result.ret = "OK" /\ result.first = 1 /\ result.last <= BurstSz =>
        1 .. result.last \subseteq InRange(Delivered)

FirstInv == Clipped /\ Spread(Ring) /\ Begins /\ Kept

(* The ACK that the sender keeps is not ahead of the receiver: then it is not
   taken for an answer that is still to come.                               *)
AckBehind == LastAck <= Heard

-----------------------------------------------------------------------------
(* What was taken, when a frame is read and when one comes. *)
LEMMA ConcatShift ==
    ASSUME NEW q \in Seq(Nat), NEW r \in Seq(Nat), r # <<>>
    PROVE  Append(q, Head(r)) \o Tail(r) = q \o r
  <1> DEFINE x == Append(q, Head(r)) \o Tail(r)
             y == q \o r
  <1>1. /\ x \in Seq(Nat) /\ y \in Seq(Nat) /\ Len(x) = Len(q) + Len(r) /\ Len(y) = Len(q) + Len(r)
        /\ Len(q) \in Nat /\ Len(r) \in Nat
    OBVIOUS
  <1>2. ASSUME NEW i \in 1 .. Len(q) + Len(r) PROVE x[i] = y[i]
    <2>1. CASE i <= Len(q)
      BY <2>1
    <2>2. CASE i = Len(q) + 1
      BY <2>2
    <2>3. CASE i > Len(q) + 1
      BY <2>3
    <2> QED
      BY <1>1, <2>1, <2>2, <2>3
  <1> HIDE DEF x, y
  <1>3. x = y
    BY <1>1, <1>2
  <1> QED
    BY <1>3 DEF x, y

LEMMA ConcatAppend ==
    ASSUME NEW q \in Seq(Nat), NEW r \in Seq(Nat), NEW e \in Nat
    PROVE  /\ q \o Append(r, e) = Append(q \o r, e)
           /\ q \o r \in Seq(Nat)
  <1> DEFINE x == q \o Append(r, e)
             y == Append(q \o r, e)
  <1>1. /\ x \in Seq(Nat) /\ y \in Seq(Nat)
        /\ Len(x) = Len(q) + Len(r) + 1 /\ Len(y) = Len(q) + Len(r) + 1
        /\ Len(q) \in Nat /\ Len(r) \in Nat
    OBVIOUS
  <1>2. ASSUME NEW i \in 1 .. Len(q) + Len(r) + 1 PROVE x[i] = y[i]
    <2>1. CASE i <= Len(q)
      BY <2>1
    <2>2. CASE i > Len(q) /\ i <= Len(q) + Len(r)
      BY <2>2
    <2>3. CASE i = Len(q) + Len(r) + 1
      BY <2>3
    <2> QED
      BY <1>1, <2>1, <2>2, <2>3
  <1> HIDE DEF x, y
  <1>3. x = y
    BY <1>1, <1>2
  <1> QED
    BY <1>3 DEF x, y

(* A frame that is read moves from the ring to what was read. *)
LEMMA ReadTaken ==
    ASSUME IInv, Spread(Ring), ReadFrame
    PROVE  Delivered' = Delivered /\ Spread(Ring)'
  <1>1. /\ Ring # <<>> /\ got' = Append(got, Head(Ring))
        /\ sock' = [sock EXCEPT ![Receiver].ringbuf = Tail(@)]
    BY DEF ReadFrame, Ring
  <1>2. Ring' = Tail(Ring)
    BY <1>1, TwoNodes DEF IInv, Ends, Socket, Ring
  <1>3. Ring \in Seq(Nat) /\ got \in Seq(Nat)
    BY StateFacts
  <1>4. got' \o Ring' = got \o Ring
    BY <1>1, <1>2, <1>3, ConcatShift
  <1>5. Spread(Tail(Ring))
    <2> SUFFICES ASSUME NEW i \in DOMAIN Tail(Ring) PROVE Tail(Ring)[i] >= i
      BY DEF Spread
    <2>1. i + 1 \in DOMAIN Ring /\ Tail(Ring)[i] = Ring[i + 1] /\ i \in Nat /\ Ring[i + 1] \in Nat
      BY <1>1, <1>3
    <2>2. Ring[i + 1] >= i + 1
      BY <2>1 DEF Spread
    <2> QED
      BY <2>1, <2>2
  <1> QED
    BY <1>2, <1>4, <1>5 DEF Delivered, Ring

(* A later frame than all in a ring whose frames are not before their places. *)
LEMMA SpreadAppend ==
    ASSUME NEW q \in Seq(Nat), Spread(q), NEW e \in Nat, e > 0, \A x \in InRange(q) : x < e
    PROVE  Len(q) < e /\ Spread(Append(q, e))
  <1>1. Len(q) < e
    <2>1. CASE Len(q) = 0
      BY <2>1
    <2>2. CASE Len(q) > 0
      <3>1. Len(q) \in DOMAIN q /\ q[Len(q)] \in Nat /\ Len(q) \in Nat
        BY <2>2
      <3>2. q[Len(q)] >= Len(q) /\ q[Len(q)] < e
        BY <3>1 DEF Spread, InRange
      <3> QED
        BY <3>1, <3>2
    <2> QED
      BY <2>1, <2>2
  <1>2. ASSUME NEW i \in DOMAIN Append(q, e) PROVE Append(q, e)[i] >= i
    <2>1. CASE i \in DOMAIN q
      BY <2>1 DEF Spread
    <2>2. CASE i = Len(q) + 1
      BY <1>1, <2>2
    <2> QED
      BY <1>2, <2>1, <2>2
  <1> QED
    BY <1>1, <1>2 DEF Spread

(* The receiver takes a frame or leaves what it has. *)
LEMMA FrameTaken ==
    ASSUME IInv, StartsInStep, Spread(Ring), Deliver(Sender, Receiver), net[Forward] # <<>>
    PROVE  /\ Spread(Ring)' /\ sock'[Sender] = sock[Sender]
           /\ UNCHANGED <<w, offered, result, reading, got, losses>>
           /\ \/ Delivered' = Delivered
              \/ Delivered' = Append(Delivered, Head(net[Forward]).arg)
           /\ Heard' = Heard + 1 => Delivered' = Append(Delivered, Head(net[Forward]).arg)
  <1> DEFINE f == net[Forward]
             p == Head(f)
             s == sock[Receiver]
             t == Received(Receiver, s, p)
             X == InRange(got) \cup InRange(Ring)
  <1>1. /\ sock' = [sock EXCEPT ![Receiver] = t]
        /\ UNCHANGED <<w, offered, result, reading, got, losses>>
    BY DEF Deliver, Forward
  <1>2. /\ f \in Seq(Packet) /\ p \in Packet /\ 1 \in DOMAIN f /\ f[1] = p
        /\ Ring \in Seq(Nat) /\ got \in Seq(Nat)
    BY StateFacts
  <1>3. /\ GoodForward(f, Written, SenderPhase) /\ GoodTaken(X, Heard, f, Written, SenderPhase)
    BY DEF IInv, Flow
  <1>4. p.src = Sender /\ p.type \in {"DATA", "CLOSE"}
    BY <1>2, <1>3 DEF GoodForward
  <1>5. GoodEnd(s) /\ s.remote = Sender /\ s.remote_sequence < SeqMod - 1
        /\ s.remote_sequence = Heard /\ s.ringbuf = Ring
    BY DEF IInv, Ends, Counters, Heard, Ring
  <1>6. \/ /\ p.type = "DATA" /\ p.seq = Heard + 1
           /\ t.remote_sequence = p.seq
           /\ t.ringbuf = RingPut(Ring, p.arg)
        \/ /\ t.remote_sequence = Heard
           /\ t.ringbuf = Ring
    BY <1>2, <1>4, <1>5, ReceiverTakes
  <1> HIDE DEF t
  <1>7. sock'[Sender] = sock[Sender] /\ Heard' = t.remote_sequence /\ Ring' = t.ringbuf
    BY <1>1, TwoNodes DEF IInv, Ends, Heard, Ring
  <1>8. CASE p.type = "DATA" /\ p.seq = Heard + 1 /\ t.ringbuf = RingPut(Ring, p.arg)
    <2>1. /\ \A x \in InRange(Ring) : x < p.arg
          /\ p.arg \in 1 .. Written
      <3>1. Heard \in Int /\ Written \in Int /\ SenderPhase \in Int
        BY NumFacts
      <3>2. \A x \in X : x < p.arg
        BY <1>2, <1>3, <1>8, <3>1, TakenAccept DEF p
      <3> QED
        BY <1>2, <1>3, <1>8, <3>2 DEF GoodForward
    <2> HIDE DEF p
    <2>2. p.arg \in Nat /\ p.arg > 0 /\ p.arg <= MaxFrames
      <3>1. Written \in Nat /\ Written <= MaxFrames /\ MaxFrames \in Nat
        BY NumFacts
      <3> QED
        BY <2>1, <3>1
    <2>3. Len(Ring) < p.arg /\ Spread(Append(Ring, p.arg))
      BY <1>2, <2>1, <2>2, SpreadAppend
    <2>4. Len(Ring) < RingCap
      <3>1. Len(Ring) \in Nat
        BY <1>2
      <3>2. MaxFrames \in Nat /\ RingCap \in Nat /\ MaxFrames <= RingCap
        BY TransferAssumption, SocketAssumption DEF StartsInStep
      <3> QED
        BY <2>2, <2>3, <3>1, <3>2
    <2>5. Ring' = Append(Ring, p.arg)
      BY <1>7, <1>8, <2>4 DEF RingPut
    <2>6. Delivered' = got \o Ring' /\ Delivered = got \o Ring
      BY <1>1 DEF Delivered, Ring
    <2>7. Delivered' = Append(Delivered, p.arg)
      BY <1>2, <2>2, <2>5, <2>6, ConcatAppend
    <2> QED
      BY <1>1, <1>7, <2>3, <2>5, <2>7 DEF Ring, p
  <1>9. CASE t.remote_sequence = Heard /\ t.ringbuf = Ring
    <2>1. Heard + 1 # Heard
      BY NumFacts
    <2> QED
      BY <1>1, <1>7, <1>9, <2>1 DEF Delivered, Ring
  <1> QED
    BY <1>6, <1>8, <1>9
-----------------------------------------------------------------------------
(* The first frames, when the next one leaves. *)
LEMMA FirstFramesAppend ==
    ASSUME NEW f \in Seq(Packet), NEW p \in Packet, NEW d, NEW h \in Nat, NEW c \in Nat,
           NEW sent \in Nat, FirstFrames(f, d, h, c, sent),
           p.arg = sent + 1, p.seq = c + sent + 1
    PROVE  FirstFrames(Append(f, p), d, h, c, sent + 1)
  <1> DEFINE g == Append(f, p)
  <1>1. /\ Len(g) = Len(f) + 1 /\ Len(f) \in Nat
        /\ DOMAIN g = DOMAIN f \cup {Len(f) + 1} /\ g[Len(f) + 1] = p
        /\ \A i \in DOMAIN f : g[i] = f[i]
    BY AppendFacts
  <1> HIDE DEF g
  <1>2. /\ h >= c /\ Len(f) = sent - (h - c)
        /\ \A i \in DOMAIN f : f[i].arg = h - c + i /\ f[i].seq = h + i
    BY DEF FirstFrames
  <1>3. /\ Len(g) = sent + 1 - (h - c)
        /\ h - c + (Len(f) + 1) = sent + 1 /\ h + (Len(f) + 1) = c + sent + 1
    BY <1>1, <1>2
  <1>4. ASSUME NEW i \in DOMAIN g PROVE g[i].arg = h - c + i /\ g[i].seq = h + i
    <2>1. CASE i \in DOMAIN f
      BY <1>1, <1>2, <2>1
    <2>2. CASE i = Len(f) + 1
      BY <1>1, <1>3, <2>2
    <2> QED
      BY <1>1, <1>4, <2>1, <2>2
  <1> QED
    BY <1>2, <1>3, <1>4 DEF FirstFrames, g

(* Counting from one later. *)
LEMMA OneLater ==
    \A h, c, i \in Nat : h - c + (i + 1) = h + 1 - c + i /\ h + (i + 1) = h + 1 + i
  OBVIOUS

(* The oldest of them is taken. *)
LEMMA FirstFramesTail ==
    ASSUME NEW f \in Seq(Packet), f # <<>>, NEW d \in Seq(Nat), NEW h \in Nat,
           NEW c \in Nat, NEW sent \in Nat, FirstFrames(f, d, h, c, sent)
    PROVE  /\ Head(f).seq = h + 1
           /\ FirstFrames(Tail(f), Append(d, Head(f).arg), h + 1, c, sent)
  <1> DEFINE g == Tail(f)
             e == Append(d, Head(f).arg)
  <1>1. /\ Len(g) = Len(f) - 1 /\ Len(f) \in Nat
        /\ 1 \in DOMAIN f /\ Head(f) = f[1]
        /\ \A i \in DOMAIN g : i + 1 \in DOMAIN f /\ g[i] = f[i + 1] /\ i \in Nat
    BY TailFacts
  <1>2. /\ h >= c /\ Len(f) = sent - (h - c)
        /\ \A i \in DOMAIN f : f[i].arg = h - c + i /\ f[i].seq = h + i
        /\ Len(d) = h - c /\ \A i \in DOMAIN d : d[i] = i
    BY DEF FirstFrames
  <1>3. Head(f).seq = h + 1 /\ Head(f).arg = h - c + 1 /\ Head(f).arg \in Nat
    BY <1>1, <1>2
  <1>4. /\ Len(e) = Len(d) + 1 /\ Len(d) \in Nat
        /\ DOMAIN e = DOMAIN d \cup {Len(d) + 1} /\ e[Len(d) + 1] = Head(f).arg
        /\ \A i \in DOMAIN d : e[i] = d[i]
    <2> DEFINE x == Head(f).arg
    <2>1. x \in Nat
      BY <1>3
    <2> HIDE DEF x
    <2>2. LET a == Append(d, x)
          IN  /\ Len(a) = Len(d) + 1 /\ Len(d) \in Nat
              /\ DOMAIN a = DOMAIN d \cup {Len(d) + 1} /\ a[Len(d) + 1] = x
              /\ \A i \in DOMAIN d : a[i] = d[i]
      BY <2>1, AppendFacts
    <2> QED
      BY <2>2 DEF x
  <1> HIDE DEF g, e
  <1>5. h + 1 >= c /\ Len(g) = sent - (h + 1 - c) /\ Len(e) = h + 1 - c
    BY <1>1, <1>2, <1>4
  <1>6. ASSUME NEW i \in DOMAIN g PROVE g[i].arg = h + 1 - c + i /\ g[i].seq = h + 1 + i
    <2>1. f[i + 1].arg = h - c + (i + 1) /\ f[i + 1].seq = h + (i + 1)
      BY <1>1, <1>2
    <2>2. i \in Nat /\ g[i] = f[i + 1]
      BY <1>1
    <2>3. g[i].arg = h - c + (i + 1) /\ g[i].seq = h + (i + 1)
      BY <2>1, <2>2
    <2>4. h - c + (i + 1) = h + 1 - c + i /\ h + (i + 1) = h + 1 + i
      BY <2>2, OneLater
    <2> QED
      BY <2>3, <2>4
  <1>7. ASSUME NEW i \in DOMAIN e PROVE e[i] = i
    BY <1>2, <1>3, <1>4
  <1>8. FirstFrames(g, e, h + 1, c, sent)
    BY <1>5, <1>6, <1>7 DEF FirstFrames
  <1> QED
    BY <1>3, <1>8 DEF g, e

-----------------------------------------------------------------------------
(* A step that leaves the sender's counter, its calls and what was taken. *)
LEMMA FirstSame ==
    ASSUME FirstInv, UNCHANGED <<w, offered, result>>,
           Calm' => Calm, Talking' => Talking /\ net'[Forward] = net[Forward],
           Count' = Count, Heard' = Heard, Delivered' = Delivered, Spread(Ring)'
    PROVE  FirstInv'
  <1>1. Clipped' /\ (Opening' <=> Opening)
    BY DEF FirstInv, Clipped, Opening
  <1>2. Begins'
    BY <1>1 DEF FirstInv, Begins
  <1>3. Kept'
    BY DEF FirstInv, Kept
  <1> QED
    BY <1>1, <1>2, <1>3 DEF FirstInv

(* A step of write that leaves the receiver alone. *)
LEMMA FirstWrite ==
    ASSUME FirstInv, sock'[Receiver] = sock[Receiver], UNCHANGED <<got, losses>>,
           \/ w' = NoWrite
           \/ \E len, pos, noack : w' = Burst(len, pos, noack)
    PROVE  /\ Clipped' /\ Spread(Ring)' /\ Delivered' = Delivered /\ Heard' = Heard
           /\ (Calm' <=> Calm)
  BY DEF FirstInv, Clipped, NoWrite, Burst, Ring, Delivered, Heard, Calm

LEMMA FirstWriteBegin ==
    ASSUME IInv, FirstInv, NEW len \in Lens, WriteBegin(len)
    PROVE  FirstInv'
  <1>1. /\ UNCHANGED <<sock, net, offered, result, got, losses>>
        /\ w = NoWrite /\ w' = Burst(len, 0, 0)
    BY DEF WriteBegin, IInv, GoodCall
  <1>2. /\ Clipped' /\ Spread(Ring)' /\ Delivered' = Delivered /\ Heard' = Heard
        /\ (Calm' <=> Calm)
    BY <1>1, FirstWrite
  <1>3. (Talking' <=> Talking) /\ Count' = Count
    BY <1>1 DEF Talking, Calm, Count
  <1>4. w.len <= BurstSz /\ w.sent = 0 /\ w'.sent = 0 /\ w'.pos = 0
    BY <1>1, NumFacts DEF NoWrite, Burst
  <1>5. Begins'
    BY <1>1, <1>2, <1>3, <1>4 DEF FirstInv, Begins, Opening
  <1>6. Kept'
    BY <1>1, <1>2 DEF FirstInv, Kept
  <1> QED
    BY <1>2, <1>5, <1>6 DEF FirstInv

LEMMA FirstSendFrame ==
    ASSUME IInv, QuietInv, PatientLines, FirstInv, SendFrame
    PROVE  FirstInv'
  <1> DEFINE p == DataPacket(w.sent)
             f == net[Forward]
  <1>1. /\ UNCHANGED <<sock, offered, result, got, losses>>
        /\ w' = [w EXCEPT !.sent = @ + 1]
    BY DEF SendFrame
  <1>2. /\ p \in Packet /\ p.seq = Count + w.sent + 1 /\ p.arg = offered + w.pos + w.sent + 1
        /\ Talking => net'[Forward] = Append(f, p)
    BY FrameLeaves
  <1> HIDE DEF p
  <1>3. /\ w'.active = w.active /\ w'.len = w.len /\ w'.pos = w.pos /\ w'.n = w.n
        /\ w'.noack = w.noack /\ w'.sent = w.sent + 1
    BY <1>1 DEF IInv, GoodCall
  <1>4. /\ Delivered' = Delivered /\ Ring' = Ring /\ Heard' = Heard /\ Count' = Count
        /\ (Calm' <=> Calm) /\ (Talking' <=> Talking) /\ (Opening' <=> Opening)
    BY <1>1, <1>3 DEF Delivered, Ring, Heard, Count, Calm, Talking, Opening
  <1>5. Clipped'
    BY <1>3 DEF FirstInv, Clipped, Burst
  <1>6. ASSUME Talking, Opening
        PROVE  w'.pos = 0 /\ FirstFrames(net'[Forward], Delivered, Heard, Count, w.sent + 1)
    <2>1. w.pos = 0 /\ offered = 0 /\ FirstFrames(f, Delivered, Heard, Count, w.sent)
      BY <1>6 DEF FirstInv, Begins, Opening
    <2>2. w.sent \in Nat /\ Count \in Nat /\ Heard \in Nat /\ f \in Seq(Packet)
      BY NumFacts, StateFacts DEF Count
    <2>3. p.arg = w.sent + 1
      BY <1>2, <2>1, <2>2
    <2> HIDE DEF f
    <2>4. FirstFrames(Append(f, p), Delivered, Heard, Count, w.sent + 1)
      BY <1>2, <2>1, <2>2, <2>3, FirstFramesAppend
    <2> QED
      BY <1>2, <1>3, <1>6, <2>1, <2>4
  <1>7. Begins'
    BY <1>3, <1>4, <1>6 DEF Begins
  <1>8. Kept'
    BY <1>1, <1>4 DEF FirstInv, Kept
  <1> QED
    BY <1>4, <1>5, <1>7, <1>8 DEF FirstInv, Spread

LEMMA FirstSilent ==
    ASSUME IInv, QuietInv, PatientLines, FirstInv, Resend \/ GiveUp
    PROVE  FirstInv'
  <1>1. /\ UNCHANGED <<sock, got, losses>>
        /\ w' = NoWrite \/ \E len, pos, noack : w' = Burst(len, pos, noack)
    BY DEF Resend, GiveUp, Return
  <1>2. Clipped' /\ Spread(Ring)' /\ (Calm' <=> Calm)
    BY <1>1, FirstWrite
  <1>3. ~Calm'
    BY <1>2, QuietSilent
  <1> QED
    BY <1>2, <1>3 DEF FirstInv, Begins, Talking, Kept

(* A write that returns leaves the opening. *)
LEMMA ReturnOpens ==
    ASSUME IInv, w.active, offered' = offered + w.len
    PROVE  ~Opening' /\ w.len \in Nat /\ w.len > 0
  <1>1. w.n > 0 /\ w.n \in Nat /\ w.pos + w.n <= w.len /\ w.pos \in Nat /\ offered \in Nat
        /\ w.len \in Nat
    BY NumFacts DEF IInv, GoodCall
  <1>2. offered' # 0 /\ w.len > 0
    BY <1>1
  <1> QED
    BY <1>1, <1>2 DEF Opening

LEMMA FirstOutOfSequence ==
    ASSUME IInv, FirstInv, OutOfSequence
    PROVE  FirstInv'
  <1>1. /\ UNCHANGED <<sock, got, losses>> /\ w' = NoWrite /\ w.active
        /\ offered' = offered + w.len /\ result'.ret = "ACK_OUT_OF_SEQUENCE"
    BY DEF OutOfSequence, Return, BurstOver
  <1>2. Clipped' /\ Spread(Ring)'
    BY <1>1, FirstWrite
  <1>3. ~Opening'
    BY <1>1, ReturnOpens
  <1> QED
    BY <1>1, <1>2, <1>3 DEF FirstInv, Begins, Kept

(* Where the first burst is over, all of it was taken, and acknowledged. *)
LEMMA FirstHeard ==
    ASSUME IInv, QuietInv, PatientLines, FirstInv, AckBehind, Calm, BurstOver, Opening
    PROVE  /\ w.pos = 0 /\ w.n = w.len /\ LastAck = Count + w.len
           /\ 1 .. w.len \subseteq InRange(Delivered)
  <1>1. /\ Talking /\ w.sent = w.n /\ w.n > 0 /\ w.n \in Nat
        /\ LastAck = Count + w.n \/ (net = EmptyLines /\ LastAck = Heard)
    BY BurstHeard
  <1>2. w.pos = 0 /\ FirstFrames(net[Forward], Delivered, Heard, Count, w.sent)
    BY <1>1 DEF FirstInv, Begins
  <1>3. /\ Heard \in Nat /\ Count \in Nat /\ w.len \in Nat /\ BurstSz \in Nat
        /\ LastAck <= Heard /\ LastAck \in Nat
    BY NumFacts DEF Count, LastAck, AckBehind
  <1>4. w.n = w.len
    <2>1. w.active /\ w.len <= BurstSz
      BY DEF BurstOver, Opening
    <2>2. w.n = IF w.len - w.pos > BurstSz THEN BurstSz ELSE w.len - w.pos
      BY <2>1 DEF FirstInv, Clipped, Burst
    <2> QED
      BY <1>2, <1>3, <2>1, <2>2
  <1>5. /\ Len(net[Forward]) = w.n - (Heard - Count) /\ Len(net[Forward]) \in Nat
        /\ Len(Delivered) = Heard - Count
        /\ \A i \in DOMAIN Delivered : Delivered[i] = i
    BY <1>1, <1>2, StateFacts DEF FirstFrames
  <1>6. LastAck = Count + w.n /\ Heard - Count = w.n
    <2>1. CASE LastAck = Count + w.n
      BY <1>1, <1>3, <1>5, <2>1
    <2>2. CASE net = EmptyLines /\ LastAck = Heard
      <3>1. net[Forward] = <<>>
        BY <2>2, TwoNodes DEF EmptyLines
      <3>2. 0 = w.n - (Heard - Count)
        BY <1>5, <3>1
      <3> QED
        BY <1>1, <1>3, <2>2, <3>2
    <2> QED
      BY <1>1, <2>1, <2>2
  <1>7. Delivered \in Seq(Nat)
    BY StateFacts, ConcatAppend DEF Delivered, Ring
  <1>8. DOMAIN Delivered = 1 .. w.n
    BY <1>5, <1>6, <1>7
  <1>9. 1 .. w.n \subseteq InRange(Delivered)
    BY <1>5, <1>8 DEF InRange
  <1> QED
    BY <1>2, <1>4, <1>6, <1>9

LEMMA FirstProgress ==
    ASSUME IInv, QuietInv, PatientLines, FirstInv, AckBehind, Progress
    PROVE  FirstInv'
  <1> DEFINE k == FrameSlot(LastAck)
  <1>1. /\ k \in 0 .. w.n - 1 /\ NextPos(LastAck) = w.pos + k + 1
        /\ sock' = [sock EXCEPT ![Sender].sequence_number = Count + k]
    BY ProgressIs DEF LastAck, Count
  <1>2. /\ BurstOver /\ w.active /\ UNCHANGED <<got, losses>>
        /\ FrameFound(LastAck) \/ EmptyFound(LastAck)
        /\ \/ /\ w' = NoWrite /\ offered' = offered + w.len
              /\ result'.first = offered + 1 /\ result'.last = offered + w.len
           \/ /\ NextPos(LastAck) # w.len
              /\ w' = Burst(w.len, NextPos(LastAck), w.noack)
              /\ offered' = offered /\ result' = result
    BY DEF Progress, Return, LastAck, BurstOver
  <1>3. sock'[Receiver] = sock[Receiver] /\ sock'[Sender].state = sock[Sender].state
    <2>1. sock \in [Node -> Socket] /\ "sequence_number" # "state"
      BY DEF IInv, Ends
    <2> QED
      BY <1>1, <2>1, TwoNodes
  <1>4. /\ Clipped' /\ Spread(Ring)' /\ Delivered' = Delivered
        /\ (Calm' <=> Calm)
    BY <1>2, <1>3, FirstWrite
  <1>5. CASE /\ w' = NoWrite /\ offered' = offered + w.len
             /\ result'.first = offered + 1 /\ result'.last = offered + w.len
    <2>1. ~Opening' /\ w.len \in Nat
      BY <1>2, <1>5, ReturnOpens
    <2>2. ASSUME Calm, result'.first = 1, result'.last <= BurstSz
          PROVE  1 .. result'.last \subseteq InRange(Delivered)
      <3>1. offered = 0 /\ result'.last = w.len
        BY <1>5, <2>1, <2>2, NumFacts
      <3>2. Opening
        BY <2>2, <3>1 DEF Opening
      <3> QED
        BY <1>2, <2>2, <3>1, <3>2, FirstHeard
    <2> QED
      BY <1>4, <2>1, <2>2 DEF FirstInv, Begins, Kept
  <1>6. CASE /\ NextPos(LastAck) # w.len
             /\ w' = Burst(w.len, NextPos(LastAck), w.noack)
             /\ offered' = offered /\ result' = result
    <2>1. ~(Calm /\ Opening)
      <3> SUFFICES ASSUME Calm, Opening PROVE FALSE
        OBVIOUS
      <3>1. w.pos = 0 /\ w.n = w.len /\ LastAck = Count + w.len
        BY <1>2, FirstHeard
      <3>2. FrameFound(LastAck)
        <4>1. ~EmptyFound(LastAck)
          BY NumFacts DEF EmptyFound, LastAck
        <4> QED
          BY <1>2, <4>1
      <3>3. SlotSeq(k) = LastAck
        BY <3>2 DEF FrameFound, FrameSlot, MatchesFrame
      <3>4. SlotSeq(k) = Count + k + 1
        BY <1>1, SlotSeqIs DEF Count
      <3>5. Count \in Nat /\ w.len \in Nat /\ k \in Int
        BY <1>1, NumFacts DEF Count
      <3> HIDE DEF k
      <3> QED
        BY <1>1, <1>6, <3>1, <3>3, <3>4, <3>5
    <2>2. Opening' => Opening
      BY <1>6 DEF Opening, Burst
    <2> QED
      BY <1>4, <1>6, <2>1, <2>2 DEF FirstInv, Begins, Kept, Talking
  <1> QED
    BY <1>2, <1>5, <1>6

LEMMA FirstDeliverForward ==
    ASSUME IInv, QuietInv, StartsInStep, FirstInv,
           Deliver(Sender, Receiver), net[Forward] # <<>>
    PROVE  FirstInv'
  <1> DEFINE f == net[Forward]
             p == Head(f)
  <1>1. /\ Spread(Ring)' /\ sock'[Sender] = sock[Sender]
        /\ UNCHANGED <<w, offered, result>>
        /\ Delivered' = Delivered \/ Delivered' = Append(Delivered, p.arg)
        /\ Heard' = Heard + 1 => Delivered' = Append(Delivered, p.arg)
    BY FrameTaken DEF FirstInv
  <1>2. /\ f \in Seq(Packet) /\ p \in Packet /\ Delivered \in Seq(Nat)
        /\ Count \in Nat /\ Heard \in Nat /\ w.sent \in Nat
    <2>1. f \in Seq(Packet) /\ p \in Packet /\ Ring \in Seq(Nat) /\ got \in Seq(Nat)
      BY StateFacts
    <2>2. Delivered \in Seq(Nat)
      BY <2>1 DEF Delivered, Ring
    <2> QED
      BY <2>1, <2>2, NumFacts DEF Count
  <1>3. Clipped' /\ (Opening' <=> Opening) /\ Count' = Count
    BY <1>1 DEF FirstInv, Clipped, Opening, Count
  <1>4. Calm' => Calm
    BY HandledForward
  <1>5. InRange(Delivered) \subseteq InRange(Delivered')
    <2>1. p.arg \in Nat
      BY <1>2, PacketFacts
    <2> HIDE DEF p
    <2>2. /\ DOMAIN Append(Delivered, p.arg) = DOMAIN Delivered \cup {Len(Delivered) + 1}
          /\ \A i \in DOMAIN Delivered : Append(Delivered, p.arg)[i] = Delivered[i]
      BY <1>2, <2>1, AppendFacts
    <2> QED
      BY <1>1, <2>2 DEF InRange
  <1>6. Kept'
    <2>1. InRange(Delivered)' = InRange(Delivered')
      BY DEF InRange
    <2> QED
      BY <1>1, <1>4, <1>5, <2>1 DEF FirstInv, Kept
  <1>7. ASSUME Talking', Opening
        PROVE  w.pos = 0 /\ FirstFrames(net'[Forward], Delivered', Heard', Count, w.sent)
    <2>1. Calm'
      BY <1>7 DEF Talking
    <2>2. /\ Talking /\ net'[Forward] = Tail(f)
          /\ p.seq = Heard + 1 => sock'[Receiver] = Accept(sock[Receiver], p)
      <3>1. Heard + 1 # Heard
        BY <1>2
      <3> QED
        BY <1>7, <2>1, HandledForward
    <2>3. w.pos = 0 /\ FirstFrames(f, Delivered, Heard, Count, w.sent)
      BY <1>7, <2>2 DEF FirstInv, Begins
    <2>4. /\ p.seq = Heard + 1
          /\ FirstFrames(Tail(f), Append(Delivered, p.arg), Heard + 1, Count, w.sent)
      BY <1>2, <2>3, FirstFramesTail
    <2>5. Heard' = Heard + 1
      <3>1. sock[Receiver] \in Socket
        BY StateFacts
      <3> HIDE DEF p
      <3> QED
        BY <2>2, <2>4, <3>1 DEF Accept, Socket, Heard
    <2> QED
      BY <1>1, <2>2, <2>3, <2>4, <2>5
  <1>8. Begins'
    BY <1>1, <1>3, <1>7 DEF Begins
  <1> QED
    BY <1>1, <1>3, <1>6, <1>8 DEF FirstInv

(* A sender that has closed stays closed. *)
LEMMA SenderStays ==
    ASSUME NEW s, GoodEnd(s), NEW p
    PROVE  Received(Sender, s, p).state = "OPEN" => s.state = "OPEN"
  <1>1. s.state \in {"OPEN", "CLOSED"} /\ Dispatched(s, p).state = s.state
    BY DEF GoodEnd, Socket, Dispatched
  <1> QED
    BY <1>1 DEF Received, ServerOnData, ClientOnData

LEMMA FirstDeliverBack ==
    ASSUME IInv, FirstInv, Deliver(Receiver, Sender), net[Back] # <<>>
    PROVE  FirstInv'
  <1> DEFINE p == Head(net[Back])
             s == sock[Sender]
             t == Received(Sender, s, p)
  <1>1. /\ sock' = [sock EXCEPT ![Sender] = t]
        /\ net' = LinesAfter(net, Back, Sender, s, p)
        /\ UNCHANGED <<w, offered, result, reading, got, losses>>
    BY DEF Deliver, Back
  <1>2. p \in Packet /\ p.src = Receiver /\ p.type \in {"ACK", "CLOSE"}
    <2>1. net[Back] \in Seq(Packet) /\ GoodBack(net[Back], Heard)
      BY StateFacts DEF IInv, Flow
    <2>2. 1 \in DOMAIN net[Back] /\ net[Back][1] = p /\ p \in Packet
      BY <2>1
    <2> QED
      BY <2>1, <2>2 DEF GoodBack
  <1>3. GoodEnd(s) /\ s.remote = Receiver
    BY DEF IInv, Ends
  <1>4. sock'[Sender] = t /\ sock'[Receiver] = sock[Receiver]
    BY <1>1, TwoNodes DEF IInv, Ends
  <1>5. t.sequence_number = s.sequence_number /\ (t.state = "OPEN" => s.state = "OPEN")
    <2> HIDE DEF p, s, t
    <2>1. t.sequence_number = s.sequence_number
      BY <1>2, <1>3, SenderHears DEF t
    <2>2. t.state = "OPEN" => s.state = "OPEN"
      BY <1>2, <1>3, SenderStays DEF t
    <2> QED
      BY <2>1, <2>2
  <1>6. net'[Forward] = net[Forward]
    <2>1. net' = Consume(net, Back)
      BY <1>1, <1>2 DEF LinesAfter, Acknowledges
    <2> QED
      BY <2>1, ConsumeOn, TwoNodes DEF IInv
  <1> HIDE DEF s, t
  <1>7. /\ Calm' => Calm
        /\ Talking' => Talking
        /\ Count' = Count /\ Heard' = Heard /\ Delivered' = Delivered /\ Ring' = Ring
    BY <1>1, <1>4, <1>5 DEF Calm, Talking, Count, Heard, Delivered, Ring, s
  <1>8. Spread(Ring)'
    BY <1>7 DEF FirstInv, Spread
  <1> QED
    BY <1>1, <1>6, <1>7, <1>8, FirstSame

LEMMA FirstDisconnect ==
    ASSUME IInv, FirstInv, NEW n \in Node, Disconnect(n)
    PROVE  FirstInv'
  <1>1. /\ sock' = [sock EXCEPT ![n] = Disconnected(@)]
        /\ UNCHANGED <<w, offered, result, got, losses>>
    BY DEF Disconnect
  <1>2. /\ sock \in [Node -> Socket] /\ sock[n] \in Socket
        /\ sock'[n] = Disconnected(sock[n]) /\ \A m \in Node \ {n} : sock'[m] = sock[m]
    BY <1>1 DEF IInv, Ends
  <1>3. /\ sock'[n].state = "CLOSED" /\ sock'[n].sequence_number = sock[n].sequence_number
        /\ sock'[n].remote_sequence = sock[n].remote_sequence
        /\ sock'[n].ringbuf = sock[n].ringbuf
    BY <1>2 DEF Socket, Disconnected
  <1>4. /\ ~Talking' /\ Count' = Count /\ Heard' = Heard /\ Ring' = Ring
        /\ Delivered' = Delivered /\ (Calm' => Calm)
    BY <1>1, <1>2, <1>3, TwoNodes DEF Talking, Calm, Count, Heard, Ring, Delivered
  <1>5. Spread(Ring)'
    BY <1>4 DEF FirstInv, Spread
  <1> QED
    BY <1>1, <1>4, <1>5, FirstSame

LEMMA FirstReadNothing ==
    ASSUME IInv, FirstInv, ReadNothing
    PROVE  FirstInv'
  <1>1. UNCHANGED <<w, offered, result, got, losses>>
    BY DEF ReadNothing
  <1>2. sock \in [Node -> Socket]
    BY DEF IInv, Ends
  <1>3. CASE sock[Receiver].zero_read_count < 2
    <2>1. net' = net /\ sock' = [sock EXCEPT ![Receiver].zero_read_count = @ + 1]
      BY <1>3 DEF ReadNothing
    <2>2. /\ sock'[Sender] = sock[Sender] /\ Heard' = Heard /\ Ring' = Ring
          /\ sock'[Receiver].state = sock[Receiver].state
      BY <1>2, <2>1, TwoNodes DEF Socket, Heard, Ring
    <2>3. /\ Talking' => Talking
          /\ Calm' => Calm
          /\ Count' = Count /\ Delivered' = Delivered
      BY <1>1, <2>2 DEF Talking, Calm, Count, Delivered, Ring
    <2>4. Spread(Ring)'
      BY <2>2 DEF FirstInv, Spread
    <2> QED
      BY <1>1, <2>1, <2>2, <2>3, <2>4, FirstSame
  <1>4. CASE ~(sock[Receiver].zero_read_count < 2)
    <2>1. sock' = [sock EXCEPT ![Receiver] =
                     [Disconnected(sock[Receiver]) EXCEPT !.zero_read_count = 0]]
      BY <1>4 DEF ReadNothing
    <2>2. /\ sock'[Sender] = sock[Sender] /\ Heard' = Heard /\ Ring' = Ring
          /\ sock'[Receiver].state = "CLOSED"
      BY <1>2, <2>1, TwoNodes DEF Socket, Disconnected, Heard, Ring
    <2>3. ~Talking' /\ ~Calm' /\ Count' = Count /\ Delivered' = Delivered
      BY <1>1, <2>2 DEF Talking, Calm, Count, Delivered, Ring
    <2>4. Spread(Ring)'
      BY <2>2 DEF FirstInv, Spread
    <2> QED
      BY <1>1, <2>2, <2>3, <2>4, FirstSame
  <1> QED
    BY <1>3, <1>4

LEMMA FirstRead ==
    ASSUME IInv, FirstInv, ReadBegin \/ ReadFrame
    PROVE  FirstInv'
  <1>1. UNCHANGED <<net, w, offered, result, losses>>
    BY DEF ReadBegin, ReadFrame
  <1>2. /\ sock'[Sender] = sock[Sender] /\ Heard' = Heard
        /\ sock'[Receiver].state = sock[Receiver].state
        /\ Delivered' = Delivered /\ Spread(Ring)'
    <2>1. CASE ReadBegin
      BY <2>1 DEF ReadBegin, Heard, Delivered, Ring, Spread, FirstInv
    <2>2. CASE ReadFrame
      <3>1. sock' = [sock EXCEPT ![Receiver].ringbuf = Tail(@)]
        BY <2>2 DEF ReadFrame
      <3>2. Delivered' = Delivered /\ Spread(Ring)'
        BY <2>2, ReadTaken DEF FirstInv
      <3> QED
        BY <3>1, <3>2, TwoNodes DEF IInv, Ends, Socket, Heard
    <2> QED
      BY <2>1, <2>2
  <1>3. (Calm' <=> Calm) /\ (Talking' <=> Talking) /\ Count' = Count
    BY <1>1, <1>2 DEF Calm, Talking, Count
  <1> QED
    BY <1>1, <1>2, <1>3, FirstSame

LEMMA FirstLose ==
    ASSUME IInv, FirstInv, NEW m \in Node, NEW n \in Node, Lose(m, n)
    PROVE  FirstInv'
  <1>1. UNCHANGED <<sock, w, offered, result, got>>
    BY DEF Lose
  <1>2. ~Calm' /\ ~Talking'
    BY QuietLose DEF Talking
  <1>3. /\ Count' = Count /\ Heard' = Heard /\ Ring' = Ring /\ Delivered' = Delivered
    BY <1>1 DEF Count, Heard, Ring, Delivered
  <1>4. Spread(Ring)'
    BY <1>3 DEF FirstInv, Spread
  <1> QED
    BY <1>1, <1>2, <1>3, <1>4, FirstSame

LEMMA FirstInit ==
    ASSUME BelowWrap, StartsInStep, Init
    PROVE  FirstInv /\ AckBehind
  <1>1. PICK st \in Starts :
          sock = [n \in Node |->
                   IF n = Sender
                   THEN [OpenTo(Receiver, NewSocket) EXCEPT
                           !.sequence_number = st.seq, !.remote_sequence = 1,
                           !.last_recved_ack = st.ack]
                   ELSE [OpenTo(Sender, NewSocket) EXCEPT
                           !.sequence_number = 2, !.remote_sequence = st.heard]]
    BY DEF Init
  <1>2. /\ net = EmptyLines /\ w = NoWrite /\ offered = 0 /\ got = <<>>
        /\ result = [ret |-> "none", first |-> 1, last |-> 0]
    BY DEF Init
  <1>3. Count = st.seq
    BY <1>1, TwoNodes DEF OpenTo, NewSocket, Count
  <1>4. Heard = st.heard /\ Ring = <<>>
    BY <1>1, TwoNodes DEF OpenTo, NewSocket, Heard, Ring
  <1>5. st.heard = st.seq /\ st.seq \in Nat
    BY TransferAssumption, UndefFacts DEF StartsInStep
  <1>6. net[Forward] = <<>>
    BY <1>2, TwoNodes DEF EmptyLines
  <1>7. Delivered = <<>>
    BY <1>2, <1>4 DEF Delivered, Ring
  <1>8. w.pos = 0 /\ w.sent = 0 /\ ~w.active
    BY <1>2 DEF NoWrite
  <1>9. FirstFrames(<<>>, <<>>, st.seq, st.seq, 0)
    BY <1>5 DEF FirstFrames
  <1>10. Begins
    BY <1>3, <1>4, <1>5, <1>6, <1>7, <1>8, <1>9 DEF Begins
  <1>11. Spread(Ring)
    BY <1>4 DEF Spread
  <1>12. AckBehind
    <2>1. LastAck = st.ack /\ st.ack <= st.heard
      BY <1>1, TwoNodes DEF OpenTo, NewSocket, LastAck, StartsInStep
    <2> QED
      BY <1>4, <2>1 DEF AckBehind
  <1> QED
    BY <1>2, <1>8, <1>10, <1>11, <1>12 DEF FirstInv, Clipped, Kept

(* It stays so: the ACKs on the line are not ahead either. *)
LEMMA AckStaysBehind ==
    ASSUME IInv, AckBehind, [Next]_vars
    PROVE  AckBehind'
  <1> DEFINE Still == LastAck' = LastAck /\ Heard' = Heard
  <1>1. Still => AckBehind'
    BY DEF AckBehind
  <1>2. sock \in [Node -> Socket] /\ Heard \in Nat /\ LastAck \in Nat
    BY NumFacts DEF IInv, Ends, LastAck
  <1>3. CASE \/ SendFrame \/ Resend \/ GiveUp \/ OutOfSequence \/ ReadBegin \/ UNCHANGED vars
            \/ \E len \in Lens : WriteBegin(len)
    <2>1. sock' = sock
      BY <1>3 DEF SendFrame, Resend, GiveUp, OutOfSequence, ReadBegin, WriteBegin, vars
    <2> QED
      BY <1>1, <2>1 DEF LastAck, Heard
  <1>4. CASE Progress
    <2>1. PICK k : sock' = [sock EXCEPT ![Sender].sequence_number = k]
      BY <1>4 DEF Progress
    <2> QED
      BY <1>1, <1>2, <2>1, TwoNodes DEF LastAck, Heard, Socket
  <1>5. CASE ReadFrame
    <2>1. PICK r : sock' = [sock EXCEPT ![Receiver].ringbuf = r]
      BY <1>5 DEF ReadFrame
    <2> QED
      BY <1>1, <1>2, <2>1, TwoNodes DEF LastAck, Heard, Socket
  <1>6. CASE ReadNothing
    <2>1. CASE sock[Receiver].zero_read_count < 2
      <3>1. PICK z : sock' = [sock EXCEPT ![Receiver].zero_read_count = z]
        BY <1>6, <2>1 DEF ReadNothing
      <3> QED
        BY <1>1, <1>2, <3>1, TwoNodes DEF LastAck, Heard, Socket
    <2>2. CASE ~(sock[Receiver].zero_read_count < 2)
      <3>1. sock' = [sock EXCEPT ![Receiver] =
                       [Disconnected(sock[Receiver]) EXCEPT !.zero_read_count = 0]]
        BY <1>6, <2>2 DEF ReadNothing
      <3> QED
        BY <1>1, <1>2, <3>1, TwoNodes DEF LastAck, Heard, Socket, Disconnected
    <2> QED
      BY <2>1, <2>2
  <1>7. CASE \E n \in Quitters : Disconnect(n)
    <2>1. PICK n \in Node : sock' = [sock EXCEPT ![n] = Disconnected(@)]
      BY <1>7, TransferAssumption DEF Disconnect
    <2> QED
      BY <1>1, <1>2, <2>1, TwoNodes DEF LastAck, Heard, Socket, Disconnected
  <1>8. ASSUME NEW m \in Node, NEW n \in Node, Deliver(m, n) PROVE AckBehind'
    <2> DEFINE p == Head(net[<<m, n>>])
               t == Received(n, sock[n], p)
    <2>1. net[<<m, n>>] # <<>> /\ sock' = [sock EXCEPT ![n] = t]
      BY <1>8 DEF Deliver
    <2>2. \/ m = Sender /\ n = Receiver
          \/ m = Receiver /\ n = Sender
      BY <2>1, UsedRoute DEF IInv, Forward, Back
    <2>3. /\ net[<<m, n>>] \in Seq(Packet) /\ p \in Packet
          /\ 1 \in DOMAIN net[<<m, n>>] /\ net[<<m, n>>][1] = p
      <3>1. net[<<m, n>>] \in Seq(Packet)
        BY <2>2, StateFacts DEF Forward, Back
      <3> QED
        BY <2>1, <3>1
    <2>4. CASE m = Sender /\ n = Receiver
      <3>1. /\ p.src = Sender /\ p.type \in {"DATA", "CLOSE"}
        BY <2>3, <2>4 DEF IInv, Flow, GoodForward, Forward
      <3>2. /\ GoodEnd(sock[n]) /\ sock[n].remote = Sender
            /\ sock[n].remote_sequence = Heard /\ sock[n].remote_sequence < SeqMod - 1
        BY <2>4 DEF IInv, Ends, Counters, Heard
      <3>3. t.remote_sequence \in {Heard, Heard + 1}
        <4> HIDE DEF p
        <4> QED
          BY <2>3, <2>4, <3>1, <3>2, ReceiverTakes
      <3> HIDE DEF t
      <3>4. LastAck' = LastAck /\ Heard' \in {Heard, Heard + 1}
        BY <1>2, <2>1, <2>4, <3>3, TwoNodes DEF LastAck, Heard
      <3> QED
        BY <1>2, <3>4 DEF AckBehind
    <2>5. CASE m = Receiver /\ n = Sender
      <3>1. /\ p.src = Receiver /\ p.type \in {"ACK", "CLOSE"}
            /\ p.type = "ACK" => p.seq <= Heard
        BY <2>3, <2>5 DEF IInv, Flow, GoodBack, Back
      <3>2. GoodEnd(sock[n]) /\ sock[n].remote = Receiver
        BY <2>5 DEF IInv, Ends
      <3>3. t.last_recved_ack = LastAck \/ t.last_recved_ack <= Heard
        <4> HIDE DEF p
        <4> QED
          BY <2>3, <2>5, <3>1, <3>2, SenderHears DEF LastAck
      <3> HIDE DEF t
      <3>4. LastAck' = t.last_recved_ack /\ Heard' = Heard
        BY <1>2, <2>1, <2>5, TwoNodes DEF LastAck, Heard
      <3> QED
        BY <3>3, <3>4 DEF AckBehind
    <2> QED
      BY <2>2, <2>4, <2>5
  <1>9. CASE UNCHANGED vars
    BY <1>3, <1>9
  <1>10. CASE Next
    <2>1. CASE \E m, n \in Node : Deliver(m, n) \/ Lose(m, n)
      <3>1. PICK m \in Node, n \in Node : Deliver(m, n) \/ Lose(m, n)
        BY <2>1
      <3>2. CASE Deliver(m, n)
        BY <1>8, <3>2
      <3>3. CASE Lose(m, n)
        BY <1>1, <3>3 DEF Lose, LastAck, Heard
      <3> QED
        BY <3>1, <3>2, <3>3
    <2> HIDE DEF Still
    <2> QED
      BY <1>3, <1>4, <1>5, <1>6, <1>7, <1>10, <2>1 DEF Next
  <1> QED
    BY <1>9, <1>10

LEMMA FirstStepKept ==
    ASSUME IInv, QuietInv, PatientLines, StartsInStep, FirstInv, AckBehind, [Next]_vars
    PROVE  FirstInv'
  <1>1. CASE UNCHANGED vars
    <2>1. /\ UNCHANGED <<w, offered, result, net>>
          /\ (Calm' <=> Calm) /\ (Talking' <=> Talking)
          /\ Count' = Count /\ Heard' = Heard /\ Delivered' = Delivered /\ Ring' = Ring
      BY <1>1 DEF vars, Calm, Talking, Count, Heard, Delivered, Ring
    <2>2. Spread(Ring)'
      BY <2>1 DEF FirstInv, Spread
    <2> QED
      BY <2>1, <2>2, FirstSame
  <1>2. ASSUME NEW len \in Lens, WriteBegin(len) PROVE FirstInv'
    BY <1>2, FirstWriteBegin
  <1>3. CASE SendFrame
    BY <1>3, FirstSendFrame
  <1>4. CASE Resend \/ GiveUp
    BY <1>4, FirstSilent
  <1>5. CASE OutOfSequence
    BY <1>5, FirstOutOfSequence
  <1>6. CASE Progress
    BY <1>6, FirstProgress
  <1>7. CASE ReadBegin \/ ReadFrame
    BY <1>7, FirstRead
  <1>8. CASE ReadNothing
    BY <1>8, FirstReadNothing
  <1>9. ASSUME NEW n \in Quitters, Disconnect(n) PROVE FirstInv'
    BY <1>9, FirstDisconnect, TransferAssumption
  <1>10. ASSUME NEW m \in Node, NEW n \in Node, Deliver(m, n) PROVE FirstInv'
    <2>1. net[<<m, n>>] # <<>>
      BY <1>10 DEF Deliver
    <2>2. \/ m = Sender /\ n = Receiver /\ net[Forward] # <<>>
          \/ m = Receiver /\ n = Sender /\ net[Back] # <<>>
      BY <2>1, UsedRoute DEF IInv, Forward, Back
    <2> QED
      BY <1>10, <2>2, FirstDeliverForward, FirstDeliverBack
  <1>11. ASSUME NEW m \in Node, NEW n \in Node, Lose(m, n) PROVE FirstInv'
    BY <1>11, FirstLose
  <1> QED
    BY <1>1, <1>2, <1>3, <1>4, <1>5, <1>6, <1>7, <1>8, <1>9, <1>10, <1>11 DEF Next

(* The first message of a connection that starts in step: if it fits one burst,
   nothing is lost and the receiver stays, a write that returns its length has
   delivered every frame of it.                                             *)
THEOREM FirstBurstDelivers ==
    ASSUME BelowWrap, PatientLines, StartsInStep
    PROVE  Spec => []FirstBurstReliable
  <1>1. Init => QuietInv /\ FirstInv /\ AckBehind
    BY QuietInit, FirstInit
  <1>2. IInv /\ QuietInv /\ FirstInv /\ AckBehind /\ [Next]_vars
          => QuietInv' /\ FirstInv' /\ AckBehind'
    BY QuietStepKept, FirstStepKept, AckStaysBehind
  <1>3. FirstInv => FirstBurstReliable
    BY DEF FirstInv, Kept, Calm, FirstBurstReliable, WriteOkMeansDelivered
  <1>4. Spec => []IInv
    BY Invariance
  <1> QED
    BY <1>1, <1>2, <1>3, <1>4, PTL DEF Spec
=============================================================================
