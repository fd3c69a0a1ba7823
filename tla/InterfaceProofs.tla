--------------------------- MODULE InterfaceProofs ---------------------------
(***************************************************************************)
(* Two theorems about the boards, for any sockets, ports and capacities.   *)
(* The list of an interface is sound: unbinding goes by port, so this      *)
(* needs that the pointer of a listed socket leads to its own list and     *)
(* that its port is unique there.  And every variable keeps its type:      *)
(* which needs the types of the packets on every route, and for a datagram *)
(* the way a message is cut into payloads.                                 *)
(***************************************************************************)
EXTENDS Interface, FiniteSetTheorems, SequenceTheorems, TLAPS

(* Objects have the members the list depends on. *)
Shaped ==
    /\ DOMAIN iface = Board
    /\ DOMAIN sock = SocketId
    /\ \A n \in Board : "sockets" \in DOMAIN iface[n] /\ iface[n].sockets \subseteq SocketId
    /\ \A s \in SocketId :
          /\ {"alive", "bound", "iface"} \subseteq DOMAIN sock[s]
          /\ sock[s].alive \in BOOLEAN /\ sock[s].bound \in BOOLEAN
          /\ sock[s].iface \in {Nobody, HomeOf[s]}

IInv == Shaped /\ ListIsSound

(* What a step that is not about binding leaves alone. *)
SameBinding(s) ==
    /\ DOMAIN sock'[s] = DOMAIN sock[s]
    /\ sock'[s].alive = sock[s].alive
    /\ sock'[s].bound = sock[s].bound
    /\ sock'[s].iface = sock[s].iface

SameLists ==
    /\ DOMAIN iface' = Board
    /\ \A n \in Board : /\ DOMAIN iface'[n] = DOMAIN iface[n]
                        /\ iface'[n].sockets = iface[n].sockets

SameSockets ==
    /\ DOMAIN sock' = SocketId
    /\ \A s \in SocketId : SameBinding(s)

-----------------------------------------------------------------------------
LEMMA Homes ==
    /\ \A s \in SocketId : HomeOf[s] \in Board /\ HomeOf[s] # Nobody
    /\ Nobody \notin Board
BY InterfaceAssumption DEF Board

LEMMA InitGood == Init => IInv
<1> SUFFICES ASSUME Init PROVE IInv
  OBVIOUS
<1>1. todo \in Scenarios /\ FitToBind(todo.setup) /\ todo.setup \subseteq SocketId
  <2>1. todo \in Scenarios
    BY DEF Init
  <2>2. todo \in [setup : SUBSET SocketId, kinds : SUBSET Kind, left : Nat]
    BY <2>1, InterfaceAssumption
  <2> QED
    BY <2>1, <2>2, InterfaceAssumption
<1>2. Shaped
  BY <1>1, Homes DEF Shaped, Init, NewInterface, NewSocket, BoundTo
<1>3. ListIsSound
  <2>1. \A n \in Board : iface[n].sockets = { s \in todo.setup : HomeOf[s] = n }
    BY DEF Init, NewInterface
  <2>2. \A s \in todo.setup : /\ sock[s].alive = TRUE
                               /\ sock[s].bound = TRUE
                               /\ sock[s].iface = HomeOf[s]
    BY <1>1 DEF Init, NewSocket, BoundTo
  <2>3. \A s, t \in todo.setup : HomeOf[s] = HomeOf[t] /\ PortOf[s] = PortOf[t] => s = t
    BY <1>1 DEF FitToBind
  <2> QED
    BY <2>1, <2>2, <2>3 DEF ListIsSound
<1> QED
  BY <1>2, <1>3 DEF IInv

(* A step that changes no list and nobody's binding is safe. *)
LEMMA BindingKept ==
    ASSUME IInv, SameLists, SameSockets
    PROVE  IInv'
<1>1. Shaped'
  BY DEF IInv, Shaped, SameLists, SameSockets, SameBinding
<1>2. ListIsSound'
  BY DEF IInv, Shaped, ListIsSound, SameLists, SameSockets, SameBinding
<1> QED
  BY <1>1, <1>2 DEF IInv

(* A socket is only ever in the list of its own board. *)
LEMMA UnboundGood ==
    ASSUME IInv, NEW s \in SocketId, iface' = Unbound(HomeOf[s], s)
    PROVE  /\ DOMAIN iface' = Board
           /\ \A n \in Board : /\ "sockets" \in DOMAIN iface'[n]
                               /\ iface'[n].sockets \subseteq iface[n].sockets
                               /\ s \notin iface'[n].sockets
<1>1. HomeOf[s] \in Board
  BY Homes
<1>2. iface' = [iface EXCEPT ![HomeOf[s]].sockets =
                  { t \in iface[HomeOf[s]].sockets : PortOf[t] # PortOf[s] }]
  BY DEF Unbound
<1>3. \A n \in Board \ {HomeOf[s]} : s \notin iface[n].sockets
  BY Homes DEF IInv, Shaped, ListIsSound
<1> QED
  BY <1>1, <1>2, <1>3 DEF IInv, Shaped

(* Once s is ended it is in no list, and the lists have lost members only: it
   was in none if it points to no interface.                                *)
LEMMA EndedGood ==
    ASSUME IInv, NEW s \in SocketId, iface' = Ended(s)
    PROVE  /\ DOMAIN iface' = Board
           /\ \A n \in Board : /\ "sockets" \in DOMAIN iface'[n]
                               /\ iface'[n].sockets \subseteq iface[n].sockets
                               /\ s \notin iface'[n].sockets
<1>1. CASE sock[s].iface = Nobody
  <2>1. iface' = iface
    BY <1>1 DEF Ended
  <2>2. \A n \in Board : s \notin iface[n].sockets
    BY <1>1, Homes DEF IInv, ListIsSound
  <2> QED
    BY <2>1, <2>2 DEF IInv, Shaped
<1>2. CASE sock[s].iface # Nobody
  <2>1. iface' = Unbound(HomeOf[s], s)
    BY <1>2 DEF Ended, IInv, Shaped
  <2> QED
    BY <2>1, UnboundGood
<1> QED
  BY <1>1, <1>2

(* Nobody but s changes, s is in no list afterwards and has its own board's
   interface or none: the step is safe.                                     *)
LEMMA UnlistedGood ==
    ASSUME IInv, NEW s \in SocketId, NEW new,
           sock' = [sock EXCEPT ![s] = new],
           {"alive", "bound", "iface"} \subseteq DOMAIN new,
           new.alive \in BOOLEAN, new.bound \in BOOLEAN,
           new.iface \in {Nobody, HomeOf[s]},
           DOMAIN iface' = Board,
           \A n \in Board : /\ "sockets" \in DOMAIN iface'[n]
                            /\ iface'[n].sockets \subseteq iface[n].sockets
                            /\ s \notin iface'[n].sockets
    PROVE  IInv'
<1>1. DOMAIN sock' = SocketId /\ sock'[s] = new
      /\ \A t \in SocketId \ {s} : sock'[t] = sock[t]
  BY DEF IInv, Shaped
<1>2. Shaped'
  BY <1>1 DEF IInv, Shaped
<1>3. ListIsSound'
  BY <1>1 DEF IInv, Shaped, ListIsSound
<1> QED
  BY <1>2, <1>3 DEF IInv

-----------------------------------------------------------------------------
LEMMA ConstructGood ==
    ASSUME IInv, NEW s \in SocketId, Construct(s)
    PROVE  IInv'
<1>1. \A n \in Board : s \notin iface[n].sockets
  BY DEF Construct, IInv, ListIsSound
<1>2. sock' = [sock EXCEPT ![s] = NewSocket] /\ iface' = iface
  BY DEF Construct
<1>3. {"alive", "bound", "iface"} \subseteq DOMAIN NewSocket /\ NewSocket.iface = Nobody
      /\ NewSocket.alive \in BOOLEAN /\ NewSocket.bound \in BOOLEAN
  BY DEF NewSocket
<1>4. DOMAIN iface' = Board
      /\ \A n \in Board : /\ "sockets" \in DOMAIN iface'[n]
                          /\ iface'[n].sockets \subseteq iface[n].sockets
                          /\ s \notin iface'[n].sockets
  BY <1>1, <1>2 DEF IInv, Shaped
<1> QED
  BY <1>2, <1>3, <1>4, UnlistedGood

(* bind() has looked for the port, so the new member is alone on it. *)
LEMMA BindGood ==
    ASSUME IInv, NEW s \in SocketId, Bind(s)
    PROVE  IInv'
<1> DEFINE n == HomeOf[s]
<1>1. n \in Board /\ sock[s].alive /\ ~PortTaken(n, PortOf[s])
  BY Homes DEF Bind
<1>2. sock' = [sock EXCEPT ![s] = BoundTo(n, sock[s])]
  BY DEF Bind
<1>3. DOMAIN iface' = Board
      /\ \A t \in Board : /\ "sockets" \in DOMAIN iface'[t]
                          /\ t # n => iface'[t].sockets = iface[t].sockets
      /\ iface'[n].sockets \in {iface[n].sockets, iface[n].sockets \cup {s}}
  BY <1>1 DEF Bind, IInv, Shaped
<1>4. /\ DOMAIN sock' = SocketId
      /\ \A t \in SocketId : /\ DOMAIN sock'[t] = DOMAIN sock[t]
                             /\ sock'[t].alive = sock[t].alive
      /\ sock'[s].bound /\ sock'[s].iface = n
      /\ \A t \in SocketId \ {s} : sock'[t] = sock[t]
  BY <1>2 DEF IInv, Shaped, BoundTo
<1>5. Shaped'
  <2>1. \A t \in Board : iface'[t].sockets \subseteq SocketId
    BY <1>3 DEF IInv, Shaped
  <2>2. \A t \in SocketId :
          /\ {"alive", "bound", "iface"} \subseteq DOMAIN sock'[t]
          /\ sock'[t].alive \in BOOLEAN /\ sock'[t].bound \in BOOLEAN
          /\ sock'[t].iface \in {Nobody, HomeOf[t]}
    BY <1>2, <1>4 DEF IInv, Shaped, BoundTo
  <2> QED
    BY <1>3, <1>4, <2>1, <2>2 DEF Shaped
<1>6. \A t \in Board \ {n} : s \notin iface[t].sockets
  BY <1>1, Homes DEF IInv, Shaped, ListIsSound
<1>7. ListIsSound'
  <2> SUFFICES ASSUME NEW m \in Board, NEW t \in iface'[m].sockets
               PROVE  /\ sock'[t].alive /\ sock'[t].bound /\ sock'[t].iface = m
                      /\ \A u \in iface'[m].sockets : PortOf[u] = PortOf[t] => u = t
    BY DEF ListIsSound
  <2>1. CASE m # n
    BY <2>1, <1>3, <1>4, <1>6 DEF IInv, Shaped, ListIsSound
  <2>2. CASE m = n
    <3>1. \A u \in iface[n].sockets : PortOf[u] # PortOf[s] /\ u # s
      BY <1>1 DEF PortTaken
    <3>2. t = s \/ t \in iface[n].sockets
      BY <2>2, <1>3
    <3>3. sock'[t].alive /\ sock'[t].bound /\ sock'[t].iface = m
      BY <1>1, <1>4, <2>2, <3>1, <3>2 DEF IInv, Shaped, ListIsSound
    <3>4. \A u \in iface'[m].sockets : PortOf[u] = PortOf[t] => u = t
      BY <1>1, <1>3, <2>2, <3>1, <3>2 DEF IInv, ListIsSound
    <3> QED
      BY <3>3, <3>4
  <2> QED
    BY <2>1, <2>2
<1> QED
  BY <1>5, <1>7 DEF IInv

LEMMA DestroyGood ==
    ASSUME IInv, NEW s \in SocketId, UnbindSocket(s) \/ Destroy(s)
    PROVE  IInv'
<1> DEFINE new == [sock[s] EXCEPT !.bound = FALSE]
<1>1. sock' = [sock EXCEPT ![s] = new] /\ iface' \in {Unbound(HomeOf[s], s), Ended(s)}
  BY DEF UnbindSocket, Destroy
<1>2. {"alive", "bound", "iface"} \subseteq DOMAIN new /\ new.iface \in {Nobody, HomeOf[s]}
      /\ new.alive \in BOOLEAN /\ new.bound \in BOOLEAN
  BY DEF IInv, Shaped
<1> HIDE DEF new
<1> QED
  BY <1>1, <1>2, UnboundGood, EndedGood, UnlistedGood

LEMMA DestructGood ==
    ASSUME IInv, NEW s \in SocketId, Destruct(s)
    PROVE  IInv'
<1>1. sock' = [sock EXCEPT ![s] = NoSocket] /\ iface' = Ended(s)
  BY DEF Destruct
<1>2. {"alive", "bound", "iface"} \subseteq DOMAIN NoSocket /\ NoSocket.iface = Nobody
      /\ NoSocket.alive \in BOOLEAN /\ NoSocket.bound \in BOOLEAN
  BY DEF NoSocket, NewSocket
<1> QED
  BY <1>1, <1>2, EndedGood, UnlistedGood

-----------------------------------------------------------------------------
LEMMA DatagramsGood ==
    ASSUME IInv,
           \/ \E s \in SocketId, k \in 1 .. RingCap : Read(s, k)
           \/ \E m \in Node, n \in Board : DatagramPackHandler(m, n)
    PROVE  IInv'
<1>1. iface' = iface
  BY DEF Read, DatagramPackHandler
<1>2. SameLists
  BY <1>1 DEF SameLists, IInv, Shaped
<1>3. SameSockets
  <2>1. CASE \E s \in SocketId, k \in 1 .. RingCap : Read(s, k)
    <3>1. PICK s \in SocketId, k \in 1 .. RingCap : Read(s, k)
      BY <2>1
    <3>2. PICK read, rest : sock' = [sock EXCEPT ![s].got = read, ![s].ringbuf = rest]
      BY <3>1 DEF Read
    <3>3. ASSUME NEW o \in SocketId PROVE SameBinding(o)
      BY <3>2 DEF SameBinding, IInv, Shaped
    <3>4. DOMAIN sock' = SocketId
      BY <3>2 DEF IInv, Shaped
    <3> QED
      BY <3>3, <3>4 DEF SameSockets
  <2>2. CASE \E m \in Node, n \in Board : DatagramPackHandler(m, n)
    <3>1. PICK m \in Node, n \in Board : DatagramPackHandler(m, n)
      BY <2>2
    <3> DEFINE p == Head(net[<<m, n>>])
    <3>2. sock' = [s \in SocketId |->
                     IF s \in iface[n].sockets /\ p.dest \in {n, Group}
                     THEN Heard(s, p) ELSE sock[s]]
      BY <3>1 DEF DatagramPackHandler
    <3> HIDE DEF p
    <3>3. \A s \in SocketId : /\ DOMAIN Heard(s, p) = DOMAIN sock[s]
                              /\ Heard(s, p).alive = sock[s].alive
                              /\ Heard(s, p).bound = sock[s].bound
                              /\ Heard(s, p).iface = sock[s].iface
      BY DEF Heard, IInv, Shaped
    <3> QED
      BY <3>2, <3>3 DEF SameSockets, SameBinding
  <2> QED
    BY <2>1, <2>2
<1> QED
  BY <1>2, <1>3, BindingKept

(* Requests change other members of the interface. *)
RequestStep ==
    \E n \in Board :
        \/ \E dest \in Board \ {n}, payload \in Millis : Ping(n, dest, payload)
        \/ PingReturn(n) \/ PingTimeout(n)
        \/ GetAddrList(n) \/ GetAddrListReturn(n) \/ GetAddrListTimeout(n)
        \/ \E m \in Node : PingEchoPackHandler(m, n) \/ AddrPackHandler(m, n)

LEMMA RequestsGood ==
    ASSUME IInv, RequestStep
    PROVE  IInv'
<1>1. sock' = sock
  BY DEF RequestStep, Ping, PingReturn, PingTimeout, GetAddrList, GetAddrListReturn,
         GetAddrListTimeout, PingEchoPackHandler, AddrPackHandler
<1>2. SameSockets
  BY <1>1 DEF SameSockets, SameBinding, IInv, Shaped
<1>3. PICK n \in Board :
        \/ \E dest \in Board \ {n}, payload \in Millis : Ping(n, dest, payload)
        \/ PingReturn(n) \/ PingTimeout(n)
        \/ GetAddrList(n) \/ GetAddrListReturn(n) \/ GetAddrListTimeout(n)
        \/ \E m \in Node : PingEchoPackHandler(m, n) \/ AddrPackHandler(m, n)
  BY DEF RequestStep
<1>4. SameLists
  <2>1. CASE \E dest \in Board \ {n}, payload \in Millis : Ping(n, dest, payload)
    BY <2>1 DEF SameLists, IInv, Shaped, Ping
  <2>2. CASE PingReturn(n) \/ PingTimeout(n)
    BY <2>2 DEF SameLists, IInv, Shaped, PingReturn, PingTimeout
  <2>3. CASE GetAddrList(n)
    BY <2>3 DEF SameLists, IInv, Shaped, GetAddrList
  <2>4. CASE GetAddrListReturn(n) \/ GetAddrListTimeout(n)
    BY <2>4 DEF SameLists, IInv, Shaped, GetAddrListReturn, GetAddrListTimeout
  <2>5. CASE \E m \in Node : PingEchoPackHandler(m, n) \/ AddrPackHandler(m, n)
    BY <2>5 DEF SameLists, IInv, Shaped, PingEchoPackHandler, AddrPackHandler
  <2> QED
    BY <1>3, <2>1, <2>2, <2>3, <2>4, <2>5
<1> QED
  BY <1>2, <1>4, BindingKept

(* All other steps change no object at all. *)
LEMMA LinesGood ==
    ASSUME IInv, UNCHANGED <<iface, sock>>
    PROVE  IInv'
BY DEF IInv, Shaped, ListIsSound

LEMMA StepGood == IInv /\ [Next]_vars => IInv'
<1> SUFFICES ASSUME IInv, [Next]_vars PROVE IInv'
  OBVIOUS
<1>1. CASE \E s \in SocketId :
             Construct(s) \/ Bind(s) \/ UnbindSocket(s) \/ Destroy(s) \/ Destruct(s)
  BY <1>1, ConstructGood, BindGood, DestroyGood, DestructGood
<1>2. CASE \/ \E s \in SocketId, k \in 1 .. RingCap : Read(s, k)
           \/ \E m \in Node, n \in Board : DatagramPackHandler(m, n)
  BY <1>2, DatagramsGood
<1>3. CASE RequestStep
  BY <1>3, RequestsGood
<1>4. CASE \E s \in SocketId :
             \/ \E t \in SocketId, len \in Lens :
                   \E dest \in {HomeOf[t], Group} \ {HomeOf[s]} : Write(s, dest, PortOf[t], len)
             \/ \E sub \in BOOLEAN : Subscribe(s, sub)
  BY <1>4, LinesGood DEF Write, Subscribe
<1>5. CASE \E n \in Board : SetAddress(n) \/ SwitchPoll(n) \/ SwitchAsks(n)
  BY <1>5, LinesGood DEF SetAddress, SwitchPoll, SwitchAsks
<1>6. CASE \E m \in Node, n \in Board : PingPackHandler(m, n) \/ GetAddrListPackHandler(m, n)
  BY <1>6, LinesGood DEF PingPackHandler, GetAddrListPackHandler
<1>7. CASE \E m, n \in Node : Lose(m, n)
  BY <1>7, LinesGood DEF Lose
<1>8. CASE UNCHANGED vars
  BY <1>8, LinesGood DEF vars
<1> QED
  BY <1>1, <1>2, <1>3, <1>4, <1>5, <1>6, <1>7, <1>8 DEF Next, RequestStep

(* Whatever sockets are constructed, bound, unbound by themselves or through a
   shared port, and destructed, every list holds only living, bound sockets
   with ports of their own.                                                 *)
THEOREM ListsSound == Spec => []ListIsSound
<1>1. IInv => ListIsSound
  BY DEF IInv
<1> QED
  BY <1>1, InitGood, StepGood, PTL DEF Spec

-----------------------------------------------------------------------------
(* What the interfaces, the sockets and the packets of each route are.      *)

(* The calls a board can be in. *)
CallInProgress ==
    {NoCall}
        \cup [kind : {"ping"}, dest : Board, payload : Millis, fresh : BOOLEAN]
        \cup [kind : {"list"}, known : SUBSET Board]

InterfaceObject ==
    [sockets : SUBSET SocketId, ping_echo_payload : Millis \cup {0},
     addr_list_recved : BOOLEAN, addr_field : SUBSET Board, call : CallInProgress,
     echoer : Board \cup {Nobody}, used : SUBSET (Millis \cup {0}), late : BOOLEAN]

SocketObject ==
    [alive : BOOLEAN, iface : Board \cup {Nobody}, remote : Board \cup {Nobody},
     ringbuf : Seq(ByteOfMessage), bound : BOOLEAN, got : Seq(ByteOfMessage),
     overran : BOOLEAN]

(* The packets on the route from m to n.  Only a board and the switch ask one
   another for addresses and answer.                                        *)
DatagramPack(m, n) ==
    { p \in [type : {"DATAGRAM"}, src : {m}, dst : {n}, dest : Board \cup {Group},
             port : Nat, payload : Seq(ByteOfMessage) \ {<<>>}] : m \in Board }

PingPack(m, n) ==
    { p \in [type : {"PING", "PING_ECHO"}, src : {m}, dst : {n}, payload : Millis] :
          m \in Board }

AddrPack(m, n) ==
    { p \in [type : {"ADDR"}, src : {m}, dst : {n}, field : SUBSET Board] :
          (m = Switch) # (n = Switch) }

GetAddrListPack(m, n) ==
    { p \in [type : {"GET_ADDR_LIST"}, src : {m}, dst : {n}] :
          (m = Switch) # (n = Switch) }

SubscribePack(m, n) ==
    [type : {"SUBSCRIBE"}, src : {m}, dst : {n}, port : Nat, subscribe : BOOLEAN]

PacketOn(m, n) ==
    DatagramPack(m, n) \cup PingPack(m, n) \cup AddrPack(m, n)
        \cup GetAddrListPack(m, n) \cup SubscribePack(m, n)

GoodLines(lines) ==
    /\ DOMAIN lines = Route
    /\ \A m, n \in Node : /\ lines[<<m, n>>] \in Seq(PacketOn(m, n))
                          /\ Len(lines[<<m, n>>]) <= LineCap

Types ==
    /\ iface \in [Board -> InterfaceObject]
    /\ \A n \in Board : Cardinality(iface[n].sockets) <= ListCap
    /\ sock \in [SocketId -> SocketObject]
    /\ \A s \in SocketId : Len(sock[s].ringbuf) <= RingCap
    /\ GoodLines(net)
    /\ known \subseteq Board
    /\ todo \in [setup : SUBSET SocketId, kinds : SUBSET Kind, left : Nat]

(* A packet that carries a small message carries all of it. *)
WholePayload(q) ==
    \A i \in DOMAIN q : q[i].len <= PayloadCap =>
        /\ q[i].pos = i /\ q[i].len = Len(q)
        /\ \A k \in DOMAIN q : q[k] = [q[i] EXCEPT !.pos = k]

FromOne(q, n) == \A i \in DOMAIN q : q[i].src = n

-----------------------------------------------------------------------------
(* Lines.                                                                   *)

(* The packets on the route from m to n. *)
On(lines, m, n) == { lines[<<m, n>>][i] : i \in DOMAIN lines[<<m, n>>] }

LEMMA Routes == \A m, n \in Node : <<m, n>> \in Route
BY DEF Route

LEMMA OnTyped ==
    ASSUME NEW lines, GoodLines(lines), NEW m \in Node, NEW n \in Node
    PROVE  On(lines, m, n) \subseteq PacketOn(m, n)
<1>1. lines[<<m, n>>] \in Seq(PacketOn(m, n))
  BY DEF GoodLines
<1> QED
  BY <1>1 DEF On

LEMMA TransmitGood ==
    ASSUME NEW lines, GoodLines(lines), NEW a \in Node, NEW b \in Node,
           NEW p \in PacketOn(a, b)
    PROVE  /\ GoodLines(Transmit(lines, p))
           /\ p.src = a /\ p.dst = b
           /\ \A m, n \in Node : m # a \/ n # b =>
                  Transmit(lines, p)[<<m, n>>] = lines[<<m, n>>]
           /\ Transmit(lines, p)[<<a, b>>] \in {lines[<<a, b>>], Append(lines[<<a, b>>], p)}
<1> DEFINE new == Transmit(lines, p)
<1>1. p.src = a /\ p.dst = b
  BY DEF PacketOn, DatagramPack, PingPack, AddrPack, GetAddrListPack, SubscribePack
<1>2. \A m, n \in Node :
        new[<<m, n>>] = IF <<m, n>> = <<a, b>> /\ Len(lines[<<m, n>>]) < LineCap
                        THEN Append(lines[<<m, n>>], p) ELSE lines[<<m, n>>]
  BY <1>1, Routes DEF Transmit
<1>3. ASSUME NEW m \in Node, NEW n \in Node
      PROVE  new[<<m, n>>] \in Seq(PacketOn(m, n)) /\ Len(new[<<m, n>>]) <= LineCap
  <2>1. lines[<<m, n>>] \in Seq(PacketOn(m, n)) /\ Len(lines[<<m, n>>]) <= LineCap
    BY DEF GoodLines
  <2>2. CASE <<m, n>> = <<a, b>> /\ Len(lines[<<m, n>>]) < LineCap
    <3>1. p \in PacketOn(m, n) /\ new[<<m, n>>] = Append(lines[<<m, n>>], p)
      BY <1>2, <2>2
    <3> QED
      BY <2>1, <2>2, <3>1, LineCapAssumption
  <2>3. CASE ~(<<m, n>> = <<a, b>> /\ Len(lines[<<m, n>>]) < LineCap)
    BY <1>2, <2>1, <2>3
  <2> QED
    BY <2>2, <2>3
<1>4. GoodLines(new)
  BY <1>3 DEF GoodLines, Transmit
<1> QED
  BY <1>1, <1>2, <1>4

LEMMA TransmitOn ==
    ASSUME NEW lines, GoodLines(lines), NEW a \in Node, NEW b \in Node,
           NEW p \in PacketOn(a, b), NEW m \in Node, NEW n \in Node
    PROVE  /\ On(Transmit(lines, p), m, n) \subseteq On(lines, m, n) \cup {p}
           /\ m # a \/ n # b => On(Transmit(lines, p), m, n) = On(lines, m, n)
<1> DEFINE new == Transmit(lines, p)
           q == lines[<<m, n>>]
<1>1. new[<<m, n>>] \in {q, Append(q, p)} /\ (m # a \/ n # b => new[<<m, n>>] = q)
  <2>1. /\ new[<<a, b>>] \in {lines[<<a, b>>], Append(lines[<<a, b>>], p)}
        /\ m # a \/ n # b => new[<<m, n>>] = lines[<<m, n>>]
    BY TransmitGood
  <2> HIDE DEF new
  <2> QED
    BY <2>1
<1>2. q \in Seq(PacketOn(m, n))
  BY DEF GoodLines
<1>3. \A i \in DOMAIN Append(q, p) : Append(q, p)[i] \in { q[j] : j \in DOMAIN q } \cup {p}
  <2> SUFFICES ASSUME NEW i \in DOMAIN Append(q, p)
               PROVE  Append(q, p)[i] \in { q[j] : j \in DOMAIN q } \cup {p}
    OBVIOUS
  <2>1. CASE i = Len(q) + 1
    BY <1>2, <2>1
  <2>2. CASE i # Len(q) + 1
    BY <1>2, <2>2
  <2> QED
    BY <2>1, <2>2
<1>4. On(new, m, n) \subseteq On(lines, m, n) \cup {p}
  BY <1>1, <1>3 DEF On
<1>5. m # a \/ n # b => On(new, m, n) = On(lines, m, n)
  BY <1>1 DEF On
<1> QED
  BY <1>4, <1>5

LEMMA ConsumeGood ==
    ASSUME NEW lines, GoodLines(lines), NEW a \in Node, NEW b \in Node,
           lines[<<a, b>>] # <<>>
    PROVE  LET r == <<a, b>> new == Consume(lines, r)
           IN  /\ GoodLines(new)
               /\ new[r] = Tail(lines[r]) /\ \A k \in Route \ {r} : new[k] = lines[k]
               /\ lines[r] \in Seq(PacketOn(a, b))
               /\ Head(lines[r]) \in PacketOn(a, b)
               /\ Head(lines[r]) \in On(lines, a, b)
<1> DEFINE r == <<a, b>>
           new == Consume(lines, r)
           q == lines[r]
<1>1. q \in Seq(PacketOn(a, b)) /\ Len(q) <= LineCap /\ r \in Route /\ DOMAIN lines = Route
  BY Routes DEF GoodLines
<1>2. /\ Head(q) \in PacketOn(a, b) /\ Head(q) = q[1] /\ 1 \in DOMAIN q
      /\ Tail(q) \in Seq(PacketOn(a, b)) /\ Len(Tail(q)) <= LineCap
  BY <1>1, LineCapAssumption
<1>3. new[r] = Tail(q) /\ \A k \in Route : k # r => new[k] = lines[k]
  BY <1>1 DEF Consume
<1>4. ASSUME NEW m \in Node, NEW n \in Node
      PROVE  new[<<m, n>>] \in Seq(PacketOn(m, n)) /\ Len(new[<<m, n>>]) <= LineCap
  <2>1. CASE <<m, n>> = r
    BY <1>2, <1>3, <2>1
  <2>2. CASE <<m, n>> # r
    BY <1>3, <2>2, Routes DEF GoodLines
  <2> QED
    BY <2>1, <2>2
<1>5. GoodLines(new)
  BY <1>1, <1>4 DEF GoodLines, Consume
<1> QED
  BY <1>1, <1>2, <1>3, <1>5, Routes DEF On

LEMMA ConsumeOn ==
    ASSUME NEW lines, GoodLines(lines), NEW a \in Node, NEW b \in Node,
           lines[<<a, b>>] # <<>>, NEW m \in Node, NEW n \in Node
    PROVE  On(Consume(lines, <<a, b>>), m, n) \subseteq On(lines, m, n)
<1> DEFINE q == lines[<<a, b>>]
           new == Consume(lines, <<a, b>>)
<1> SUFFICES On(new, m, n) \subseteq On(lines, m, n)
  OBVIOUS
<1>1. /\ new[<<a, b>>] = Tail(q)
      /\ \A k, l \in Node : k # a \/ l # b => new[<<k, l>>] = lines[<<k, l>>]
      /\ q \in Seq(PacketOn(a, b))
  <2>1. /\ new[<<a, b>>] = Tail(q) /\ \A k \in Route \ {<<a, b>>} : new[k] = lines[k]
        /\ q \in Seq(PacketOn(a, b))
    BY ConsumeGood
  <2> HIDE DEF new
  <2> QED
    BY <2>1, Routes
<1> HIDE DEF new
<1>2. \A i \in DOMAIN Tail(q) : i + 1 \in DOMAIN q /\ Tail(q)[i] = q[i + 1]
  BY <1>1
<1>3. CASE m = a /\ n = b
  <2>1. new[<<m, n>>] = Tail(q) /\ lines[<<m, n>>] = q
    BY <1>1, <1>3
  <2> HIDE DEF q
  <2> QED
    BY <1>2, <2>1 DEF On
<1>4. CASE m # a \/ n # b
  <2>1. new[<<m, n>>] = lines[<<m, n>>]
    BY <1>1, <1>4
  <2> QED
    BY <2>1 DEF On
<1> QED
  BY <1>3, <1>4

-----------------------------------------------------------------------------
(* Messages cut into payloads.                                              *)

LEMMA DivFacts ==
    ASSUME NEW x \in Nat, NEW c \in Nat \ {0}
    PROVE  /\ x \div c \in Nat
           /\ c * (x \div c) <= x
           /\ x < c * (x \div c) + c
OBVIOUS
LEMMA TimesMonotone ==
    ASSUME NEW c \in Nat, NEW x \in Nat, NEW y \in Nat, x <= y
    PROVE  c * x \in Nat /\ c * x <= c * y
<1>1. c * x \in Nat /\ c * (y - x) \in Nat
  OBVIOUS
<1>2. c * y = c * x + c * (y - x)
  OBVIOUS
<1> QED
  BY <1>1, <1>2

(* Every payload holds a part of its message that is not empty, and all of it
   if the message fits.                                                     *)
LEMMA PayloadFacts ==
    ASSUME NEW n \in Board, NEW len \in Lens, todo.left \in Nat,
           NEW i \in DOMAIN Payloads(Message(n, len))
    PROVE  LET q == Payloads(Message(n, len))[i]
           IN  /\ q \in Seq(ByteOfMessage) \ {<<>>}
               /\ FromOne(q, n)
               /\ PayloadCap <= ChunkSz => WholePayload(q)
<1> DEFINE data == Message(n, len)
           j == i - 1
           count == (len + ChunkSz - 1) \div ChunkSz
           first == j * ChunkSz + 1
           last == Least((j + 1) * ChunkSz, len)
           chunk == Chunk(data, j)
           q == Payload(chunk)
           byte(k) == [src |-> n, msg |-> todo.left, pos |-> k, len |-> len]
<1>1. len \in Nat /\ len > 0 /\ ChunkSz \in Nat /\ ChunkSz > 0
      /\ PayloadCap \in Nat /\ PayloadCap > 0
  BY InterfaceAssumption, DatagramAssumption
<1>2. /\ data \in Seq(ByteOfMessage) /\ Len(data) = len /\ DOMAIN data = 1 .. len
      /\ \A k \in 1 .. len : data[k] = byte(k)
  BY <1>1 DEF Message, ByteOfMessage
<1>3. i \in 1 .. count /\ Payloads(data)[i] = q
  BY <1>2 DEF Payloads
<1>4. count \in Nat /\ ChunkSz * count <= len + ChunkSz - 1
  BY <1>1, DivFacts
<1>5. j \in Nat /\ i \in Nat /\ i <= count
  BY <1>3, <1>4
<1>6. j * ChunkSz \in Nat /\ j * ChunkSz + 1 <= len /\ (j + 1) * ChunkSz = j * ChunkSz + ChunkSz
  <2>1. ChunkSz * i <= ChunkSz * count
    BY <1>1, <1>4, <1>5, TimesMonotone
  <2>2. ChunkSz * i = ChunkSz * j + ChunkSz /\ ChunkSz * j \in Nat
    BY <1>1, <1>5
  <2>3. ChunkSz * j = j * ChunkSz /\ (j + 1) * ChunkSz = j * ChunkSz + ChunkSz
    BY <1>1, <1>5
  <2> QED
    BY <2>1, <2>2, <2>3, <1>1, <1>4
<1>7. first \in Nat /\ last \in Nat /\ 1 <= first /\ first <= last /\ last <= len
  BY <1>1, <1>6 DEF Least
<1>8. /\ chunk \in Seq(ByteOfMessage) /\ Len(chunk) = last - first + 1
      /\ \A k \in 1 .. last - first + 1 : chunk[k] = data[first + k - 1]
  BY <1>2, <1>7, SubSeqProperties DEF Chunk
<1> DEFINE size == Least(PayloadCap, Len(chunk))
<1>9. size \in Nat /\ 1 <= size /\ size <= Len(chunk) /\ Len(chunk) \in Nat
  BY <1>1, <1>7, <1>8 DEF Least
<1>10. /\ q \in Seq(ByteOfMessage) /\ Len(q) = size
       /\ \A k \in 1 .. size : q[k] = chunk[k]
  BY <1>8, <1>9, SubSeqProperties DEF Payload
<1> HIDE DEF data, chunk, q, size, first, last
<1>11. ASSUME NEW k \in DOMAIN q
       PROVE  q[k] = byte(first + k - 1)
  <2>1. k \in 1 .. size /\ q[k] = chunk[k]
    BY <1>9, <1>10
  <2>2. k \in 1 .. last - first + 1 /\ chunk[k] = data[first + k - 1]
    BY <2>1, <1>7, <1>8, <1>9
  <2>3. first + k - 1 \in 1 .. len
    BY <2>2, <1>1, <1>7
  <2> QED
    BY <2>1, <2>2, <2>3, <1>2
<1>12. q # <<>>
  BY <1>9, <1>10
<1>13. FromOne(q, n)
  BY <1>11 DEF FromOne
<1>14. ASSUME PayloadCap <= ChunkSz PROVE WholePayload(q)
  <2>0. CASE ~(len <= PayloadCap)
    <3>1. \A k \in DOMAIN q : q[k].len = len
      BY <1>11
    <3> QED
      BY <3>1, <2>0 DEF WholePayload
  <2> SUFFICES ASSUME len <= PayloadCap PROVE WholePayload(q)
    BY <2>0
  <2>1. j = 0 /\ first = 1 /\ last = len
    <3>1. CASE j = 0
      BY <3>1, <1>1, <1>6, <1>14 DEF Least, first, last
    <3>2. CASE j # 0
      <4>1. 1 * ChunkSz <= j * ChunkSz
        BY <1>1, <1>5, <3>2, TimesMonotone
      <4> QED
        BY <4>1, <1>1, <1>6, <1>14
    <3> QED
      BY <3>1, <3>2
  <2>2. Len(chunk) = len /\ size = len
    BY <2>1, <1>1, <1>8 DEF Least, size
  <2>3. DOMAIN q = 1 .. len /\ \A k \in DOMAIN q : q[k] = byte(k)
    BY <2>1, <2>2, <1>1, <1>10, <1>11
  <2>4. ASSUME NEW k \in DOMAIN q, NEW l \in DOMAIN q
        PROVE  q[k].pos = k /\ q[k].len = len /\ q[l] = [q[k] EXCEPT !.pos = l]
    BY <2>3
  <2> QED
    BY <2>2, <2>4, <1>10 DEF WholePayload
<1> QED
  BY <1>3, <1>10, <1>12, <1>13, <1>14 DEF data

LEMMA FunctionIsSeq ==
    ASSUME NEW S, NEW k \in Nat, NEW f \in [1 .. k -> S]
    PROVE  f \in Seq(S) /\ Len(f) = k /\ DOMAIN f = 1 .. k
OBVIOUS

(* From lines to new, datagrams with these payloads, at most, have entered the
   route from a to b, if it leads from n to another board.                  *)
Sent(lines, new, n, payloads, a, b) ==
    /\ a # n \/ b \notin Board => new[<<a, b>>] = lines[<<a, b>>]
    /\ \A p \in On(new, a, b) :
          \/ p \in On(lines, a, b)
          \/ /\ a = n /\ p.type = "DATAGRAM"
             /\ \E i \in 1 .. Len(payloads) : p.payload = payloads[i]

LEMMA TransmitAllOn ==
    ASSUME NEW lines, GoodLines(lines), NEW n \in Board,
           NEW dest \in (Board \cup {Group}) \ {n}, NEW port \in Nat,
           NEW payloads \in Seq(Seq(ByteOfMessage) \ {<<>>}),
           NEW a \in Node, NEW b \in Node
    PROVE  LET new == TransmitAll(lines, n, dest, port, payloads)
               r == <<a, b>>
           IN  /\ new[r] \in Seq(PacketOn(a, b)) /\ Len(new[r]) <= LineCap
               /\ Sent(lines, new, n, payloads, a, b)
<1> DEFINE new == TransmitAll(lines, n, dest, port, payloads)
           r == <<a, b>>
           packet(m, i) == [type |-> "DATAGRAM", src |-> n, dst |-> m, dest |-> dest,
                            port |-> port, payload |-> payloads[i]]
           room(k) == LineCap - Len(lines[k])
           fits(k) == IF Len(payloads) <= room(k) THEN Len(payloads) ELSE room(k)
           size == fits(r)
           added == [i \in 1 .. size |-> packet(b, i)]
           targets == IF dest = Group THEN Board \ {n} ELSE {dest}
           q == lines[r]
<1>1. targets \subseteq Board
  OBVIOUS
<1>2. \A k \in Route :
        new[k] = IF k[1] = n /\ k[2] \in targets
                 THEN lines[k] \o [i \in 1 .. fits(k) |-> packet(k[2], i)] ELSE lines[k]
  BY DEF TransmitAll
<1>3. r \in Route /\ r[1] = a /\ r[2] = b
  BY Routes
<1> HIDE DEF new, targets, packet, fits, r
<1>4. new[r] = IF a = n /\ b \in targets THEN q \o added ELSE q
  BY <1>2, <1>3
<1>5. /\ q \in Seq(PacketOn(a, b)) /\ Len(q) <= LineCap
  BY DEF GoodLines, r
<1>6. Len(payloads) \in Nat
      /\ \A i \in 1 .. Len(payloads) : payloads[i] \in Seq(ByteOfMessage) \ {<<>>}
  OBVIOUS
<1>7. size \in Nat /\ size <= Len(payloads) /\ Len(q) + size <= LineCap
  <2> HIDE DEF q
  <2>1. size = IF Len(payloads) <= LineCap - Len(q) THEN Len(payloads) ELSE LineCap - Len(q)
    BY DEF fits, q
  <2> HIDE DEF size
  <2>2. Len(q) \in Nat
    BY <1>5
  <2> QED
    BY <1>5, <1>6, <2>1, <2>2, LineCapAssumption
<1> HIDE DEF size
<1>8. CASE a = n /\ b \in targets
  <2>1. b \in Board
    BY <1>1, <1>8
  <2>2. \A i \in 1 .. Len(payloads) : packet(b, i) \in PacketOn(a, b)
    BY <1>6, <1>8, <2>1 DEF PacketOn, DatagramPack, packet
  <2>3. added \in Seq(PacketOn(a, b)) /\ Len(added) = size
        /\ \A i \in DOMAIN added : i \in 1 .. Len(payloads) /\ added[i] = packet(b, i)
    <3>1. \A i \in 1 .. size : i \in 1 .. Len(payloads)
      BY <1>6, <1>7
    <3>2. added \in [1 .. size -> PacketOn(a, b)]
      BY <2>2, <3>1
    <3>3. \A i \in 1 .. size : added[i] = packet(b, i)
      OBVIOUS
    <3> HIDE DEF added
    <3> QED
      BY <1>7, <3>1, <3>2, <3>3, FunctionIsSeq
  <2> HIDE DEF added, q
  <2>4. /\ q \o added \in Seq(PacketOn(a, b)) /\ Len(q \o added) = Len(q) + Len(added)
        /\ \A i \in DOMAIN (q \o added) :
              \/ i \in DOMAIN q /\ (q \o added)[i] = q[i]
              \/ i - Len(q) \in DOMAIN added /\ (q \o added)[i] = added[i - Len(q)]
    <3>1. q \o added \in Seq(PacketOn(a, b)) /\ Len(q \o added) = Len(q) + Len(added)
      <4>1. q \in Seq(PacketOn(a, b)) /\ added \in Seq(PacketOn(a, b))
        BY <1>5, <2>3
      <4> QED
        BY <4>1, ConcatProperties
    <3>2. \A S : \A x, y \in Seq(S) : \A i \in DOMAIN (x \o y) :
              \/ i \in DOMAIN x /\ (x \o y)[i] = x[i]
              \/ i - Len(x) \in DOMAIN y /\ (x \o y)[i] = y[i - Len(x)]
      OBVIOUS
    <3> QED
      BY <1>5, <2>3, <3>1, <3>2
  <2>5. new[r] = q \o added
    BY <1>4, <1>8
  <2>6. ASSUME NEW p \in On(new, a, b)
        PROVE  \/ p \in On(lines, a, b)
               \/ /\ a = n /\ p.type = "DATAGRAM"
                  /\ \E i \in 1 .. Len(payloads) : p.payload = payloads[i]
    <3>1. PICK i \in DOMAIN (q \o added) : p = (q \o added)[i]
      BY <2>5 DEF On, r
    <3>2. CASE i \in DOMAIN q /\ p = q[i]
      BY <3>2 DEF On, q, r
    <3>3. CASE i - Len(q) \in DOMAIN added /\ p = added[i - Len(q)]
      <4>1. i - Len(q) \in 1 .. Len(payloads) /\ p = packet(b, i - Len(q))
        BY <2>3, <3>3
      <4> QED
        BY <4>1, <1>8 DEF packet
    <3> QED
      BY <2>4, <3>1, <3>2, <3>3
  <2>7. Len(new[r]) <= LineCap /\ new[r] \in Seq(PacketOn(a, b))
    BY <1>7, <2>3, <2>4, <2>5
  <2> QED
    BY <1>8, <2>1, <2>6, <2>7 DEF r, new, Sent
<1>9. CASE ~(a = n /\ b \in targets)
  <2>1. new[r] = q
    BY <1>4, <1>9
  <2>2. On(new, a, b) = On(lines, a, b)
    BY <2>1 DEF On, r, q
  <2> QED
    BY <1>5, <2>1, <2>2 DEF r, new, q, Sent
<1> QED
  BY <1>8, <1>9

LEMMA TransmitAllGood ==
    ASSUME NEW lines, GoodLines(lines), NEW n \in Board,
           NEW dest \in (Board \cup {Group}) \ {n}, NEW port \in Nat,
           NEW payloads \in Seq(Seq(ByteOfMessage) \ {<<>>})
    PROVE  GoodLines(TransmitAll(lines, n, dest, port, payloads))
<1> DEFINE new == TransmitAll(lines, n, dest, port, payloads)
<1>1. \A a, b \in Node : new[<<a, b>>] \in Seq(PacketOn(a, b)) /\ Len(new[<<a, b>>]) <= LineCap
  BY TransmitAllOn
<1>2. DOMAIN new = Route
  BY DEF TransmitAll
<1> HIDE DEF new
<1>3. GoodLines(new)
  BY <1>1, <1>2 DEF GoodLines
<1> QED
  BY <1>3 DEF new

-----------------------------------------------------------------------------
(* Types.                                                                   *)

LEMMA Boards ==
    /\ Board \subseteq Node /\ Switch \in Node /\ Switch \notin Board
    /\ \A n \in Node : n = Switch \/ n \in Board
    /\ Nobody \notin Node /\ Group \notin Node
    /\ \A s \in SocketId : HomeOf[s] \in Board /\ PortOf[s] \in Nat
BY InterfaceAssumption DEF Board

LEMMA RingFits ==
    ASSUME NEW ring \in Seq(ByteOfMessage), Len(ring) <= RingCap,
           NEW bytes \in Seq(ByteOfMessage)
    PROVE  /\ PutAll(ring, bytes) \in Seq(ByteOfMessage)
           /\ Len(PutAll(ring, bytes)) <= RingCap
           /\ Len(ring) + Len(bytes) <= RingCap => PutAll(ring, bytes) = ring \o bytes
<1> DEFINE all == ring \o bytes
           kept == Least(RingCap, Len(all))
<1>1. RingCap \in Nat /\ RingCap > 0
  BY DatagramAssumption
<1>2. all \in Seq(ByteOfMessage) /\ Len(all) = Len(ring) + Len(bytes) /\ Len(all) \in Nat
  OBVIOUS
<1>3. /\ kept \in Nat /\ kept <= RingCap /\ kept <= Len(all)
      /\ Len(all) <= RingCap => kept = Len(all)
  BY <1>1, <1>2 DEF Least
<1> HIDE DEF all, kept
<1>4. CASE RingOverwrites
  <2>1. PutAll(ring, bytes) = SubSeq(all, Len(all) - kept + 1, Len(all))
    BY <1>4 DEF PutAll, all, kept
  <2>2. /\ SubSeq(all, Len(all) - kept + 1, Len(all)) \in Seq(ByteOfMessage)
        /\ Len(SubSeq(all, Len(all) - kept + 1, Len(all))) = kept
    <3>1. Len(all) - kept + 1 \in 1 .. Len(all) + 1
      BY <1>2, <1>3
    <3> QED
      BY <1>2, <1>3, <3>1
  <2>3. SubSeq(all, 1, Len(all)) = all
    BY <1>2, SubSeqFull
  <2>4. Len(all) <= RingCap => Len(all) - kept + 1 = 1
    BY <1>2, <1>3
  <2>5. Len(all) <= RingCap => PutAll(ring, bytes) = all
    BY <2>1, <2>3, <2>4
  <2> QED
    BY <1>2, <1>3, <2>1, <2>2, <2>5 DEF all
<1>5. CASE ~RingOverwrites
  <2>1. PutAll(ring, bytes) = SubSeq(all, 1, kept)
    BY <1>5 DEF PutAll, all, kept
  <2>2. /\ SubSeq(all, 1, kept) \in Seq(ByteOfMessage)
        /\ Len(SubSeq(all, 1, kept)) = kept
    BY <1>2, <1>3
  <2>3. SubSeq(all, 1, Len(all)) = all
    BY <1>2, SubSeqFull
  <2> QED
    BY <1>2, <1>3, <2>1, <2>2, <2>3 DEF all
<1> QED
  BY <1>4, <1>5

LEMMA NewSocketTyped ==
    /\ NewSocket \in SocketObject /\ NewSocket.ringbuf = <<>>
    /\ NoSocket \in SocketObject /\ NoSocket.ringbuf = <<>>
<1>1. NewSocket \in SocketObject /\ NewSocket.ringbuf = <<>>
  BY DEF NewSocket, SocketObject
<1> QED
  BY <1>1 DEF NoSocket, SocketObject

LEMMA InitTypes == Init => Types
<1> SUFFICES ASSUME Init PROVE Types
  OBVIOUS
<1>1. /\ todo \in [setup : SUBSET SocketId, kinds : SUBSET Kind, left : Nat]
      /\ FitToBind(todo.setup)
  BY InterfaceAssumption DEF Init
<1>2. \A n \in Board : iface[n] = [NewInterface EXCEPT
                          !.sockets = { s \in todo.setup : HomeOf[s] = n }]
  BY DEF Init
<1>3. NewInterface \in InterfaceObject
  BY DEF NewInterface, InterfaceObject, CallInProgress
<1>4. \A n \in Board : /\ iface[n] \in InterfaceObject
                       /\ Cardinality(iface[n].sockets) <= ListCap
  <2> SUFFICES ASSUME NEW n \in Board
               PROVE  iface[n] \in InterfaceObject /\ Cardinality(iface[n].sockets) <= ListCap
    OBVIOUS
  <2> DEFINE own == { s \in todo.setup : HomeOf[s] = n }
  <2>1. own \subseteq SocketId /\ Cardinality(own) <= ListCap
    BY <1>1 DEF FitToBind
  <2> HIDE DEF own
  <2>2. iface[n] = [NewInterface EXCEPT !.sockets = own]
    BY <1>2 DEF own
  <2> QED
    BY <1>3, <2>1, <2>2 DEF InterfaceObject
<1>5. \A n \in Board : /\ BoundTo(n, NewSocket) \in SocketObject
                       /\ BoundTo(n, NewSocket).ringbuf = <<>>
  BY NewSocketTyped DEF BoundTo, SocketObject
<1>6. \A s \in SocketId : sock[s] \in SocketObject /\ sock[s].ringbuf = <<>>
  BY <1>5, NewSocketTyped, Boards DEF Init
<1>7. GoodLines(net)
  BY LineCapAssumption, Boards DEF Init, EmptyLines, GoodLines, Route
<1>8. RingCap \in Nat
  BY DatagramAssumption
<1> QED
  BY <1>1, <1>4, <1>6, <1>7, <1>8 DEF Init, Types

LEMMA CountedTyped ==
    ASSUME Types, NEW kind, Counted(kind)
    PROVE  todo' \in [setup : SUBSET SocketId, kinds : SUBSET Kind, left : Nat]
BY DEF Types, Counted

(* An interface has changed, and possibly the packets on the lines. *)
LEMMA InterfaceStep ==
    ASSUME Types, NEW n \in Board, NEW new \in InterfaceObject,
           Cardinality(new.sockets) <= ListCap,
           iface' = [iface EXCEPT ![n] = new], sock' = sock, GoodLines(net'),
           known' = known,
           todo' \in [setup : SUBSET SocketId, kinds : SUBSET Kind, left : Nat]
    PROVE  Types'
BY DEF Types

(* A socket has changed, and possibly the list of an interface. *)
LEMMA SocketStep ==
    ASSUME Types, NEW s \in SocketId, NEW new \in SocketObject,
           Len(new.ringbuf) <= RingCap, sock' = [sock EXCEPT ![s] = new],
           \/ iface' = iface
           \/ \E n \in Board, S \in SUBSET SocketId :
                 /\ Cardinality(S) <= ListCap
                 /\ iface' = [iface EXCEPT ![n].sockets = S],
           net' = net, known' = known,
           todo' \in [setup : SUBSET SocketId, kinds : SUBSET Kind, left : Nat]
    PROVE  Types'
<1>1. /\ iface' \in [Board -> InterfaceObject]
      /\ \A n \in Board : Cardinality(iface'[n].sockets) <= ListCap
  <2>1. CASE iface' = iface
    BY <2>1 DEF Types
  <2>2. ASSUME NEW n \in Board, NEW S \in SUBSET SocketId, Cardinality(S) <= ListCap,
               iface' = [iface EXCEPT ![n].sockets = S]
        PROVE  /\ iface' \in [Board -> InterfaceObject]
               /\ \A m \in Board : Cardinality(iface'[m].sockets) <= ListCap
    <3>1. [iface[n] EXCEPT !.sockets = S] \in InterfaceObject
      <4>1. iface[n] \in InterfaceObject
        BY DEF Types
      <4> QED
        BY <4>1 DEF InterfaceObject
    <3>2. iface' = [iface EXCEPT ![n] = [iface[n] EXCEPT !.sockets = S]]
      BY <2>2
    <3>3. [iface[n] EXCEPT !.sockets = S].sockets = S
      BY DEF Types, InterfaceObject
    <3> QED
      BY <2>2, <3>1, <3>2, <3>3 DEF Types
  <2> QED
    BY <2>1, <2>2
<1>2. sock' \in [SocketId -> SocketObject] /\ \A t \in SocketId : Len(sock'[t].ringbuf) <= RingCap
  BY DEF Types
<1> QED
  BY <1>1, <1>2 DEF Types

(* Only packets have moved. *)
LEMMA LinesStep ==
    ASSUME Types, iface' = iface, sock' = sock, GoodLines(net'), known' \subseteq Board,
           todo' \in [setup : SUBSET SocketId, kinds : SUBSET Kind, left : Nat]
    PROVE  Types'
BY DEF Types

LEMMA UnboundTyped ==
    ASSUME Types, NEW n \in Board, NEW s \in SocketId, iface' = Unbound(n, s)
    PROVE  \E m \in Board, S \in SUBSET SocketId :
              /\ Cardinality(S) <= ListCap
              /\ iface' = [iface EXCEPT ![m].sockets = S]
<1> DEFINE S == { t \in iface[n].sockets : PortOf[t] # PortOf[s] }
<1>1. iface[n].sockets \subseteq SocketId /\ S \subseteq iface[n].sockets
      /\ Cardinality(iface[n].sockets) <= ListCap
  BY DEF Types, InterfaceObject
<1>2. Cardinality(S) <= ListCap
  <2>1. IsFiniteSet(iface[n].sockets)
    BY <1>1, InterfaceAssumption, FS_Subset
  <2>2. IsFiniteSet(S) /\ Cardinality(S) <= Cardinality(iface[n].sockets)
    BY <1>1, <2>1, FS_Subset
  <2>3. Cardinality(S) \in Nat /\ Cardinality(iface[n].sockets) \in Nat
    BY <2>1, <2>2, FS_CardinalityType
  <2> QED
    BY <1>1, <2>2, <2>3, InterfaceAssumption
<1>3. iface' = [iface EXCEPT ![n].sockets = S]
  BY DEF Unbound
<1> HIDE DEF S
<1> QED
  BY <1>1, <1>2, <1>3

LEMMA EndedTyped ==
    ASSUME Types, NEW s \in SocketId, iface' = Ended(s)
    PROVE  \/ iface' = iface
           \/ \E n \in Board, S \in SUBSET SocketId :
                 /\ Cardinality(S) <= ListCap
                 /\ iface' = [iface EXCEPT ![n].sockets = S]
<1>1. sock[s].iface # Nobody => sock[s].iface \in Board
  BY DEF Types, SocketObject
<1> QED
  BY <1>1, UnboundTyped DEF Ended

LEMMA BindingTypes ==
    ASSUME Types, NEW s \in SocketId,
           Construct(s) \/ Bind(s) \/ UnbindSocket(s) \/ Destroy(s) \/ Destruct(s)
    PROVE  Types'
<1>0. /\ sock[s] \in SocketObject /\ Len(sock[s].ringbuf) <= RingCap
      /\ HomeOf[s] \in Board /\ RingCap \in Nat
  BY Boards, DatagramAssumption DEF Types
<1>1. CASE Construct(s)
  <2>1. NewSocket \in SocketObject /\ Len(NewSocket.ringbuf) <= RingCap
    BY <1>0, NewSocketTyped
  <2>2. todo' \in [setup : SUBSET SocketId, kinds : SUBSET Kind, left : Nat]
    BY <1>1, CountedTyped DEF Construct, Call
  <2>3. sock' = [sock EXCEPT ![s] = NewSocket] /\ iface' = iface /\ net' = net /\ known' = known
    BY <1>1 DEF Construct
  <2> QED
    BY <2>1, <2>2, <2>3, SocketStep
<1>2. CASE Bind(s)
  <2> DEFINE n == HomeOf[s]
             new == BoundTo(n, sock[s])
             L == iface[n].sockets
             S == IF Cardinality(L) < ListCap THEN L \cup {s} ELSE L
  <2>1. new \in SocketObject /\ new.ringbuf = sock[s].ringbuf
    BY <1>0 DEF BoundTo, SocketObject
  <2>2. todo' \in [setup : SUBSET SocketId, kinds : SUBSET Kind, left : Nat]
    BY <1>2, CountedTyped DEF Bind, Call
  <2>3. L \subseteq SocketId /\ Cardinality(L) <= ListCap
    BY <1>0 DEF Types, InterfaceObject
  <2>4. S \in SUBSET SocketId /\ Cardinality(S) <= ListCap
    <3>1. IsFiniteSet(L) /\ Cardinality(L) \in Nat
      BY <2>3, InterfaceAssumption, FS_Subset, FS_CardinalityType
    <3>2. Cardinality(L \cup {s}) \in {Cardinality(L), Cardinality(L) + 1}
      BY <3>1, FS_AddElement
    <3> QED
      BY <2>3, <3>1, <3>2, InterfaceAssumption
  <2>5. /\ sock' = [sock EXCEPT ![s] = new]
        /\ iface' = [iface EXCEPT ![n].sockets = S]
        /\ net' = net /\ known' = known
    BY <1>2 DEF Bind
  <2> HIDE DEF new, S
  <2> QED
    BY <1>0, <2>1, <2>2, <2>4, <2>5, SocketStep
<1>3. CASE UnbindSocket(s) \/ Destroy(s)
  <2> DEFINE new == [sock[s] EXCEPT !.bound = FALSE]
  <2>1. new \in SocketObject /\ new.ringbuf = sock[s].ringbuf
    BY <1>0 DEF SocketObject
  <2>2. todo' \in [setup : SUBSET SocketId, kinds : SUBSET Kind, left : Nat]
    BY <1>3, CountedTyped DEF UnbindSocket, Destroy, Call
  <2>3. sock' = [sock EXCEPT ![s] = new] /\ net' = net /\ known' = known
    BY <1>3 DEF UnbindSocket, Destroy
  <2>4. \/ iface' = iface
        \/ \E n \in Board, S \in SUBSET SocketId :
              /\ Cardinality(S) <= ListCap
              /\ iface' = [iface EXCEPT ![n].sockets = S]
    BY <1>0, <1>3, UnboundTyped, EndedTyped DEF UnbindSocket, Destroy
  <2> HIDE DEF new
  <2> QED
    BY <1>0, <2>1, <2>2, <2>3, <2>4, SocketStep
<1>4. CASE Destruct(s)
  <2>1. NoSocket \in SocketObject /\ Len(NoSocket.ringbuf) <= RingCap
    BY <1>0, NewSocketTyped
  <2>2. todo' \in [setup : SUBSET SocketId, kinds : SUBSET Kind, left : Nat]
    BY <1>4, CountedTyped DEF Destruct, Call
  <2>3. sock' = [sock EXCEPT ![s] = NoSocket] /\ net' = net /\ known' = known
    BY <1>4 DEF Destruct
  <2>4. \/ iface' = iface
        \/ \E n \in Board, S \in SUBSET SocketId :
              /\ Cardinality(S) <= ListCap
              /\ iface' = [iface EXCEPT ![n].sockets = S]
    BY <1>4, EndedTyped DEF Destruct
  <2> QED
    BY <2>1, <2>2, <2>3, <2>4, SocketStep
<1> QED
  BY <1>1, <1>2, <1>3, <1>4

LEMMA ReadTypes ==
    ASSUME Types, NEW s \in SocketId, NEW k \in 1 .. RingCap, Read(s, k)
    PROVE  Types'
<1> DEFINE ring == sock[s].ringbuf
           got == sock[s].got
           new == [sock[s] EXCEPT !.got = got \o SubSeq(ring, 1, k),
                                  !.ringbuf = SubSeq(ring, k + 1, Len(ring))]
<1>1. /\ sock[s] \in SocketObject /\ Len(ring) <= RingCap /\ RingCap \in Nat
      /\ k \in 1 .. Len(ring)
  BY DatagramAssumption DEF Types, Read
<1>2. ring \in Seq(ByteOfMessage) /\ got \in Seq(ByteOfMessage) /\ Len(ring) \in Nat
  BY <1>1 DEF SocketObject
<1>3. /\ SubSeq(ring, 1, k) \in Seq(ByteOfMessage)
      /\ SubSeq(ring, k + 1, Len(ring)) \in Seq(ByteOfMessage)
      /\ Len(SubSeq(ring, k + 1, Len(ring))) = Len(ring) - k
  BY <1>1, <1>2
<1>4. new \in SocketObject /\ new.ringbuf = SubSeq(ring, k + 1, Len(ring))
  <2>1. got \o SubSeq(ring, 1, k) \in Seq(ByteOfMessage)
    BY <1>2, <1>3
  <2>2. \A g, r \in Seq(ByteOfMessage) :
          LET t == [sock[s] EXCEPT !.got = g, !.ringbuf = r]
          IN  t \in SocketObject /\ t.ringbuf = r
    BY <1>1 DEF SocketObject
  <2> QED
    BY <1>3, <2>1, <2>2
<1>5. Len(new.ringbuf) <= RingCap
  BY <1>1, <1>2, <1>3, <1>4
<1>6. todo' \in [setup : SUBSET SocketId, kinds : SUBSET Kind, left : Nat]
  BY CountedTyped DEF Read, Call
<1>7. sock' = [sock EXCEPT ![s] = new] /\ iface' = iface /\ net' = net /\ known' = known
  BY DEF Read
<1> HIDE DEF new
<1> QED
  BY <1>4, <1>5, <1>6, <1>7, SocketStep

(* What a listed socket hears. *)
LEMMA HeardTyped ==
    ASSUME NEW s \in SocketId, sock[s] \in SocketObject, Len(sock[s].ringbuf) <= RingCap,
           NEW m \in Node, NEW n \in Node, NEW p \in DatagramPack(m, n)
    PROVE  /\ Heard(s, p) \in SocketObject
           /\ Len(Heard(s, p).ringbuf) <= RingCap
<1>1. p.payload \in Seq(ByteOfMessage) /\ p.src \in Board
  BY DEF DatagramPack
<1>2. sock[s].ringbuf \in Seq(ByteOfMessage)
  BY DEF SocketObject
<1>3. /\ PutAll(sock[s].ringbuf, p.payload) \in Seq(ByteOfMessage)
      /\ Len(PutAll(sock[s].ringbuf, p.payload)) <= RingCap
  BY <1>1, <1>2, RingFits
<1>4. (sock[s].overran \/ Len(sock[s].ringbuf) + Len(p.payload) > RingCap) \in BOOLEAN
  OBVIOUS
<1> QED
  BY <1>1, <1>3, <1>4 DEF Heard, SocketObject

LEMMA PacketTyped ==
    ASSUME NEW m \in Node, NEW n \in Node, NEW p \in PacketOn(m, n)
    PROVE  /\ p.src = m /\ p.dst = n
           /\ p.type = "DATAGRAM" => p \in DatagramPack(m, n)
           /\ p.type \in {"PING", "PING_ECHO"} => p \in PingPack(m, n)
           /\ p.type = "ADDR" => p \in AddrPack(m, n)
           /\ p.type = "GET_ADDR_LIST" => p \in GetAddrListPack(m, n)
BY DEF PacketOn, DatagramPack, PingPack, AddrPack, GetAddrListPack, SubscribePack

(* The packet a handler takes from its route. *)
LEMMA ArrivesTyped ==
    ASSUME Types, NEW m \in Node, NEW n \in Board, NEW type, Arrives(m, n, type)
    PROVE  /\ n \in Node /\ GoodLines(net) /\ net[<<m, n>>] # <<>>
           /\ GoodLines(Consume(net, <<m, n>>))
           /\ Head(net[<<m, n>>]) \in PacketOn(m, n)
           /\ Head(net[<<m, n>>]) \in On(net, m, n)
           /\ Head(net[<<m, n>>]).type = type
<1>1. n \in Node /\ GoodLines(net) /\ net[<<m, n>>] # <<>>
      /\ Head(net[<<m, n>>]).type = type
  BY Boards DEF Types, Arrives
<1> QED
  BY <1>1, ConsumeGood

LEMMA DatagramHandlerTypes ==
    ASSUME Types, NEW m \in Node, NEW n \in Board, DatagramPackHandler(m, n)
    PROVE  Types'
<1> DEFINE p == Head(net[<<m, n>>])
<1>1. /\ n \in Node /\ GoodLines(Consume(net, <<m, n>>)) /\ p \in DatagramPack(m, n)
  <2>1. Arrives(m, n, "DATAGRAM")
    BY DEF DatagramPackHandler
  <2> QED
    BY <2>1, ArrivesTyped, PacketTyped
<1>2. /\ sock' = [s \in SocketId |->
                    IF s \in iface[n].sockets /\ p.dest \in {n, Group}
                    THEN Heard(s, p) ELSE sock[s]]
      /\ net' = Consume(net, <<m, n>>)
      /\ iface' = iface /\ known' = known /\ todo' = todo
  BY DEF DatagramPackHandler
<1> HIDE DEF p
<1>3. \A s \in SocketId : sock'[s] \in SocketObject /\ Len(sock'[s].ringbuf) <= RingCap
  <2> SUFFICES ASSUME NEW s \in SocketId
               PROVE  sock'[s] \in SocketObject /\ Len(sock'[s].ringbuf) <= RingCap
    OBVIOUS
  <2>1. sock[s] \in SocketObject /\ Len(sock[s].ringbuf) <= RingCap
    BY DEF Types
  <2>2. Heard(s, p) \in SocketObject /\ Len(Heard(s, p).ringbuf) <= RingCap
    BY <1>1, <2>1, HeardTyped
  <2>3. sock'[s] \in {Heard(s, p), sock[s]}
    BY <1>2
  <2> QED
    BY <2>1, <2>2, <2>3
<1>4. sock' \in [SocketId -> SocketObject]
  BY <1>2, <1>3
<1> QED
  BY <1>1, <1>2, <1>3, <1>4 DEF Types

LEMMA WritePayloads ==
    ASSUME Types, NEW n \in Board, NEW len \in Lens
    PROVE  LET pay == Payloads(Message(n, len))
           IN  /\ pay \in Seq(Seq(ByteOfMessage) \ {<<>>})
               /\ \A i \in 1 .. Len(pay) :
                     /\ FromOne(pay[i], n)
                     /\ PayloadCap <= ChunkSz => WholePayload(pay[i])
<1> DEFINE data == Message(n, len)
           count == (Len(data) + ChunkSz - 1) \div ChunkSz
           pay == Payloads(data)
<1>1. todo.left \in Nat
  BY DEF Types
<1>2. \A i \in DOMAIN pay : /\ pay[i] \in Seq(ByteOfMessage) \ {<<>>}
                            /\ FromOne(pay[i], n)
                            /\ PayloadCap <= ChunkSz => WholePayload(pay[i])
  BY <1>1, PayloadFacts
<1>3. Len(data) = len /\ len \in Nat /\ len > 0 /\ ChunkSz \in Nat /\ ChunkSz > 0
  BY InterfaceAssumption, DatagramAssumption DEF Message
<1> HIDE DEF data
<1>4. count \in Nat
  BY <1>3, DivFacts
<1>5. pay = [i \in 1 .. count |-> Payload(Chunk(data, i - 1))]
  BY DEF Payloads
<1> HIDE DEF count, pay
<1>6. DOMAIN pay = 1 .. count
  BY <1>5
<1>7. pay \in [1 .. count -> Seq(ByteOfMessage) \ {<<>>}]
  BY <1>2, <1>5, <1>6
<1>8. pay \in Seq(Seq(ByteOfMessage) \ {<<>>}) /\ DOMAIN pay = 1 .. Len(pay)
  BY <1>4, <1>7, FunctionIsSeq
<1> QED
  BY <1>2, <1>8 DEF pay, data

(* What a datagram socket sends. *)
LEMMA WriteLines ==
    ASSUME Types, NEW s \in SocketId, NEW t \in SocketId, NEW len \in Lens,
           NEW dest \in {HomeOf[t], Group} \ {HomeOf[s]}, Write(s, dest, PortOf[t], len)
    PROVE  /\ GoodLines(net')
           /\ \A a, b \in Node :
                 a \notin Board \/ b \notin Board => net'[<<a, b>>] = net[<<a, b>>]
           /\ \A a, b \in Node : \A p \in On(net', a, b) :
                 \/ p \in On(net, a, b)
                 \/ /\ p.type = "DATAGRAM"
                    /\ FromOne(p.payload, a)
                    /\ PayloadCap <= ChunkSz => WholePayload(p.payload)
<1> DEFINE n == HomeOf[s]
           pay == Payloads(Message(n, len))
           port == PortOf[t]
           new == TransmitAll(net, n, dest, port, pay)
<1>1. /\ GoodLines(net) /\ n \in Board /\ port \in Nat
      /\ dest \in (Board \cup {Group}) \ {n}
  BY Boards DEF Types
<1>2. /\ pay \in Seq(Seq(ByteOfMessage) \ {<<>>})
      /\ \A i \in 1 .. Len(pay) : /\ FromOne(pay[i], n)
                                  /\ PayloadCap <= ChunkSz => WholePayload(pay[i])
  BY <1>1, WritePayloads
<1>3. net' = new
  BY DEF Write
<1> HIDE DEF n, pay, port
<1>4. GoodLines(net')
  BY <1>1, <1>2, <1>3, TransmitAllGood
<1>5. ASSUME NEW a \in Node, NEW b \in Node
      PROVE  /\ a \notin Board \/ b \notin Board => net'[<<a, b>>] = net[<<a, b>>]
             /\ \A p \in On(net', a, b) :
                   \/ p \in On(net, a, b)
                   \/ /\ p.type = "DATAGRAM"
                      /\ FromOne(p.payload, a)
                      /\ PayloadCap <= ChunkSz => WholePayload(p.payload)
  <2>1. /\ a # n \/ b \notin Board => new[<<a, b>>] = net[<<a, b>>]
        /\ \A p \in On(new, a, b) :
              \/ p \in On(net, a, b)
              \/ /\ a = n /\ p.type = "DATAGRAM"
                 /\ \E i \in 1 .. Len(pay) : p.payload = pay[i]
    <3>1. Sent(net, new, n, pay, a, b)
      BY <1>1, <1>2, TransmitAllOn
    <3> QED
      BY <3>1 DEF Sent
  <2> HIDE DEF new
  <2>2. a \notin Board \/ b \notin Board => net'[<<a, b>>] = net[<<a, b>>]
    BY <1>1, <1>3, <2>1
  <2>3. \A p \in On(net', a, b) :
           \/ p \in On(net, a, b)
           \/ /\ p.type = "DATAGRAM"
              /\ FromOne(p.payload, a)
              /\ PayloadCap <= ChunkSz => WholePayload(p.payload)
    BY <1>2, <1>3, <2>1
  <2> QED
    BY <2>2, <2>3
<1> QED
  BY <1>4, <1>5

(* A packet has entered the lines after another has left them. *)
LEMMA ConsumeTransmitGood ==
    ASSUME NEW lines, GoodLines(lines), NEW a \in Node, NEW b \in Node,
           lines[<<a, b>>] # <<>>, NEW c \in Node, NEW d \in Node,
           NEW p \in PacketOn(c, d)
    PROVE  GoodLines(Transmit(Consume(lines, <<a, b>>), p))
BY ConsumeGood, TransmitGood

LEMMA SendTypes ==
    ASSUME Types, NEW n \in Board,
           \/ \E s \in SocketId, sub \in BOOLEAN : HomeOf[s] = n /\ Subscribe(s, sub)
           \/ SetAddress(n)
           \/ SwitchAsks(n)
    PROVE  Types'
<1>1. GoodLines(net) /\ n \in Node /\ known \subseteq Board
  BY Boards DEF Types
<1>2. CASE \E s \in SocketId, sub \in BOOLEAN : HomeOf[s] = n /\ Subscribe(s, sub)
  <2>1. PICK s \in SocketId, sub \in BOOLEAN : HomeOf[s] = n /\ Subscribe(s, sub)
    BY <1>2
  <2> DEFINE p == [type |-> "SUBSCRIBE", src |-> n, dst |-> Switch,
                   port |-> PortOf[s], subscribe |-> sub]
  <2>2. p \in PacketOn(n, Switch)
    BY Boards DEF PacketOn, SubscribePack
  <2>3. net' = Transmit(net, p) /\ iface' = iface /\ sock' = sock /\ known' = known
    BY <2>1 DEF Subscribe
  <2> HIDE DEF p
  <2>4. GoodLines(net')
    BY <1>1, <2>2, <2>3, Boards, TransmitGood
  <2>5. todo' \in [setup : SUBSET SocketId, kinds : SUBSET Kind, left : Nat]
    BY <2>1, CountedTyped DEF Subscribe, Call
  <2> QED
    BY <1>1, <2>3, <2>4, <2>5, LinesStep
<1>3. CASE SetAddress(n)
  <2> DEFINE p == [type |-> "ADDR", src |-> n, dst |-> Switch, field |-> {n}]
  <2>1. p \in PacketOn(n, Switch)
    BY Boards DEF PacketOn, AddrPack
  <2>2. net' = Transmit(net, p) /\ iface' = iface /\ sock' = sock /\ known' = known
    BY <1>3 DEF SetAddress
  <2> HIDE DEF p
  <2>3. GoodLines(net')
    BY <1>1, <2>1, <2>2, Boards, TransmitGood
  <2>4. todo' \in [setup : SUBSET SocketId, kinds : SUBSET Kind, left : Nat]
    BY <1>3, CountedTyped DEF SetAddress, Call
  <2> QED
    BY <1>1, <2>2, <2>3, <2>4, LinesStep
<1>4. CASE SwitchAsks(n)
  <2> DEFINE p == [type |-> "GET_ADDR_LIST", src |-> Switch, dst |-> n]
  <2>1. p \in PacketOn(Switch, n)
    BY Boards DEF PacketOn, GetAddrListPack
  <2>2. net' = Transmit(net, p) /\ iface' = iface /\ sock' = sock /\ known' = known
    BY <1>4 DEF SwitchAsks
  <2> HIDE DEF p
  <2>3. GoodLines(net')
    BY <1>1, <2>1, <2>2, Boards, TransmitGood
  <2>4. todo' \in [setup : SUBSET SocketId, kinds : SUBSET Kind, left : Nat]
    BY <1>4, CountedTyped DEF SwitchAsks
  <2> QED
    BY <1>1, <2>2, <2>3, <2>4, LinesStep
<1> QED
  BY <1>2, <1>3, <1>4

LEMMA RequestTypes ==
    ASSUME Types, NEW n \in Board,
           \/ \E dest \in Board \ {n}, payload \in Millis : Ping(n, dest, payload)
           \/ GetAddrList(n)
    PROVE  Types'
<1>1. /\ GoodLines(net) /\ n \in Node /\ known \subseteq Board
      /\ iface[n] \in InterfaceObject /\ Cardinality(iface[n].sockets) <= ListCap
  BY Boards DEF Types
<1>2. CASE \E dest \in Board \ {n}, payload \in Millis : Ping(n, dest, payload)
  <2>1. PICK dest \in Board \ {n}, payload \in Millis : Ping(n, dest, payload)
    BY <1>2
  <2> DEFINE p == [type |-> "PING", src |-> n, dst |-> dest, payload |-> payload]
             c == [kind |-> "ping", dest |-> dest, payload |-> payload,
                   fresh |-> payload \notin iface[n].used]
             new == [iface[n] EXCEPT !.call = c, !.used = iface[n].used \cup {payload}]
  <2>2. p \in PacketOn(n, dest) /\ dest \in Node
    BY Boards DEF PacketOn, PingPack
  <2>3. /\ net' = Transmit(net, p) /\ iface' = [iface EXCEPT ![n] = new]
        /\ sock' = sock /\ known' = known
    BY <2>1 DEF Ping
  <2>4. c \in CallInProgress
    BY DEF CallInProgress
  <2> HIDE DEF p, c
  <2>5. new \in InterfaceObject /\ new.sockets = iface[n].sockets
    BY <1>1, <2>4 DEF InterfaceObject
  <2> HIDE DEF new
  <2>6. GoodLines(net')
    BY <1>1, <2>2, <2>3, TransmitGood
  <2>7. todo' \in [setup : SUBSET SocketId, kinds : SUBSET Kind, left : Nat]
    BY <2>1, CountedTyped DEF Ping, Call
  <2> QED
    BY <1>1, <2>3, <2>5, <2>6, <2>7, InterfaceStep
<1>3. CASE GetAddrList(n)
  <2> DEFINE p == [type |-> "GET_ADDR_LIST", src |-> n, dst |-> Switch]
             c == [kind |-> "list", known |-> known]
             new == [iface[n] EXCEPT !.call = c, !.addr_list_recved = FALSE]
  <2>1. p \in PacketOn(n, Switch)
    BY Boards DEF PacketOn, GetAddrListPack
  <2>2. /\ net' = Transmit(net, p) /\ iface' = [iface EXCEPT ![n] = new]
        /\ sock' = sock /\ known' = known
    BY <1>3 DEF GetAddrList
  <2>3. c \in CallInProgress
    BY <1>1 DEF CallInProgress
  <2> HIDE DEF p, c
  <2>4. new \in InterfaceObject /\ new.sockets = iface[n].sockets
    BY <1>1, <2>3 DEF InterfaceObject
  <2> HIDE DEF new
  <2>5. GoodLines(net')
    BY <1>1, <2>1, <2>2, Boards, TransmitGood
  <2>6. todo' \in [setup : SUBSET SocketId, kinds : SUBSET Kind, left : Nat]
    BY <1>3, CountedTyped DEF GetAddrList, Call
  <2> QED
    BY <1>1, <2>2, <2>4, <2>5, <2>6, InterfaceStep
<1> QED
  BY <1>2, <1>3

LEMMA ReturnTypes ==
    ASSUME Types, NEW n \in Board,
           \/ PingReturn(n) \/ PingTimeout(n)
           \/ GetAddrListReturn(n) \/ GetAddrListTimeout(n)
    PROVE  Types'
<1> DEFINE back == [iface[n] EXCEPT !.call = NoCall]
           late == [iface[n] EXCEPT !.call = NoCall, !.late = TRUE]
<1>1. /\ GoodLines(net) /\ iface[n] \in InterfaceObject
      /\ Cardinality(iface[n].sockets) <= ListCap
      /\ todo \in [setup : SUBSET SocketId, kinds : SUBSET Kind, left : Nat]
  BY DEF Types
<1>2. /\ back \in InterfaceObject /\ back.sockets = iface[n].sockets
      /\ late \in InterfaceObject /\ late.sockets = iface[n].sockets
  BY <1>1 DEF InterfaceObject, CallInProgress
<1>3. \/ iface' = [iface EXCEPT ![n] = back]
      \/ iface' = [iface EXCEPT ![n] = late]
  BY DEF PingReturn, PingTimeout, GetAddrListReturn, GetAddrListTimeout
<1>4. sock' = sock /\ net' = net /\ known' = known /\ todo' = todo
  BY DEF PingReturn, PingTimeout, GetAddrListReturn, GetAddrListTimeout
<1> HIDE DEF back, late
<1> QED
  BY <1>1, <1>2, <1>3, <1>4, InterfaceStep

LEMMA AnswerTypes ==
    ASSUME Types, NEW m \in Node, NEW n \in Board,
           PingEchoPackHandler(m, n) \/ AddrPackHandler(m, n)
    PROVE  Types'
<1> DEFINE p == Head(net[<<m, n>>])
           echoed == [iface[n] EXCEPT !.ping_echo_payload = p.payload, !.echoer = p.src]
           told == [iface[n] EXCEPT !.addr_field = p.field, !.addr_list_recved = TRUE]
<1>1. /\ iface[n] \in InterfaceObject /\ Cardinality(iface[n].sockets) <= ListCap
      /\ todo \in [setup : SUBSET SocketId, kinds : SUBSET Kind, left : Nat]
  BY DEF Types
<1>2. CASE PingEchoPackHandler(m, n)
  <2>1. Arrives(m, n, "PING_ECHO")
    BY <1>2 DEF PingEchoPackHandler
  <2>2. GoodLines(Consume(net, <<m, n>>)) /\ p \in PingPack(m, n)
    BY <2>1, ArrivesTyped, PacketTyped
  <2>3. p.payload \in Millis /\ p.src \in Board
    BY <2>2 DEF PingPack
  <2>4. /\ iface' = [iface EXCEPT ![n] = echoed] /\ net' = Consume(net, <<m, n>>)
        /\ sock' = sock /\ known' = known /\ todo' = todo
    BY <1>2 DEF PingEchoPackHandler
  <2> HIDE DEF p
  <2>5. echoed \in InterfaceObject /\ echoed.sockets = iface[n].sockets
    BY <1>1, <2>3 DEF InterfaceObject
  <2> HIDE DEF echoed
  <2> QED
    BY <1>1, <2>2, <2>4, <2>5, InterfaceStep
<1>3. CASE AddrPackHandler(m, n)
  <2>1. Arrives(m, n, "ADDR")
    BY <1>3 DEF AddrPackHandler
  <2>2. GoodLines(Consume(net, <<m, n>>)) /\ p \in AddrPack(m, n)
    BY <2>1, ArrivesTyped, PacketTyped
  <2>3. p.field \subseteq Board
    BY <2>2 DEF AddrPack
  <2>4. /\ iface' = [iface EXCEPT ![n] = told] /\ net' = Consume(net, <<m, n>>)
        /\ sock' = sock /\ known' = known /\ todo' = todo
    BY <1>3 DEF AddrPackHandler
  <2> HIDE DEF p
  <2>5. told \in InterfaceObject /\ told.sockets = iface[n].sockets
    BY <1>1, <2>3 DEF InterfaceObject
  <2> HIDE DEF told
  <2> QED
    BY <1>1, <2>2, <2>4, <2>5, InterfaceStep
<1> QED
  BY <1>2, <1>3

(* A ping is echoed between boards; only the switch asks a board. *)
LEMMA EchoTyped ==
    ASSUME Types, NEW m \in Node, NEW n \in Board, PingPackHandler(m, n)
    PROVE  LET p == Head(net[<<m, n>>])
           IN  /\ GoodLines(Consume(net, <<m, n>>)) /\ net[<<m, n>>] # <<>>
               /\ p \in On(net, m, n) /\ p \in PingPack(m, n) /\ p.type = "PING"
               /\ m \in Board /\ n \in Node
               /\ Echo(n, p) \in PacketOn(n, m)
               /\ net' = Transmit(Consume(net, <<m, n>>), Echo(n, p))
<1> DEFINE p == Head(net[<<m, n>>])
<1>1. Arrives(m, n, "PING") /\ net' = Transmit(Consume(net, <<m, n>>), Echo(n, p))
  BY DEF PingPackHandler
<1>2. /\ GoodLines(Consume(net, <<m, n>>)) /\ net[<<m, n>>] # <<>>
      /\ p \in On(net, m, n) /\ p \in PingPack(m, n) /\ p.type = "PING" /\ n \in Node
  BY <1>1, ArrivesTyped, PacketTyped
<1> HIDE DEF p
<1>3. m \in Board /\ p.src = m /\ p.payload \in Millis
  BY <1>2 DEF PingPack
<1>4. Echo(n, p) \in PacketOn(n, m)
  BY <1>3 DEF Echo, PacketOn, PingPack
<1> QED
  BY <1>1, <1>2, <1>3, <1>4 DEF p

LEMMA AskedTyped ==
    ASSUME Types, NEW m \in Node, NEW n \in Board, GetAddrListPackHandler(m, n)
    PROVE  LET p == [type |-> "ADDR", src |-> n, dst |-> Switch, field |-> {n}]
           IN  /\ GoodLines(Consume(net, <<m, n>>)) /\ net[<<m, n>>] # <<>>
               /\ Head(net[<<m, n>>]).type = "GET_ADDR_LIST"
               /\ m = Switch /\ n \in Node
               /\ p \in PacketOn(n, Switch)
               /\ net' = Transmit(Consume(net, <<m, n>>), p)
<1> DEFINE q == Head(net[<<m, n>>])
           p == [type |-> "ADDR", src |-> n, dst |-> Switch, field |-> {n}]
<1>1. Arrives(m, n, "GET_ADDR_LIST")
  BY DEF GetAddrListPackHandler
<1>2. /\ GoodLines(Consume(net, <<m, n>>)) /\ net[<<m, n>>] # <<>>
      /\ q \in GetAddrListPack(m, n) /\ n \in Node /\ q.type = "GET_ADDR_LIST"
  BY <1>1, ArrivesTyped, PacketTyped
<1>3. m = Switch
  BY <1>2, Boards DEF GetAddrListPack
<1>4. p \in PacketOn(n, Switch)
  BY Boards DEF PacketOn, AddrPack
<1>5. net' = Transmit(Consume(net, <<m, n>>), p)
  BY <1>3 DEF GetAddrListPackHandler
<1> QED
  BY <1>2, <1>3, <1>4, <1>5

LEMMA RespondTypes ==
    ASSUME Types, NEW m \in Node, NEW n \in Board,
           PingPackHandler(m, n) \/ GetAddrListPackHandler(m, n)
    PROVE  Types'
<1>1. /\ iface' = iface /\ sock' = sock /\ known' = known /\ todo' = todo
      /\ known \subseteq Board
      /\ todo \in [setup : SUBSET SocketId, kinds : SUBSET Kind, left : Nat]
  BY DEF PingPackHandler, GetAddrListPackHandler, Types
<1>2. GoodLines(net')
  <2>1. CASE PingPackHandler(m, n)
    <3> DEFINE p == Echo(n, Head(net[<<m, n>>]))
               rest == Consume(net, <<m, n>>)
    <3>1. /\ GoodLines(rest) /\ m \in Node /\ n \in Node /\ p \in PacketOn(n, m)
          /\ net' = Transmit(rest, p)
      BY <2>1, EchoTyped
    <3> HIDE DEF p, rest
    <3> QED
      BY <3>1, TransmitGood
  <2>2. CASE GetAddrListPackHandler(m, n)
    <3> DEFINE p == [type |-> "ADDR", src |-> n, dst |-> Switch, field |-> {n}]
               rest == Consume(net, <<m, n>>)
    <3>1. /\ GoodLines(rest) /\ n \in Node /\ p \in PacketOn(n, Switch)
          /\ net' = Transmit(rest, p)
      BY <2>2, AskedTyped
    <3> HIDE DEF p, rest
    <3> QED
      BY <3>1, TransmitGood, Boards
  <2> QED
    BY <2>1, <2>2
<1> QED
  BY <1>1, <1>2, LinesStep

(* What the switch takes and what it answers. *)
LEMMA SwitchTyped ==
    ASSUME Types, NEW n \in Board, SwitchPoll(n)
    PROVE  LET r == <<n, Switch>>
               p == Head(net[r])
               answer == [type |-> "ADDR", src |-> Switch, dst |-> n, field |-> known]
           IN  /\ GoodLines(Consume(net, r)) /\ net[r] # <<>> /\ n \in Node
               /\ p \in PacketOn(n, Switch)
               /\ known \subseteq known' /\ known' \subseteq Board
               /\ answer \in PacketOn(Switch, n)
               /\ net' = IF p.type = "GET_ADDR_LIST"
                         THEN Transmit(Consume(net, r), answer) ELSE Consume(net, r)
<1> DEFINE r == <<n, Switch>>
           p == Head(net[r])
           answer == [type |-> "ADDR", src |-> Switch, dst |-> n, field |-> known]
<1>1. n \in Node /\ GoodLines(net) /\ net[r] # <<>> /\ known \subseteq Board
  BY Boards DEF SwitchPoll, Types
<1>2. GoodLines(Consume(net, r)) /\ p \in PacketOn(n, Switch)
  BY <1>1, Boards, ConsumeGood
<1>3. answer \in PacketOn(Switch, n)
  BY <1>1, Boards DEF PacketOn, AddrPack
<1>4. p.type = "ADDR" => p.field \subseteq Board
  <2> HIDE DEF p
  <2>1. p.type = "ADDR" => p \in AddrPack(n, Switch)
    BY <1>1, <1>2, Boards, PacketTyped
  <2> QED
    BY <2>1 DEF AddrPack
<1>5. /\ known' = IF p.type = "ADDR" THEN known \cup p.field ELSE known
      /\ net' = IF p.type = "GET_ADDR_LIST"
                THEN Transmit(Consume(net, r), answer) ELSE Consume(net, r)
  BY DEF SwitchPoll
<1>6. known \subseteq known' /\ known' \subseteq Board
  BY <1>1, <1>4, <1>5
<1> QED
  BY <1>1, <1>2, <1>3, <1>5, <1>6

LEMMA SwitchTypes ==
    ASSUME Types, NEW n \in Board, SwitchPoll(n)
    PROVE  Types'
<1>1. /\ iface' = iface /\ sock' = sock /\ todo' = todo
      /\ todo \in [setup : SUBSET SocketId, kinds : SUBSET Kind, left : Nat]
  BY DEF SwitchPoll, Types
<1>2. GoodLines(net') /\ known' \subseteq Board
  <2> DEFINE answer == [type |-> "ADDR", src |-> Switch, dst |-> n, field |-> known]
             rest == Consume(net, <<n, Switch>>)
  <2>1. /\ GoodLines(rest) /\ n \in Node /\ answer \in PacketOn(Switch, n)
        /\ known' \subseteq Board
        /\ net' = Transmit(rest, answer) \/ net' = rest
    BY SwitchTyped
  <2> HIDE DEF answer, rest
  <2>2. GoodLines(Transmit(rest, answer))
    BY <2>1, TransmitGood, Boards
  <2> QED
    BY <2>1, <2>2
<1> QED
  BY <1>1, <1>2, LinesStep

LEMMA LoseTypes ==
    ASSUME Types, NEW m \in Node, NEW n \in Node, Lose(m, n)
    PROVE  Types'
<1>1. /\ iface' = iface /\ sock' = sock /\ known' = known /\ known \subseteq Board
      /\ GoodLines(net) /\ net[<<m, n>>] # <<>> /\ net' = Consume(net, <<m, n>>)
  BY DEF Lose, Types
<1>2. todo' \in [setup : SUBSET SocketId, kinds : SUBSET Kind, left : Nat]
  BY CountedTyped DEF Lose
<1>3. GoodLines(net')
  BY <1>1, ConsumeGood
<1> QED
  BY <1>1, <1>2, <1>3, LinesStep

LEMMA StepTypes == Types /\ [Next]_vars => Types'
<1> SUFFICES ASSUME Types, [Next]_vars PROVE Types'
  OBVIOUS
<1>1. CASE \E s \in SocketId :
             Construct(s) \/ Bind(s) \/ UnbindSocket(s) \/ Destroy(s) \/ Destruct(s)
  BY <1>1, BindingTypes
<1>2. CASE \E s \in SocketId : \E t \in SocketId, len \in Lens :
              \E dest \in {HomeOf[t], Group} \ {HomeOf[s]} : Write(s, dest, PortOf[t], len)
  <2>0. PICK s \in SocketId, t \in SocketId, len \in Lens :
            \E dest \in {HomeOf[t], Group} \ {HomeOf[s]} : Write(s, dest, PortOf[t], len)
    BY <1>2
  <2>1. PICK dest \in {HomeOf[t], Group} \ {HomeOf[s]} : Write(s, dest, PortOf[t], len)
    BY <2>0
  <2>2. GoodLines(net')
    BY <2>1, WriteLines
  <2>3. todo' \in [setup : SUBSET SocketId, kinds : SUBSET Kind, left : Nat]
    BY <2>1, CountedTyped DEF Write, Call
  <2>4. iface' = iface /\ sock' = sock /\ known' = known /\ known \subseteq Board
    BY <2>1 DEF Write, Types
  <2> QED
    BY <2>2, <2>3, <2>4, LinesStep
<1>3. CASE \E s \in SocketId, sub \in BOOLEAN : Subscribe(s, sub)
  BY <1>3, SendTypes, Boards
<1>4. CASE \E s \in SocketId, k \in 1 .. RingCap : Read(s, k)
  BY <1>4, ReadTypes
<1>5. CASE \E n \in Board : SetAddress(n) \/ SwitchAsks(n)
  BY <1>5, SendTypes
<1>6. CASE \E n \in Board : SwitchPoll(n)
  BY <1>6, SwitchTypes
<1>7. CASE \E n \in Board :
             \/ \E dest \in Board \ {n}, payload \in Millis : Ping(n, dest, payload)
             \/ GetAddrList(n)
  BY <1>7, RequestTypes
<1>8. CASE \E n \in Board : \/ PingReturn(n) \/ PingTimeout(n)
                            \/ GetAddrListReturn(n) \/ GetAddrListTimeout(n)
  BY <1>8, ReturnTypes
<1>9. CASE \E m \in Node, n \in Board : DatagramPackHandler(m, n)
  BY <1>9, DatagramHandlerTypes
<1>10. CASE \E m \in Node, n \in Board : PingEchoPackHandler(m, n) \/ AddrPackHandler(m, n)
  BY <1>10, AnswerTypes
<1>11. CASE \E m \in Node, n \in Board : PingPackHandler(m, n) \/ GetAddrListPackHandler(m, n)
  BY <1>11, RespondTypes
<1>12. CASE \E m, n \in Node : Lose(m, n)
  BY <1>12, LoseTypes
<1>13. CASE UNCHANGED vars
  BY <1>13 DEF vars, Types, GoodLines
<1> QED
  BY <1>1, <1>2, <1>3, <1>4, <1>5, <1>6, <1>7, <1>8, <1>9, <1>10, <1>11, <1>12, <1>13 DEF Next

LEMMA TypesImply == Types => TypeOK
<1> SUFFICES ASSUME Types PROVE TypeOK
  OBVIOUS
<1>1. ASSUME NEW n \in Board
      PROVE  /\ iface[n].sockets \subseteq SocketId
             /\ iface[n].ping_echo_payload \in Millis \cup {0}
             /\ iface[n].used \subseteq Millis \cup {0}
             /\ iface[n].addr_list_recved \in BOOLEAN /\ iface[n].addr_field \subseteq Board
             /\ iface[n].call.kind \in {"none", "ping", "list"}
             /\ iface[n].echoer \in Board \cup {Nobody} /\ iface[n].late \in BOOLEAN
  <2>1. iface[n] \in InterfaceObject
    BY DEF Types
  <2> QED
    BY <2>1 DEF InterfaceObject, CallInProgress, NoCall
<1>2. \A r \in Route : Len(net[r]) <= LineCap
  BY DEF Types, GoodLines, Route
<1> QED
  BY <1>1, <1>2 DEF Types, TypeOK, SocketObject

(* The state of every interface and socket keeps its type, and no list, ring or
   line holds more than its capacity, for any boards and capacities.        *)
THEOREM InterfaceTypes == Spec => []TypeOK
BY InitTypes, StepTypes, TypesImply, PTL DEF Spec
=============================================================================
