----------------------------- MODULE Interface -----------------------------
(***************************************************************************)
(* The interface of each board: the sockets bound to it, the datagrams it  *)
(* hands to them, and its requests to other boards (ping) and to the       *)
(* switch (get_addr_list).  The sockets are Datagram sockets; binding and  *)
(* dispatch are the same for streams.  A board is named by its address.    *)
(***************************************************************************)
EXTENDS Line, Datagram, FiniteSets

CONSTANTS
    Switch,     \* the switch: a node without sockets
    SocketId,   \* the socket objects of the applications
    HomeOf,     \* the board, and so the interface, of each socket
    PortOf,     \* the port of each socket
    Nobody,     \* no board: a null iface, or the address 0
    Group,      \* BROADCAST_ADDR or MULTICAST_ADDR
    ListCap,    \* sockets the list of an interface holds: 16
    Millis,     \* the values of the clock, modulo 2^16, at which pings are sent
    Lens,       \* lengths of the messages, in bytes
    Scenarios   \* the sockets bound in setup() and, as bounds, the kinds of calls
                \* that are made afterwards and their number

Board == Node \ {Switch}
Kind == {"object", "bind", "unbind", "destroy", "datagram", "subscribe", "ping", "list",
         "ask", "loss"}

(* Sockets that can all be bound: no two of a board share a port, and the
   list of each board has room.                                             *)
FitToBind(S) ==
    /\ \A s, t \in S : HomeOf[s] = HomeOf[t] /\ PortOf[s] = PortOf[t] => s = t
    /\ \A n \in Board : Cardinality({ s \in S : HomeOf[s] = n }) <= ListCap

ASSUME InterfaceAssumption ==
    /\ Switch \in Node
    /\ IsFiniteSet(SocketId)
    /\ HomeOf \in [SocketId -> Board]
    /\ PortOf \in [SocketId -> Nat]
    /\ Nobody \notin Node /\ Group \notin Node
    /\ ListCap \in Nat
    /\ Millis \subseteq Nat
    /\ Lens \subseteq Nat \ {0}
    /\ Scenarios \subseteq [setup : SUBSET SocketId, kinds : SUBSET Kind, left : Nat]
    /\ \A sc \in Scenarios : FitToBind(sc.setup)

VARIABLES
    iface,  \* the Interface object of each board, with the call it is in
    sock,   \* the socket objects
    net,    \* the packets on each route
    known,  \* the addresses the switch has learned
    todo    \* the scenario: the kinds of calls, and how many are left

vars == <<iface, sock, net, known, todo>>

NoCall == [kind |-> "none"]

(* echoer (who sent the last echo), used (the values of all pings and the
   initial 0) and late (a get_addr_list has timed out) are history.         *)
NewInterface ==
    [sockets |-> {}, ping_echo_payload |-> 0, addr_list_recved |-> FALSE,
     addr_field |-> {}, call |-> NoCall,
     echoer |-> Nobody, used |-> {0}, late |-> FALSE]

(* bound (the last bind returned true and nothing was undone since), got (the
   bytes read) and overran (a byte found the ring full) are history.        *)
NewSocket ==
    [alive |-> TRUE, iface |-> Nobody, remote |-> Nobody, ringbuf |-> <<>>,
     bound |-> FALSE, got |-> <<>>, overran |-> FALSE]

(* bind() gives the socket its interface. *)
BoundTo(n, s) == [s EXCEPT !.iface = n, !.bound = TRUE]

NoSocket == [NewSocket EXCEPT !.alive = FALSE]

Init ==
    /\ todo \in Scenarios
    /\ iface = [n \in Board |-> [NewInterface EXCEPT
                  !.sockets = { s \in todo.setup : HomeOf[s] = n }]]
    /\ sock = [s \in SocketId |->
                 IF s \in todo.setup THEN BoundTo(HomeOf[s], NewSocket) ELSE NewSocket]
    /\ net = EmptyLines
    /\ known = {}

Counted(kind) ==
    /\ kind \in todo.kinds /\ todo.left > 0
    /\ todo' = [todo EXCEPT !.left = @ - 1]

(* The application of board n, which runs one thread, makes a call. *)
Call(n, kind) ==
    /\ iface[n].call.kind = "none"
    /\ Counted(kind)

-----------------------------------------------------------------------------
(* The life of a socket and its place in the list of its interface.         *)

Construct(s) ==
    /\ Call(HomeOf[s], "object")
    /\ ~sock[s].alive
    /\ sock' = [sock EXCEPT ![s] = NewSocket]
    /\ UNCHANGED <<iface, net, known>>

PortTaken(n, port) == \E t \in iface[n].sockets : PortOf[t] = port

(* mutant: does not look for the port *)
BindUnchecked(s) ==
    LET n == HomeOf[s]
    IN  /\ Call(n, "bind")
        /\ sock[s].alive
        /\ sock' = [sock EXCEPT ![s] = BoundTo(n, @)]
        /\ iface' = [iface EXCEPT ![n].sockets =
                        IF Cardinality(@) < ListCap THEN @ \cup {s} ELSE @]
        /\ UNCHANGED <<net, known>>

(* bind() that returns true.  Where the port is taken it returns false and
   changes nothing.  append() does nothing when the list is full.           *)
Bind(s) ==
    LET n == HomeOf[s]
    IN  /\ Call(n, "bind")
        /\ sock[s].alive
        /\ ~PortTaken(n, PortOf[s])
        /\ sock' = [sock EXCEPT ![s] = BoundTo(n, @)]
        /\ iface' = [iface EXCEPT ![n].sockets =
                        IF Cardinality(@) < ListCap THEN @ \cup {s} ELSE @]
        /\ UNCHANGED <<net, known>>

(* Whoever has the port of s is taken from the list of board n. *)
Unbound(n, s) == [iface EXCEPT ![n].sockets = { t \in @ : PortOf[t] # PortOf[s] }]

(* unbind_socket(), called by the application with any socket of the board,
   whether or not its bind has succeeded.                                   *)
UnbindSocket(s) ==
    /\ Call(HomeOf[s], "unbind")
    /\ sock[s].alive
    /\ iface' = Unbound(HomeOf[s], s)
    /\ sock' = [sock EXCEPT ![s].bound = FALSE]
    /\ UNCHANGED <<net, known>>

(* What destroy() and the destructor do: unbind_socket() of the interface the
   socket points to, if there is one.                                       *)
Ended(s) == IF sock[s].iface = Nobody THEN iface ELSE Unbound(sock[s].iface, s)

(* destroy().  The pointer to the interface stays. *)
Destroy(s) ==
    /\ Call(HomeOf[s], "destroy")
    /\ sock[s].alive
    /\ iface' = Ended(s)
    /\ sock' = [sock EXCEPT ![s].bound = FALSE]
    /\ UNCHANGED <<net, known>>

(* mutant: the destructor leaves the list alone *)
DestructListed(s) ==
    /\ Call(HomeOf[s], "object")
    /\ sock[s].alive
    /\ sock' = [sock EXCEPT ![s] = NoSocket]
    /\ UNCHANGED <<iface, net, known>>

(* The destructor. *)
Destruct(s) ==
    /\ Call(HomeOf[s], "object")
    /\ sock[s].alive
    /\ iface' = Ended(s)
    /\ sock' = [sock EXCEPT ![s] = NoSocket]
    /\ UNCHANGED <<net, known>>

-----------------------------------------------------------------------------
(* Datagrams.  A byte is known by its sender, its message, its place in it
   and the message's length.                                                *)
Message(n, len) ==
    [k \in 1 .. len |-> [src |-> n, msg |-> todo.left, pos |-> k, len |-> len]]

(* The lines after the packets with these payloads have been sent from n, one
   after the other; those to a group go to every other board.               *)
TransmitAll(lines, n, dest, port, payloads) ==
    LET packet(m, i) == [type |-> "DATAGRAM", src |-> n, dst |-> m, dest |-> dest,
                         port |-> port, payload |-> payloads[i]]
        room(r) == LineCap - Len(lines[r])
        fits(r) == IF Len(payloads) <= room(r) THEN Len(payloads) ELSE room(r)
    IN  [r \in Route |->
            IF r[1] = n /\ r[2] \in (IF dest = Group THEN Board \ {n} ELSE {dest})
            THEN lines[r] \o [i \in 1 .. fits(r) |-> packet(r[2], i)]
            ELSE lines[r]]

(* Datagram::write needs an interface, not a place in its list.  It sends all
   packets before anything else runs on the board.                          *)
Write(s, dest, port, len) ==
    LET n == HomeOf[s]
    IN  /\ Call(n, "datagram")
        /\ sock[s].alive /\ sock[s].iface # Nobody
        /\ net' = TransmitAll(net, n, dest, port, Payloads(Message(n, len)))
        /\ UNCHANGED <<iface, sock, known>>

(* subscribe() and unsubscribe(): only the switches use the packet. *)
Subscribe(s, sub) ==
    LET n == HomeOf[s]
    IN  /\ Call(n, "subscribe")
        /\ sock[s].alive /\ sock[s].iface # Nobody
        /\ net' = Transmit(net, [type |-> "SUBSCRIBE", src |-> n, dst |-> Switch,
                                 port |-> PortOf[s], subscribe |-> sub])
        /\ UNCHANGED <<iface, sock, known>>

(* read() of k bytes that are in the ring already.  While it waits for more
   it polls, and when none come it changes nothing.                         *)
Read(s, k) ==
    /\ Call(HomeOf[s], "datagram")
    /\ sock[s].alive /\ k \in 1 .. Len(sock[s].ringbuf)
    /\ sock' = [sock EXCEPT
                  ![s].got = @ \o SubSeq(sock[s].ringbuf, 1, k),
                  ![s].ringbuf = SubSeq(@, k + 1, Len(@))]
    /\ UNCHANGED <<iface, net, known>>

-----------------------------------------------------------------------------
(* Requests.                                                                *)

(* set_address() announces the board's address. *)
SetAddress(n) ==
    /\ Call(n, "list")
    /\ net' = Transmit(net, [type |-> "ADDR", src |-> n, dst |-> Switch, field |-> {n}])
    /\ UNCHANGED <<iface, sock, known>>

Ping(n, dest, payload) ==
    /\ Call(n, "ping")
    /\ net' = Transmit(net, [type |-> "PING", src |-> n, dst |-> dest, payload |-> payload])
    /\ iface' = [iface EXCEPT
                   ![n].call = [kind |-> "ping", dest |-> dest, payload |-> payload,
                                fresh |-> payload \notin iface[n].used],
                   ![n].used = @ \cup {payload}]
    /\ UNCHANGED <<sock, known>>

PingReturn(n) ==
    /\ iface[n].call.kind = "ping"
    /\ iface[n].ping_echo_payload = iface[n].call.payload
    /\ iface' = [iface EXCEPT ![n].call = NoCall]
    /\ UNCHANGED <<sock, net, known, todo>>

PingTimeout(n) ==
    /\ iface[n].call.kind = "ping"
    /\ iface' = [iface EXCEPT ![n].call = NoCall]
    /\ UNCHANGED <<sock, net, known, todo>>

(* mutant: does not clear the flag of the last answer *)
GetAddrListUncleared(n) ==
    /\ Call(n, "list")
    /\ net' = Transmit(net, [type |-> "GET_ADDR_LIST", src |-> n, dst |-> Switch])
    /\ iface' = [iface EXCEPT ![n].call = [kind |-> "list", known |-> known]]
    /\ UNCHANGED <<sock, known>>

(* The call remembers, as history, what the switch knew when it was made. *)
GetAddrList(n) ==
    /\ Call(n, "list")
    /\ net' = Transmit(net, [type |-> "GET_ADDR_LIST", src |-> n, dst |-> Switch])
    /\ iface' = [iface EXCEPT ![n].call = [kind |-> "list", known |-> known],
                              ![n].addr_list_recved = FALSE]
    /\ UNCHANGED <<sock, known>>

GetAddrListReturn(n) ==
    /\ iface[n].call.kind = "list"
    /\ iface[n].addr_list_recved
    /\ iface' = [iface EXCEPT ![n].call = NoCall]
    /\ UNCHANGED <<sock, net, known, todo>>

GetAddrListTimeout(n) ==
    /\ iface[n].call.kind = "list"
    /\ iface' = [iface EXCEPT ![n].call = NoCall, ![n].late = TRUE]
    /\ UNCHANGED <<sock, net, known, todo>>

-----------------------------------------------------------------------------
(* The handlers.  A board polls in its main loop and in the loop of every
   call it is blocked in; p is the oldest packet of the route from m to n.  *)
Arrives(m, n, type) ==
    /\ net[<<m, n>>] # <<>>
    /\ Head(net[<<m, n>>]).type = type

(* mutant: notes the sender in every socket of the list *)
HeardByAll(s, p) ==
    IF PortOf[s] = p.port
    THEN [sock[s] EXCEPT !.remote = p.src, !.ringbuf = PutAll(@, p.payload),
                         !.overran = @ \/ Len(sock[s].ringbuf) + Len(p.payload) > RingCap]
    ELSE [sock[s] EXCEPT !.remote = p.src]

(* A listed socket after the packet: the one with its port takes it. *)
Heard(s, p) ==
    IF PortOf[s] = p.port
    THEN [sock[s] EXCEPT !.remote = p.src, !.ringbuf = PutAll(@, p.payload),
                         !.overran = @ \/ Len(sock[s].ringbuf) + Len(p.payload) > RingCap]
    ELSE sock[s]

DatagramPackHandler(m, n) ==
    LET p == Head(net[<<m, n>>])
    IN  /\ Arrives(m, n, "DATAGRAM")
        /\ sock' = [s \in SocketId |->
                      IF s \in iface[n].sockets /\ p.dest \in {n, Group}
                      THEN Heard(s, p) ELSE sock[s]]
        /\ net' = Consume(net, <<m, n>>)
        /\ UNCHANGED <<iface, known, todo>>

(* mutant: answers to the address that was pinged *)
EchoToDest(n, p) == [type |-> "PING_ECHO", src |-> n, dst |-> p.dst, payload |-> p.payload]

Echo(n, p) == [type |-> "PING_ECHO", src |-> n, dst |-> p.src, payload |-> p.payload]

PingPackHandler(m, n) ==
    LET p == Head(net[<<m, n>>])
    IN  /\ Arrives(m, n, "PING")
        /\ net' = Transmit(Consume(net, <<m, n>>), Echo(n, p))
        /\ UNCHANGED <<iface, sock, known, todo>>

PingEchoPackHandler(m, n) ==
    LET p == Head(net[<<m, n>>])
    IN  /\ Arrives(m, n, "PING_ECHO")
        /\ iface' = [iface EXCEPT ![n].ping_echo_payload = p.payload, ![n].echoer = p.src]
        /\ net' = Consume(net, <<m, n>>)
        /\ UNCHANGED <<sock, known, todo>>

AddrPackHandler(m, n) ==
    LET p == Head(net[<<m, n>>])
    IN  /\ Arrives(m, n, "ADDR")
        /\ iface' = [iface EXCEPT ![n].addr_field = p.field, ![n].addr_list_recved = TRUE]
        /\ net' = Consume(net, <<m, n>>)
        /\ UNCHANGED <<sock, known, todo>>

(* Asked for its addresses, a board answers with its own. *)
GetAddrListPackHandler(m, n) ==
    /\ Arrives(m, n, "GET_ADDR_LIST")
    /\ net' = Transmit(Consume(net, <<m, n>>),
                       [type |-> "ADDR", src |-> n, dst |-> m, field |-> {n}])
    /\ UNCHANGED <<iface, sock, known, todo>>

-----------------------------------------------------------------------------
(* The switch and the lines are outside the repository.                     *)

(* The switch learns announced addresses, answers requests for the list with
   what it has learned, and takes subscriptions.                            *)
SwitchPoll(n) ==
    LET r == <<n, Switch>>
        p == Head(net[r])
    IN  /\ net[r] # <<>>
        /\ known' = IF p.type = "ADDR" THEN known \cup p.field ELSE known
        /\ net' = IF p.type = "GET_ADDR_LIST"
                  THEN Transmit(Consume(net, r),
                                [type |-> "ADDR", src |-> Switch, dst |-> n, field |-> known])
                  ELSE Consume(net, r)
        /\ UNCHANGED <<iface, sock, todo>>

(* The switch asks board n for its address, to build its routing table. *)
SwitchAsks(n) ==
    /\ Counted("ask")
    /\ net' = Transmit(net, [type |-> "GET_ADDR_LIST", src |-> Switch, dst |-> n])
    /\ UNCHANGED <<iface, sock, known>>

Lose(m, n) ==
    /\ Counted("loss")
    /\ net[<<m, n>>] # <<>>
    /\ net' = Consume(net, <<m, n>>)
    /\ UNCHANGED <<iface, sock, known>>

-----------------------------------------------------------------------------
Next ==
    \/ \E s \in SocketId :
          \/ Construct(s) \/ Bind(s) \/ UnbindSocket(s) \/ Destroy(s) \/ Destruct(s)
          \/ \E t \in SocketId, len \in Lens :
                \E dest \in {HomeOf[t], Group} \ {HomeOf[s]} : Write(s, dest, PortOf[t], len)
          \/ \E sub \in BOOLEAN : Subscribe(s, sub)
          \/ \E k \in 1 .. RingCap : Read(s, k)
    \/ \E n \in Board :
          \/ SetAddress(n)
          \/ \E dest \in Board \ {n}, payload \in Millis : Ping(n, dest, payload)
          \/ PingReturn(n) \/ PingTimeout(n)
          \/ GetAddrList(n) \/ GetAddrListReturn(n) \/ GetAddrListTimeout(n)
          \/ SwitchPoll(n) \/ SwitchAsks(n)
    \/ \E m \in Node, n \in Board :
          \/ DatagramPackHandler(m, n)
          \/ PingPackHandler(m, n) \/ PingEchoPackHandler(m, n)
          \/ AddrPackHandler(m, n) \/ GetAddrListPackHandler(m, n)
    \/ \E m, n \in Node : Lose(m, n)

Spec == Init /\ [][Next]_vars

-----------------------------------------------------------------------------
ByteOfMessage == [src : Board, msg : Nat, pos : Nat, len : Lens]

(* Every variable has its type, and no list or ring holds more than its
   capacity.                                                                *)
TypeOK ==
    /\ \A n \in Board :
          LET i == iface[n]
          IN  /\ i.sockets \subseteq SocketId /\ Cardinality(i.sockets) <= ListCap
              /\ i.ping_echo_payload \in Millis \cup {0} /\ i.used \subseteq Millis \cup {0}
              /\ i.addr_list_recved \in BOOLEAN /\ i.addr_field \subseteq Board
              /\ i.call.kind \in {"none", "ping", "list"}
              /\ i.echoer \in Board \cup {Nobody} /\ i.late \in BOOLEAN
    /\ sock \in [SocketId ->
          [alive : BOOLEAN, iface : Board \cup {Nobody}, remote : Board \cup {Nobody},
           ringbuf : Seq(ByteOfMessage), bound : BOOLEAN, got : Seq(ByteOfMessage),
           overran : BOOLEAN]]
    /\ \A s \in SocketId : Len(sock[s].ringbuf) <= RingCap
    /\ \A r \in Route : Len(net[r]) <= LineCap
    /\ known \subseteq Board
    /\ todo \in [setup : SUBSET SocketId, kinds : SUBSET Kind, left : Nat]

(* Dispatch is safe: an interface lists only living sockets that were bound
   to it and not unbound since, and no two on one port, whatever the sockets
   of the board do to one another through a shared port.                    *)
ListIsSound ==
    \A n \in Board : \A s \in iface[n].sockets :
        /\ sock[s].alive /\ sock[s].bound /\ sock[s].iface = n
        /\ \A t \in iface[n].sockets : PortOf[t] = PortOf[s] => t = s

(* A socket whose bind returned true is listed until it is unbound or ends. *)
BoundIsHeard ==
    \A s \in SocketId : sock[s].bound => s \in iface[HomeOf[s]].sockets

Taken(s) == sock[s].got \o sock[s].ringbuf

(* get_remote() is good for a reply: the remote of a socket is the sender of
   the last byte that came, so an application that has read everything
   answers whom it heard last.  What is left in the ring when another board
   sends is no longer told apart.                                           *)
RemoteSentLast ==
    \A s \in SocketId :
        ~sock[s].overran /\ Taken(s) # <<>> =>
            sock[s].remote = Taken(s)[Len(Taken(s))].src

(* A message that fits a payload arrives whole and in one piece or not at
   all, unless the receiver's ring is overrun.                              *)
SmallMessagesWhole ==
    \A s \in SocketId : \A i \in DOMAIN Taken(s) :
        LET byte == Taken(s)[i]
            start == i - byte.pos
        IN  ~sock[s].overran /\ byte.len <= PayloadCap =>
                /\ start >= 0 /\ start + byte.len <= Len(Taken(s))
                /\ \A k \in 1 .. byte.len :
                      Taken(s)[start + k] = [byte EXCEPT !.pos = k]

(* A ping that is about to succeed was answered by the board it was sent to,
   if its clock value is neither 0 nor that of an earlier ping of the board:
   the last echo is never forgotten.                                        *)
PingHonest ==
    \A n \in Board :
        LET call == iface[n].call
        IN  /\ call.kind = "ping" /\ call.fresh
            /\ iface[n].ping_echo_payload = call.payload
            => iface[n].echoer = call.dest

(* The list that get_addr_list is about to return is no older than the call:
   it has every address the switch knew by then, unless an earlier call timed
   out, whose late answer is taken for this one's.                          *)
ListIsCurrent ==
    \A n \in Board :
        LET call == iface[n].call
        IN  /\ call.kind = "list" /\ iface[n].addr_list_recved
            /\ ~iface[n].late
            => call.known \subseteq iface[n].addr_field
=============================================================================
