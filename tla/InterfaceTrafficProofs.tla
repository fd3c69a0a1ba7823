------------------------ MODULE InterfaceTrafficProofs ------------------------
(***************************************************************************)
(* What the packets on the lines say about the boards, for any boards,     *)
(* calls and losses: that a ping is answered by the board that was pinged, *)
(* that a list is no older than its call, and whose bytes a datagram       *)
(* socket is given.  Each needs an invariant about the packets that are    *)
(* still on their way; a lemma (StepCalm) says which steps add which.      *)
(***************************************************************************)
EXTENDS InterfaceProofs

-----------------------------------------------------------------------------
(* What a step adds to the lines.                                           *)

(* No packet of this type has entered the route from m to n. *)
NoMore(lines, m, n, type) ==
    \A p \in On(lines, m, n) : p.type = type => p \in On(net, m, n)

AtMostOne(q, type) ==
    \A i, j \in DOMAIN q : q[i].type = type /\ q[j].type = type => i = j

(* Neither a request for the list nor an answer has entered the lines between
   board n and the switch.                                                  *)
ListCalm(lines, n) ==
    /\ NoMore(lines, n, Switch, "GET_ADDR_LIST")
    /\ NoMore(lines, Switch, n, "ADDR")
    /\ AtMostOne(net[<<n, Switch>>], "GET_ADDR_LIST")
           => AtMostOne(lines[<<n, Switch>>], "GET_ADDR_LIST")
    /\ AtMostOne(net[<<Switch, n>>], "ADDR") => AtMostOne(lines[<<Switch, n>>], "ADDR")

DatagramsCalm(lines) == \A m, n \in Node : NoMore(lines, m, n, "DATAGRAM")

PingsCalm(lines) ==
    \A m, n \in Node : NoMore(lines, m, n, "PING") /\ NoMore(lines, m, n, "PING_ECHO")

ListsCalm(lines) == \A n \in Board : ListCalm(lines, n)

Calm(lines) == DatagramsCalm(lines) /\ PingsCalm(lines) /\ ListsCalm(lines)

LEMMA SameCalm == Calm(net)
BY DEF Calm, DatagramsCalm, PingsCalm, ListsCalm, ListCalm, NoMore

LEMMA TailOne ==
    ASSUME NEW S, NEW q \in Seq(S), q # <<>>, NEW type
    PROVE  /\ AtMostOne(q, type) => AtMostOne(Tail(q), type)
           /\ AtMostOne(q, type) /\ Head(q).type = type =>
                 \A i \in DOMAIN Tail(q) : Tail(q)[i].type # type
<1>1. /\ \A i \in DOMAIN Tail(q) : i \in Int /\ i > 0 /\ i + 1 \in DOMAIN q /\ Tail(q)[i] = q[i + 1]
      /\ Head(q) = q[1] /\ 1 \in DOMAIN q
  OBVIOUS
<1>2. ASSUME AtMostOne(q, type)
      PROVE  AtMostOne(Tail(q), type)
  <2> SUFFICES ASSUME NEW i \in DOMAIN Tail(q), NEW j \in DOMAIN Tail(q),
                      Tail(q)[i].type = type, Tail(q)[j].type = type
               PROVE  i = j
    BY DEF AtMostOne
  <2>1. i + 1 = j + 1
    BY <1>1, <1>2 DEF AtMostOne
  <2> QED
    BY <1>1, <2>1
<1>3. ASSUME AtMostOne(q, type), Head(q).type = type, NEW i \in DOMAIN Tail(q)
      PROVE  Tail(q)[i].type # type
  <2> SUFFICES ASSUME Tail(q)[i].type = type PROVE FALSE
    OBVIOUS
  <2>1. i + 1 = 1
    BY <1>1, <1>3 DEF AtMostOne
  <2> QED
    BY <1>1, <2>1
<1> QED
  BY <1>2, <1>3

LEMMA AppendOne ==
    ASSUME NEW S, NEW q \in Seq(S), NEW p, NEW type
    PROVE  /\ AtMostOne(q, type) /\ p.type # type => AtMostOne(Append(q, p), type)
           /\ (\A i \in DOMAIN q : q[i].type # type) => AtMostOne(Append(q, p), type)
<1> DEFINE new == Append(q, p)
<1>1. \A i \in DOMAIN new : \/ i = Len(q) + 1 /\ new[i] = p
                            \/ i \in DOMAIN q /\ new[i] = q[i]
  OBVIOUS
<1> HIDE DEF new
<1>2. (AtMostOne(q, type) /\ p.type # type) => AtMostOne(new, type)
  BY <1>1 DEF AtMostOne
<1>3. (\A i \in DOMAIN q : q[i].type # type) => AtMostOne(new, type)
  BY <1>1 DEF AtMostOne
<1> QED
  BY <1>2, <1>3 DEF new

LEMMA ConsumeCalm ==
    ASSUME GoodLines(net), NEW a \in Node, NEW b \in Node, net[<<a, b>>] # <<>>
    PROVE  Calm(Consume(net, <<a, b>>))
<1> DEFINE r == <<a, b>>
           new == Consume(net, r)
<1>1. \A m, n \in Node : On(new, m, n) \subseteq On(net, m, n)
  BY ConsumeOn
<1>2. /\ new[r] = Tail(net[r]) /\ \A k \in Route \ {r} : new[k] = net[k]
      /\ net[r] \in Seq(PacketOn(a, b))
  BY ConsumeGood
<1> HIDE DEF new, r
<1>3. ASSUME NEW m \in Node, NEW n \in Node, NEW type, AtMostOne(net[<<m, n>>], type)
      PROVE  AtMostOne(new[<<m, n>>], type)
  <2>1. CASE <<m, n>> = r
    <3>1. net[r] # <<>> /\ AtMostOne(net[r], type)
      BY <1>3, <2>1 DEF r
    <3>2. AtMostOne(Tail(net[r]), type)
      BY <1>2, <3>1, TailOne
    <3> QED
      BY <1>2, <2>1, <3>2
  <2>2. CASE <<m, n>> # r
    <3>1. <<m, n>> \in Route \ {r}
      BY <2>2, Routes
    <3> QED
      BY <1>2, <1>3, <3>1
  <2> QED
    BY <2>1, <2>2
<1>4. DatagramsCalm(new) /\ PingsCalm(new)
  BY <1>1 DEF DatagramsCalm, PingsCalm, NoMore
<1>5. ListsCalm(new)
  BY <1>1, <1>3, Boards DEF ListsCalm, ListCalm, NoMore
<1> QED
  BY <1>4, <1>5 DEF Calm, new, r

LEMMA TransmitCalm ==
    ASSUME NEW lines, GoodLines(lines), NEW a \in Node, NEW b \in Node,
           NEW p \in PacketOn(a, b)
    PROVE  LET new == Transmit(lines, p)
           IN  /\ DatagramsCalm(lines) /\ p.type # "DATAGRAM" => DatagramsCalm(new)
               /\ PingsCalm(lines) /\ p.type \notin {"PING", "PING_ECHO"} => PingsCalm(new)
               /\ \A n \in Board :
                     /\ ListCalm(lines, n)
                     /\ ~(p.type = "GET_ADDR_LIST" /\ a = n /\ b = Switch)
                     /\ ~(p.type = "ADDR" /\ a = Switch /\ b = n)
                     => ListCalm(new, n)
<1> DEFINE new == Transmit(lines, p)
<1>1. ASSUME NEW m \in Node, NEW n \in Node
      PROVE  /\ On(new, m, n) \subseteq On(lines, m, n) \cup {p}
             /\ m # a \/ n # b => On(new, m, n) = On(lines, m, n)
  BY TransmitOn
<1>2. /\ \A m, n \in Node : m # a \/ n # b => new[<<m, n>>] = lines[<<m, n>>]
      /\ new[<<a, b>>] \in {lines[<<a, b>>], Append(lines[<<a, b>>], p)}
  BY TransmitGood
<1> HIDE DEF new
<1>3. ASSUME NEW m \in Node, NEW n \in Node, NEW type, m # a \/ n # b \/ p.type # type,
             NoMore(lines, m, n, type)
      PROVE  NoMore(new, m, n, type)
  BY <1>1, <1>3 DEF NoMore
<1>4. ASSUME NEW m \in Node, NEW n \in Node, NEW type, m # a \/ n # b \/ p.type # type,
             AtMostOne(lines[<<m, n>>], type)
      PROVE  AtMostOne(new[<<m, n>>], type)
  <2>1. CASE m # a \/ n # b
    BY <1>2, <1>4, <2>1
  <2>2. CASE m = a /\ n = b
    <3>1. /\ lines[<<a, b>>] \in Seq(PacketOn(a, b)) /\ p.type # type
          /\ AtMostOne(lines[<<a, b>>], type)
      BY <1>4, <2>2 DEF GoodLines
    <3>2. AtMostOne(Append(lines[<<a, b>>], p), type)
      BY <3>1, AppendOne
    <3> QED
      BY <1>2, <2>2, <3>1, <3>2
  <2> QED
    BY <2>1, <2>2
<1>5. ASSUME DatagramsCalm(lines), p.type # "DATAGRAM" PROVE DatagramsCalm(new)
  BY <1>3, <1>5 DEF DatagramsCalm
<1>6. ASSUME PingsCalm(lines), p.type \notin {"PING", "PING_ECHO"} PROVE PingsCalm(new)
  BY <1>3, <1>6 DEF PingsCalm
<1>7. ASSUME NEW n \in Board, ListCalm(lines, n),
             ~(p.type = "GET_ADDR_LIST" /\ a = n /\ b = Switch),
             ~(p.type = "ADDR" /\ a = Switch /\ b = n)
      PROVE  ListCalm(new, n)
  <2>1. /\ n \in Node /\ Switch \in Node
        /\ n # a \/ Switch # b \/ p.type # "GET_ADDR_LIST"
        /\ Switch # a \/ n # b \/ p.type # "ADDR"
    BY <1>7, Boards
  <2>2. /\ NoMore(new, n, Switch, "GET_ADDR_LIST") /\ NoMore(new, Switch, n, "ADDR")
    BY <1>3, <1>7, <2>1 DEF ListCalm
  <2>3. /\ AtMostOne(net[<<n, Switch>>], "GET_ADDR_LIST")
             => AtMostOne(new[<<n, Switch>>], "GET_ADDR_LIST")
        /\ AtMostOne(net[<<Switch, n>>], "ADDR") => AtMostOne(new[<<Switch, n>>], "ADDR")
    BY <1>4, <1>7, <2>1 DEF ListCalm
  <2> QED
    BY <2>2, <2>3 DEF ListCalm
<1> QED
  BY <1>5, <1>6, <1>7 DEF new

SomeWrite ==
    \E s, t \in SocketId, len \in Lens :
        \E dest \in {HomeOf[t], Group} \ {HomeOf[s]} : Write(s, dest, PortOf[t], len)

SomePing == \E n \in Board : \E dest \in Board \ {n}, payload \in Millis : Ping(n, dest, payload)
SomePong == \E m \in Node, n \in Board : PingPackHandler(m, n)
SomeEcho == \E m \in Node, n \in Board : PingEchoPackHandler(m, n)

LEMMA WriteCalm ==
    ASSUME Types, SomeWrite
    PROVE  PingsCalm(net') /\ ListsCalm(net')
<1>0. PICK s \in SocketId, t \in SocketId, len \in Lens :
          \E dest \in {HomeOf[t], Group} \ {HomeOf[s]} : Write(s, dest, PortOf[t], len)
  BY DEF SomeWrite
<1>1. PICK dest \in {HomeOf[t], Group} \ {HomeOf[s]} : Write(s, dest, PortOf[t], len)
  BY <1>0
<1>2. /\ \A a, b \in Node : a \notin Board \/ b \notin Board => net'[<<a, b>>] = net[<<a, b>>]
      /\ \A a, b \in Node : \A p \in On(net', a, b) : p \in On(net, a, b) \/ p.type = "DATAGRAM"
  BY <1>1, WriteLines
<1>3. PingsCalm(net')
  BY <1>2 DEF PingsCalm, NoMore
<1>4. ASSUME NEW n \in Board PROVE ListCalm(net', n)
  <2>1. /\ net'[<<n, Switch>>] = net[<<n, Switch>>]
        /\ net'[<<Switch, n>>] = net[<<Switch, n>>]
    BY <1>2, Boards
  <2> QED
    BY <2>1 DEF ListCalm, NoMore, On
<1> QED
  BY <1>3, <1>4 DEF ListsCalm

(* A packet of another kind has entered. *)
LEMMA SendCalm ==
    ASSUME Types, NEW n \in Board,
           \/ \E s \in SocketId, sub \in BOOLEAN : HomeOf[s] = n /\ Subscribe(s, sub)
           \/ SetAddress(n)
           \/ SwitchAsks(n)
    PROVE  Calm(net')
<1>1. GoodLines(net) /\ n \in Node
  BY Boards DEF Types
<1>2. PICK a, b, p :
        /\ a \in Node /\ b \in Node /\ p \in PacketOn(a, b)
        /\ net' = Transmit(net, p)
        /\ p.type \in {"SUBSCRIBE", "ADDR", "GET_ADDR_LIST"}
        /\ p.type = "GET_ADDR_LIST" => a = Switch
        /\ p.type = "ADDR" => b = Switch
  <2>1. CASE \E s \in SocketId, sub \in BOOLEAN : HomeOf[s] = n /\ Subscribe(s, sub)
    <3>1. PICK s \in SocketId, sub \in BOOLEAN : HomeOf[s] = n /\ Subscribe(s, sub)
      BY <2>1
    <3> DEFINE p == [type |-> "SUBSCRIBE", src |-> n, dst |-> Switch,
                     port |-> PortOf[s], subscribe |-> sub]
    <3>2. p \in PacketOn(n, Switch) /\ p.type = "SUBSCRIBE"
      BY Boards DEF PacketOn, SubscribePack
    <3>3. net' = Transmit(net, p)
      BY <3>1 DEF Subscribe
    <3> HIDE DEF p
    <3> QED
      BY <1>1, <3>2, <3>3, Boards
  <2>2. CASE SetAddress(n)
    <3> DEFINE p == [type |-> "ADDR", src |-> n, dst |-> Switch, field |-> {n}]
    <3>1. p \in PacketOn(n, Switch) /\ p.type = "ADDR"
      BY Boards DEF PacketOn, AddrPack
    <3>2. net' = Transmit(net, p)
      BY <2>2 DEF SetAddress
    <3> HIDE DEF p
    <3> QED
      BY <1>1, <3>1, <3>2, Boards
  <2>3. CASE SwitchAsks(n)
    <3> DEFINE p == [type |-> "GET_ADDR_LIST", src |-> Switch, dst |-> n]
    <3>1. p \in PacketOn(Switch, n) /\ p.type = "GET_ADDR_LIST"
      BY Boards DEF PacketOn, GetAddrListPack
    <3>2. net' = Transmit(net, p)
      BY <2>3 DEF SwitchAsks
    <3> HIDE DEF p
    <3> QED
      BY <1>1, <3>1, <3>2, Boards
  <2> QED
    BY <2>1, <2>2, <2>3
<1>3. DatagramsCalm(net') /\ PingsCalm(net')
  BY <1>1, <1>2, SameCalm, TransmitCalm DEF Calm
<1>4. ASSUME NEW k \in Board PROVE ListCalm(net', k)
  <2>1. ListCalm(net, k) /\ k # Switch
    BY SameCalm, Boards DEF Calm, ListsCalm
  <2> QED
    BY <1>1, <1>2, <2>1, TransmitCalm
<1> QED
  BY <1>3, <1>4 DEF Calm, ListsCalm

LEMMA PingCalm ==
    ASSUME Types, SomePing \/ SomePong
    PROVE  DatagramsCalm(net') /\ ListsCalm(net')
<1>1. PICK lines, a, b, p :
        /\ a \in Node /\ b \in Node /\ p \in PacketOn(a, b)
        /\ GoodLines(lines) /\ Calm(lines)
        /\ net' = Transmit(lines, p)
        /\ p.type \in {"PING", "PING_ECHO"}
  <2>1. CASE SomePing
    <3>1. PICK n \in Board : \E dest \in Board \ {n}, payload \in Millis : Ping(n, dest, payload)
      BY <2>1 DEF SomePing
    <3>2. PICK dest \in Board \ {n}, payload \in Millis : Ping(n, dest, payload)
      BY <3>1
    <3> DEFINE p == [type |-> "PING", src |-> n, dst |-> dest, payload |-> payload]
    <3>3. p \in PacketOn(n, dest) /\ p.type = "PING" /\ n \in Node /\ dest \in Node
      BY Boards DEF PacketOn, PingPack
    <3>4. net' = Transmit(net, p) /\ GoodLines(net)
      BY <3>2 DEF Ping, Types
    <3> HIDE DEF p
    <3> QED
      BY <3>3, <3>4, SameCalm
  <2>2. CASE SomePong
    <3>1. PICK m \in Node, n \in Board : PingPackHandler(m, n)
      BY <2>2 DEF SomePong
    <3> DEFINE p == Echo(n, Head(net[<<m, n>>]))
               rest == Consume(net, <<m, n>>)
    <3>2. /\ GoodLines(rest) /\ net[<<m, n>>] # <<>> /\ n \in Node /\ p \in PacketOn(n, m)
          /\ net' = Transmit(rest, p)
      BY <3>1, EchoTyped
    <3>3. p.type = "PING_ECHO"
      BY DEF Echo
    <3>4. Calm(rest)
      BY <3>2, ConsumeCalm DEF Types
    <3> HIDE DEF p, rest
    <3> QED
      BY <3>2, <3>3, <3>4
  <2> QED
    BY <2>1, <2>2
<1>2. DatagramsCalm(net')
  BY <1>1, TransmitCalm DEF Calm
<1>3. ASSUME NEW n \in Board PROVE ListCalm(net', n)
  <2>1. ListCalm(lines, n)
    BY <1>1 DEF Calm, ListsCalm
  <2> QED
    BY <1>1, <2>1, TransmitCalm
<1> QED
  BY <1>2, <1>3 DEF ListsCalm

(* Asked by the switch, a board sends no request and no answer of the switch. *)
LEMMA AskedCalm ==
    ASSUME Types, NEW m \in Node, NEW n \in Board, GetAddrListPackHandler(m, n)
    PROVE  Calm(net')
<1> DEFINE p == [type |-> "ADDR", src |-> n, dst |-> Switch, field |-> {n}]
           rest == Consume(net, <<m, n>>)
<1>1. /\ GoodLines(rest) /\ net[<<m, n>>] # <<>> /\ n \in Node
      /\ p \in PacketOn(n, Switch) /\ net' = Transmit(rest, p)
  BY AskedTyped
<1>2. Calm(rest)
  BY <1>1, ConsumeCalm DEF Types
<1>3. p.type = "ADDR"
  OBVIOUS
<1> HIDE DEF p, rest
<1>4. DatagramsCalm(net') /\ PingsCalm(net')
  BY <1>1, <1>2, <1>3, Boards, TransmitCalm DEF Calm
<1>5. ASSUME NEW k \in Board PROVE ListCalm(net', k)
  <2>1. ListCalm(rest, k) /\ k # Switch
    BY <1>2, Boards DEF Calm, ListsCalm
  <2> QED
    BY <1>1, <1>3, <2>1, Boards, TransmitCalm
<1> QED
  BY <1>4, <1>5 DEF Calm, ListsCalm

LEMMA GetAddrListCalm ==
    ASSUME Types, NEW n \in Board, GetAddrList(n)
    PROVE  /\ DatagramsCalm(net') /\ PingsCalm(net')
           /\ \A k \in Board \ {n} : ListCalm(net', k)
<1> DEFINE p == [type |-> "GET_ADDR_LIST", src |-> n, dst |-> Switch]
<1>1. p \in PacketOn(n, Switch) /\ p.type = "GET_ADDR_LIST"
  BY Boards DEF PacketOn, GetAddrListPack
<1>2. net' = Transmit(net, p) /\ GoodLines(net) /\ n \in Node /\ Switch \in Node
  BY Boards DEF GetAddrList, Types
<1> HIDE DEF p
<1>3. DatagramsCalm(net') /\ PingsCalm(net')
  BY <1>1, <1>2, SameCalm, TransmitCalm DEF Calm
<1>4. ASSUME NEW k \in Board \ {n} PROVE ListCalm(net', k)
  <2>1. ListCalm(net, k) /\ k # Switch
    BY SameCalm, Boards DEF Calm, ListsCalm
  <2> QED
    BY <1>1, <1>2, <2>1, TransmitCalm
<1> QED
  BY <1>3, <1>4

LEMMA SwitchCalm ==
    ASSUME Types, NEW n \in Board, SwitchPoll(n)
    PROVE  /\ DatagramsCalm(net') /\ PingsCalm(net')
           /\ \A k \in Board \ {n} : ListCalm(net', k)
<1> DEFINE answer == [type |-> "ADDR", src |-> Switch, dst |-> n, field |-> known]
           rest == Consume(net, <<n, Switch>>)
<1>1. /\ GoodLines(rest) /\ net[<<n, Switch>>] # <<>> /\ n \in Node
      /\ answer \in PacketOn(Switch, n)
      /\ net' = Transmit(rest, answer) \/ net' = rest
  BY SwitchTyped
<1>2. Calm(rest)
  BY <1>1, Boards, ConsumeCalm DEF Types
<1>3. answer.type = "ADDR"
  OBVIOUS
<1> HIDE DEF answer, rest
<1>4. CASE net' = rest
  BY <1>2, <1>4 DEF Calm, ListsCalm
<1>5. CASE net' = Transmit(rest, answer)
  <2>1. DatagramsCalm(net') /\ PingsCalm(net')
    BY <1>1, <1>2, <1>3, <1>5, Boards, TransmitCalm DEF Calm
  <2>2. ASSUME NEW k \in Board \ {n} PROVE ListCalm(net', k)
    <3>1. ListCalm(rest, k) /\ k # Switch
      BY <1>2, Boards DEF Calm, ListsCalm
    <3> QED
      BY <1>1, <1>3, <1>5, <3>1, Boards, TransmitCalm
  <2> QED
    BY <2>1, <2>2
<1> QED
  BY <1>1, <1>4, <1>5

LEMMA StepCalm ==
    ASSUME Types, [Next]_vars
    PROVE  /\ SomeWrite \/ DatagramsCalm(net')
           /\ SomePing \/ SomePong \/ PingsCalm(net')
           /\ \/ \E n \in Board : GetAddrList(n) \/ SwitchPoll(n)
              \/ ListsCalm(net')
<1> DEFINE Good == /\ SomeWrite \/ DatagramsCalm(net')
                   /\ SomePing \/ SomePong \/ PingsCalm(net')
                   /\ \/ \E n \in Board : GetAddrList(n) \/ SwitchPoll(n)
                      \/ ListsCalm(net')
<1>1. ASSUME Calm(net') PROVE Good
  BY <1>1 DEF Calm
<1>2. CASE SomeWrite
  BY <1>2, WriteCalm
<1>3. CASE SomePing \/ SomePong
  BY <1>3, PingCalm
<1>4. CASE \E n \in Board : GetAddrList(n)
  BY <1>4, GetAddrListCalm
<1>5. CASE \E n \in Board : SwitchPoll(n)
  BY <1>5, SwitchCalm
<1>6. CASE \E m \in Node, n \in Board : GetAddrListPackHandler(m, n)
  BY <1>1, <1>6, AskedCalm
<1>7. CASE \/ \E s \in SocketId, sub \in BOOLEAN : Subscribe(s, sub)
           \/ \E n \in Board : SetAddress(n) \/ SwitchAsks(n)
  BY <1>1, <1>7, SendCalm, Boards
<1>8. ASSUME net' = net PROVE Good
  <2>1. Calm(net')
    BY <1>8, SameCalm
  <2> QED
    BY <1>1, <2>1
<1>9. ASSUME NEW m \in Node, NEW n \in Node, net[<<m, n>>] # <<>>,
             net' = Consume(net, <<m, n>>)
      PROVE  Good
  <2>1. Calm(net')
    BY <1>9, ConsumeCalm DEF Types
  <2> QED
    BY <1>1, <2>1
<1> HIDE DEF Good
<1>10. CASE \/ \E s \in SocketId : \/ Construct(s) \/ Bind(s) \/ UnbindSocket(s)
                                   \/ Destroy(s) \/ Destruct(s)
                                   \/ \E k \in 1 .. RingCap : Read(s, k)
            \/ \E n \in Board : \/ PingReturn(n) \/ PingTimeout(n)
                                \/ GetAddrListReturn(n) \/ GetAddrListTimeout(n)
            \/ UNCHANGED vars
  <2>1. net' = net
    BY <1>10 DEF Construct, Bind, UnbindSocket, Destroy, Destruct, Read, PingReturn,
                 PingTimeout, GetAddrListReturn, GetAddrListTimeout, vars
  <2> QED
    BY <1>8, <2>1 DEF Good
<1>11. CASE \/ \E m \in Node, n \in Board : \/ DatagramPackHandler(m, n)
                                            \/ PingEchoPackHandler(m, n)
                                            \/ AddrPackHandler(m, n)
            \/ \E m, n \in Node : Lose(m, n)
  <2>1. \E m, n \in Node : net[<<m, n>>] # <<>> /\ net' = Consume(net, <<m, n>>)
    BY <1>11, Boards DEF DatagramPackHandler, PingEchoPackHandler, AddrPackHandler, Lose,
                         Arrives
  <2> QED
    BY <1>9, <2>1 DEF Good
<1>12. Good
  <2>1. SomeWrite \/ SomePing \/ SomePong => Good
    BY <1>2, <1>3 DEF Good
  <2>2. (\E n \in Board : GetAddrList(n) \/ SwitchPoll(n)) => Good
    BY <1>4, <1>5 DEF Good
  <2> QED
    BY <1>6, <1>7, <1>10, <1>11, <2>1, <2>2 DEF Next, SomeWrite, SomePing, SomePong, Good
<1> QED
  BY <1>12 DEF Good

-----------------------------------------------------------------------------
(* Pings.                                                                   *)

(* What comes back to a board are values it has sent; and while a ping with a
   new value is out, only the board it goes to has the value.               *)
PingsTold(n) ==
    /\ iface[n].ping_echo_payload \in iface[n].used
    /\ \A m \in Node :
          /\ \A p \in On(net, n, m) : p.type = "PING" => p.payload \in iface[n].used
          /\ \A p \in On(net, m, n) : p.type = "PING_ECHO" => p.payload \in iface[n].used

OneAsked(n) ==
    LET call == iface[n].call
    IN  call.kind = "ping" /\ call.fresh =>
          /\ iface[n].ping_echo_payload = call.payload => iface[n].echoer = call.dest
          /\ \A m \in Node \ {call.dest} :
                /\ \A p \in On(net, n, m) : ~(p.type = "PING" /\ p.payload = call.payload)
                /\ \A p \in On(net, m, n) : ~(p.type = "PING_ECHO" /\ p.payload = call.payload)

PingInv == \A n \in Board : PingsTold(n) /\ OneAsked(n)

(* Nothing about the pings of board n has changed, but the call may be over. *)
PingKept(n) ==
    /\ iface'[n].used = iface[n].used
    /\ iface'[n].ping_echo_payload = iface[n].ping_echo_payload
    /\ iface'[n].echoer = iface[n].echoer
    /\ iface'[n].call = iface[n].call \/ iface'[n].call.kind # "ping"

LEMMA PingKeptGood ==
    ASSUME PingInv, NEW n \in Board, PingKept(n), PingsCalm(net')
    PROVE  PingsTold(n)' /\ OneAsked(n)'
<1>1. PingsTold(n) /\ OneAsked(n) /\ n \in Node
  BY Boards DEF PingInv
<1>2. PingsTold(n)'
  BY <1>1 DEF PingsTold, PingKept, PingsCalm, NoMore
<1>3. OneAsked(n)'
  <2>1. CASE iface'[n].call.kind # "ping"
    BY <2>1 DEF OneAsked
  <2>2. CASE iface'[n].call = iface[n].call
    BY <1>1, <2>2 DEF OneAsked, PingKept, PingsCalm, NoMore
  <2> QED
    BY <2>1, <2>2 DEF PingKept
<1> QED
  BY <1>2, <1>3

LEMMA StepPingKept ==
    ASSUME Types, [Next]_vars, ~SomePing, ~SomeEcho, NEW n \in Board
    PROVE  PingKept(n)
<1>1. \A k \in Board : iface[k] \in InterfaceObject
  BY DEF Types
<1>2. ASSUME iface' = iface PROVE PingKept(n)
  BY <1>2 DEF PingKept
<1>3. CASE \E s \in SocketId :
             Construct(s) \/ Bind(s) \/ UnbindSocket(s) \/ Destroy(s) \/ Destruct(s)
  <2>1. iface' = iface \/ \E k, S : k \in Board /\ iface' = [iface EXCEPT ![k].sockets = S]
    <3>1. CASE \E s \in SocketId : Construct(s) \/ Bind(s)
      BY <3>1, Boards DEF Construct, Bind
    <3>2. CASE \E s \in SocketId : UnbindSocket(s) \/ Destroy(s) \/ Destruct(s)
      BY <3>2, UnboundTyped, EndedTyped, Boards DEF UnbindSocket, Destroy, Destruct
    <3> QED
      BY <1>3, <3>1, <3>2
  <2> QED
    BY <1>1, <1>2, <2>1 DEF PingKept, InterfaceObject, Types
<1>4. CASE \E k \in Board : \/ PingReturn(k) \/ PingTimeout(k)
                            \/ GetAddrListReturn(k) \/ GetAddrListTimeout(k)
  <2>1. PICK k \in Board : \/ iface' = [iface EXCEPT ![k].call = NoCall]
                           \/ iface' = [iface EXCEPT ![k].call = NoCall, ![k].late = TRUE]
    BY <1>4 DEF PingReturn, PingTimeout, GetAddrListReturn, GetAddrListTimeout
  <2> QED
    BY <1>1, <2>1, SMTT(30) DEF PingKept, InterfaceObject, Types, NoCall
<1>5. CASE \E k \in Board : GetAddrList(k)
  <2>1. PICK k \in Board :
          iface' = [iface EXCEPT ![k].call = [kind |-> "list", known |-> known],
                                 ![k].addr_list_recved = FALSE]
    BY <1>5 DEF GetAddrList
  <2> QED
    BY <1>1, <2>1 DEF PingKept, InterfaceObject, Types
<1>6. CASE \E m \in Node, k \in Board : AddrPackHandler(m, k)
  <2>1. PICK k, f : /\ k \in Board
          /\ iface' = [iface EXCEPT ![k].addr_field = f, ![k].addr_list_recved = TRUE]
    BY <1>6 DEF AddrPackHandler
  <2> QED
    BY <1>1, <2>1 DEF PingKept, InterfaceObject, Types
<1>7. CASE \/ \E s \in SocketId :
                 \/ \E t \in SocketId, len \in Lens :
                       \E dest \in {HomeOf[t], Group} \ {HomeOf[s]} :
                          Write(s, dest, PortOf[t], len)
                 \/ \E sub \in BOOLEAN : Subscribe(s, sub)
                 \/ \E k \in 1 .. RingCap : Read(s, k)
           \/ \E k \in Board : SetAddress(k) \/ SwitchPoll(k) \/ SwitchAsks(k)
           \/ \E m \in Node, k \in Board : \/ DatagramPackHandler(m, k)
                                           \/ PingPackHandler(m, k)
                                           \/ GetAddrListPackHandler(m, k)
           \/ \E m, k \in Node : Lose(m, k)
           \/ UNCHANGED vars
  <2>1. iface' = iface
    BY <1>7 DEF Write, Subscribe, Read, SetAddress, SwitchPoll, SwitchAsks, DatagramPackHandler,
                PingPackHandler, GetAddrListPackHandler, Lose, vars
  <2> QED
    BY <1>2, <2>1
<1> QED
  BY <1>3, <1>4, <1>5, <1>6, <1>7 DEF Next, SomePing, SomeEcho

(* A ping with a new value: nobody has it but the board it now goes to. *)
LEMMA PingGood ==
    ASSUME Types, PingInv, SomePing
    PROVE  PingInv'
<1>1. PICK n \in Board : \E dest \in Board \ {n}, payload \in Millis : Ping(n, dest, payload)
  BY DEF SomePing
<1>2. PICK dest \in Board \ {n}, payload \in Millis : Ping(n, dest, payload)
  BY <1>1
<1> DEFINE p == [type |-> "PING", src |-> n, dst |-> dest, payload |-> payload]
           call == [kind |-> "ping", dest |-> dest, payload |-> payload,
                    fresh |-> payload \notin iface[n].used]
<1>3. /\ net' = Transmit(net, p) /\ GoodLines(net) /\ n \in Node /\ dest \in Node
      /\ p \in PacketOn(n, dest)
  BY <1>2, Boards DEF Ping, Types, PacketOn, PingPack
<1>4. p.type = "PING" /\ p.payload = payload
  OBVIOUS
<1>5. /\ iface'[n].call = call /\ iface'[n].used = iface[n].used \cup {payload}
      /\ iface'[n].ping_echo_payload = iface[n].ping_echo_payload
      /\ iface'[n].echoer = iface[n].echoer
      /\ \A k \in Board \ {n} : iface'[k] = iface[k]
  <2>1. iface[n] \in InterfaceObject
    BY DEF Types
  <2>2. iface' = [iface EXCEPT ![n] = [iface[n] EXCEPT !.call = call,
                                          !.used = iface[n].used \cup {payload}]]
    BY <1>2 DEF Ping
  <2> HIDE DEF call
  <2> QED
    BY <2>1, <2>2 DEF Types, InterfaceObject
<1>6. /\ call.kind = "ping" /\ call.dest = dest /\ call.payload = payload
      /\ call.fresh = (payload \notin iface[n].used)
  OBVIOUS
<1> HIDE DEF p, call
<1>7. ASSUME NEW a \in Node, NEW b \in Node
      PROVE  /\ On(net', a, b) \subseteq On(net, a, b) \cup {p}
             /\ a # n \/ b # dest => On(net', a, b) = On(net, a, b)
  BY <1>3, TransmitOn
<1>8. ASSUME NEW k \in Board, k # n PROVE PingsTold(k)' /\ OneAsked(k)'
  <2>1. PingsTold(k) /\ OneAsked(k) /\ iface'[k] = iface[k] /\ k \in Node
    BY <1>5, <1>8, Boards DEF PingInv
  <2>2. \A m \in Node : On(net', k, m) = On(net, k, m)
    BY <1>7, <1>8, <2>1
  <2>3. \A m \in Node : \A q \in On(net', m, k) : q.type = "PING_ECHO" => q \in On(net, m, k)
    BY <1>4, <1>7, <2>1
  <2> QED
    BY <2>1, <2>2, <2>3 DEF PingsTold, OneAsked
<1>9. PingsTold(n) /\ \A m \in Node : /\ \A q \in On(net', n, m) : q \in On(net, n, m) \/ q = p
                                     /\ On(net', m, n) = On(net, m, n)
  BY <1>3, <1>7 DEF PingInv
<1>10. PingsTold(n)'
  BY <1>4, <1>5, <1>9 DEF PingsTold
<1>11. OneAsked(n)'
  <2> SUFFICES ASSUME payload \notin iface[n].used PROVE OneAsked(n)'
    BY <1>5, <1>6 DEF OneAsked
  <2>1. iface'[n].ping_echo_payload # payload
    BY <1>5, <1>9 DEF PingsTold
  <2>2. ASSUME NEW m \in Node \ {dest}
        PROVE  /\ \A q \in On(net', n, m) : ~(q.type = "PING" /\ q.payload = payload)
               /\ \A q \in On(net', m, n) : ~(q.type = "PING_ECHO" /\ q.payload = payload)
    <3>1. On(net', n, m) = On(net, n, m) /\ On(net', m, n) = On(net, m, n)
      BY <1>3, <1>7, <1>9
    <3> QED
      BY <1>9, <3>1 DEF PingsTold
  <2> QED
    BY <1>5, <1>6, <2>1, <2>2 DEF OneAsked
<1> QED
  BY <1>8, <1>10, <1>11 DEF PingInv

(* The pinged board echoes the value to the board that sent it. *)
LEMMA PongGood ==
    ASSUME Types, PingInv, SomePong
    PROVE  PingInv'
<1>1. PICK m \in Node, n \in Board : PingPackHandler(m, n)
  BY DEF SomePong
<1> DEFINE p == Head(net[<<m, n>>])
           e == Echo(n, p)
           rest == Consume(net, <<m, n>>)
<1>2. /\ GoodLines(rest) /\ net[<<m, n>>] # <<>>
      /\ p \in On(net, m, n) /\ p.type = "PING"
      /\ m \in Board /\ n \in Node
      /\ e \in PacketOn(n, m)
      /\ net' = Transmit(rest, e) /\ iface' = iface
  BY <1>1, EchoTyped DEF PingPackHandler
<1>3. e.type = "PING_ECHO" /\ e.payload = p.payload
  BY DEF Echo
<1> HIDE DEF e, p
<1>4. ASSUME NEW a \in Node, NEW b \in Node
      PROVE  /\ On(net', a, b) \subseteq On(net, a, b) \cup {e}
             /\ a # n \/ b # m => On(net', a, b) \subseteq On(net, a, b)
  <2>1. On(rest, a, b) \subseteq On(net, a, b)
    BY <1>2, ConsumeOn DEF Types
  <2> HIDE DEF rest
  <2>2. /\ On(Transmit(rest, e), a, b) \subseteq On(rest, a, b) \cup {e}
        /\ a # n \/ b # m => On(Transmit(rest, e), a, b) = On(rest, a, b)
    BY <1>2, TransmitOn
  <2> QED
    BY <1>2, <2>1, <2>2
<1>5. ASSUME NEW k \in Board PROVE PingsTold(k)' /\ OneAsked(k)'
  <2>1. PingsTold(k) /\ OneAsked(k) /\ iface'[k] = iface[k] /\ k \in Node
    BY <1>2, Boards DEF PingInv
  <2>2. \A a \in Node : \A q \in On(net', k, a) : q.type = "PING" => q \in On(net, k, a)
    BY <1>3, <1>4, <2>1
  <2>3. \A a \in Node : \A q \in On(net', a, k) :
          q \in On(net, a, k) \/ (q = e /\ a = n /\ k = m)
    BY <1>4, <2>1
  <2>4. PingsTold(k)'
    BY <1>2, <1>3, <2>1, <2>2, <2>3 DEF PingsTold
  <2>5. OneAsked(k)'
    BY <1>2, <1>3, <2>1, <2>2, <2>3 DEF OneAsked
  <2> QED
    BY <2>4, <2>5
<1> QED
  BY <1>5 DEF PingInv

(* The echo that comes is from the only board that has the value. *)
LEMMA EchoGood ==
    ASSUME Types, PingInv, SomeEcho
    PROVE  PingInv'
<1>1. PICK m \in Node, n \in Board : PingEchoPackHandler(m, n)
  BY DEF SomeEcho
<1> DEFINE p == Head(net[<<m, n>>])
<1>2. /\ GoodLines(net) /\ net[<<m, n>>] # <<>> /\ n \in Node
      /\ p \in On(net, m, n) /\ p \in PacketOn(m, n) /\ p.type = "PING_ECHO"
  BY <1>1, ArrivesTyped DEF PingEchoPackHandler
<1>3. /\ iface' = [iface EXCEPT ![n].ping_echo_payload = p.payload, ![n].echoer = p.src]
      /\ net' = Consume(net, <<m, n>>)
  BY <1>1 DEF PingEchoPackHandler
<1> HIDE DEF p
<1>4. p.src = m
  BY <1>2, PacketTyped
<1>5. \A a, b \in Node : On(net', a, b) \subseteq On(net, a, b)
  BY <1>2, <1>3, ConsumeOn
<1>6. /\ iface'[n].ping_echo_payload = p.payload /\ iface'[n].echoer = m
      /\ iface'[n].used = iface[n].used /\ iface'[n].call = iface[n].call
      /\ \A k \in Board \ {n} : iface'[k] = iface[k]
  BY <1>3, <1>4 DEF Types, InterfaceObject
<1>7. ASSUME NEW k \in Board PROVE PingsTold(k)' /\ OneAsked(k)'
  <2>1. PingsTold(k) /\ OneAsked(k) /\ k \in Node
    BY Boards DEF PingInv
  <2>2. CASE k = n
    <3>1. PingsTold(n)'
      BY <1>2, <1>5, <1>6, <2>1, <2>2 DEF PingsTold
    <3>2. OneAsked(n)'
      BY <1>2, <1>5, <1>6, <2>1, <2>2 DEF OneAsked
    <3> QED
      BY <2>2, <3>1, <3>2
  <2>3. CASE k # n
    <3>1. iface'[k] = iface[k]
      BY <1>6, <2>3
    <3> QED
      BY <1>5, <2>1, <3>1 DEF PingsTold, OneAsked
  <2> QED
    BY <2>2, <2>3
<1> QED
  BY <1>7 DEF PingInv

LEMMA StepPings == Types /\ PingInv /\ [Next]_vars => PingInv'
<1> SUFFICES ASSUME Types, PingInv, [Next]_vars PROVE PingInv'
  OBVIOUS
<1>1. CASE SomePing
  BY <1>1, PingGood
<1>2. CASE SomePong
  BY <1>2, PongGood
<1>3. CASE SomeEcho
  BY <1>3, EchoGood
<1>4. CASE ~SomePing /\ ~SomePong /\ ~SomeEcho
  BY <1>4, StepCalm, StepPingKept, PingKeptGood DEF PingInv
<1> QED
  BY <1>1, <1>2, <1>3, <1>4

LEMMA InitEmpty == Init => \A m, n \in Node : net[<<m, n>>] = <<>> /\ On(net, m, n) = {}
<1> SUFFICES ASSUME Init, NEW m \in Node, NEW n \in Node
             PROVE  net[<<m, n>>] = <<>> /\ On(net, m, n) = {}
  OBVIOUS
<1>1. net[<<m, n>>] = <<>>
  BY Routes DEF Init, EmptyLines
<1> QED
  BY <1>1 DEF On

LEMMA InitPings == Init => PingInv
<1> SUFFICES ASSUME Init, NEW n \in Board PROVE PingsTold(n) /\ OneAsked(n)
  BY DEF PingInv
<1>1. iface[n].ping_echo_payload = 0 /\ iface[n].used = {0} /\ iface[n].call = NoCall
  BY DEF Init, NewInterface
<1>2. \A a, b \in Node : On(net, a, b) = {}
  BY InitEmpty
<1>3. PingsTold(n)
  BY <1>1, <1>2, Boards DEF PingsTold
<1>4. OneAsked(n)
  BY <1>1 DEF OneAsked, NoCall
<1> QED
  BY <1>3, <1>4

(* A ping that succeeds was answered by the board it was sent to, if its value
   is new: whatever echoes of earlier pings are still on their way, and
   whichever packets are lost.                                              *)
THEOREM PingIsHonest == Spec => []PingHonest
<1>1. PingInv => PingHonest
  BY DEF PingInv, OneAsked, PingHonest
<1> QED
  BY <1>1, InitTypes, StepTypes, InitPings, StepPings, PTL DEF Spec

-----------------------------------------------------------------------------
(* The address list.                                                        *)

Asked(n) == { p \in On(net, n, Switch) : p.type = "GET_ADDR_LIST" }
Answers(n) == { p \in On(net, Switch, n) : p.type = "ADDR" }

Waiting(n) == iface[n].call.kind = "list" /\ ~iface[n].addr_list_recved

(* Unless a call of the board has timed out, there is at most one request or
   answer between it and the switch, and it belongs to the call that waits. *)
ListFresh(n) ==
    LET call == iface[n].call
    IN  /\ call.kind = "list" => call.known \subseteq known
        /\ ~iface[n].late =>
              /\ call.kind = "list" /\ iface[n].addr_list_recved
                     => call.known \subseteq iface[n].addr_field
              /\ ~Waiting(n) => Asked(n) = {} /\ Answers(n) = {}
              /\ Asked(n) = {} \/ Answers(n) = {}
              /\ AtMostOne(net[<<n, Switch>>], "GET_ADDR_LIST")
              /\ AtMostOne(net[<<Switch, n>>], "ADDR")
              /\ \A p \in Answers(n) : call.known \subseteq p.field

ListInv == \A n \in Board : ListFresh(n)

(* Nothing about the list of board n has changed. *)
ListKept(n) ==
    /\ iface'[n].late = iface[n].late
    /\ iface'[n].addr_list_recved = iface[n].addr_list_recved
    /\ iface'[n].addr_field = iface[n].addr_field
    /\ \/ iface'[n].call = iface[n].call
       \/ iface'[n].call.kind # "list" /\ iface[n].call.kind # "list"

LEMMA ListKeptGood ==
    ASSUME ListInv, NEW n \in Board, ListKept(n), ListCalm(net', n), known \subseteq known'
    PROVE  ListFresh(n)'
<1>1. ListFresh(n)
  BY DEF ListInv
<1>2. Asked(n)' \subseteq Asked(n) /\ Answers(n)' \subseteq Answers(n)
  BY DEF ListCalm, NoMore, Asked, Answers
<1>3. Waiting(n)' = Waiting(n)
  BY DEF Waiting, ListKept
<1>4. CASE iface'[n].call = iface[n].call
  BY <1>1, <1>2, <1>3, <1>4 DEF ListFresh, ListKept, ListCalm
<1>5. CASE iface'[n].call.kind # "list" /\ iface[n].call.kind # "list"
  <2>1. ~Waiting(n)
    BY <1>5 DEF Waiting
  <2> QED
    BY <1>1, <1>2, <1>3, <1>5, <2>1 DEF ListFresh, ListKept, ListCalm
<1> QED
  BY <1>4, <1>5 DEF ListKept

SomeListCall(n) ==
    \/ GetAddrList(n) \/ GetAddrListReturn(n) \/ GetAddrListTimeout(n)
    \/ \E m \in Node : AddrPackHandler(m, n)

LEMMA StepListKept ==
    ASSUME Types, [Next]_vars, NEW n \in Board, ~SomeListCall(n)
    PROVE  ListKept(n)
<1>1. \A k \in Board : iface[k] \in InterfaceObject
  BY DEF Types
<1>2. ASSUME iface'[n] = iface[n] PROVE ListKept(n)
  BY <1>2 DEF ListKept
<1>3. CASE \E s \in SocketId :
             Construct(s) \/ Bind(s) \/ UnbindSocket(s) \/ Destroy(s) \/ Destruct(s)
  <2>1. iface' = iface \/ \E k, S : k \in Board /\ iface' = [iface EXCEPT ![k].sockets = S]
    <3>1. CASE \E s \in SocketId : Construct(s) \/ Bind(s)
      BY <3>1, Boards DEF Construct, Bind
    <3>2. CASE \E s \in SocketId : UnbindSocket(s) \/ Destroy(s) \/ Destruct(s)
      BY <3>2, UnboundTyped, EndedTyped, Boards DEF UnbindSocket, Destroy, Destruct
    <3> QED
      BY <1>3, <3>1, <3>2
  <2> QED
    BY <1>1, <1>2, <2>1 DEF ListKept, InterfaceObject, Types
<1>4. CASE \E k \in Board : PingReturn(k) \/ PingTimeout(k)
  <2>1. PICK k \in Board :
          iface' = [iface EXCEPT ![k].call = NoCall] /\ iface[k].call.kind = "ping"
    BY <1>4 DEF PingReturn, PingTimeout
  <2> QED
    BY <1>1, <2>1 DEF ListKept, InterfaceObject, Types, NoCall
<1>5. CASE \E k \in Board \ {n} : SomeListCall(k)
  <2>1. PICK k \in Board \ {n} : SomeListCall(k)
    BY <1>5
  <2>2. iface'[n] = iface[n]
    BY <1>1, <2>1 DEF SomeListCall, GetAddrList, GetAddrListReturn, GetAddrListTimeout,
                      AddrPackHandler, Types
  <2> QED
    BY <1>2, <2>2
<1>6. CASE SomePing
  <2>1. PICK k \in Board : \E dest \in Board \ {k}, payload \in Millis : Ping(k, dest, payload)
    BY <1>6 DEF SomePing
  <2>2. PICK dest \in Board \ {k}, payload \in Millis : Ping(k, dest, payload)
    BY <2>1
  <2> DEFINE call == [kind |-> "ping", dest |-> dest, payload |-> payload,
                      fresh |-> payload \notin iface[k].used]
             used == iface[k].used \cup {payload}
  <2>3. /\ iface[k].call.kind = "none" /\ call.kind = "ping"
        /\ iface' = [iface EXCEPT ![k].call = call, ![k].used = used]
    BY <2>2 DEF Ping, Call
  <2> HIDE DEF call, used
  <2> QED
    BY <1>1, <2>3 DEF ListKept, InterfaceObject, Types
<1>7. CASE SomeEcho
  <2>1. PICK k, v, e : /\ k \in Board
          /\ iface' = [iface EXCEPT ![k].ping_echo_payload = v, ![k].echoer = e]
    BY <1>7 DEF SomeEcho, PingEchoPackHandler
  <2> QED
    BY <1>1, <2>1 DEF ListKept, InterfaceObject, Types
<1>8. CASE \/ \E s \in SocketId :
                 \/ \E t \in SocketId, len \in Lens :
                       \E dest \in {HomeOf[t], Group} \ {HomeOf[s]} :
                          Write(s, dest, PortOf[t], len)
                 \/ \E sub \in BOOLEAN : Subscribe(s, sub)
                 \/ \E k \in 1 .. RingCap : Read(s, k)
           \/ \E k \in Board : SetAddress(k) \/ SwitchPoll(k) \/ SwitchAsks(k)
           \/ \E m \in Node, k \in Board : \/ DatagramPackHandler(m, k)
                                           \/ PingPackHandler(m, k)
                                           \/ GetAddrListPackHandler(m, k)
           \/ \E m, k \in Node : Lose(m, k)
           \/ UNCHANGED vars
  <2>1. iface' = iface
    BY <1>8 DEF Write, Subscribe, Read, SetAddress, SwitchPoll, SwitchAsks, DatagramPackHandler,
                PingPackHandler, GetAddrListPackHandler, Lose, vars
  <2> QED
    BY <1>2, <2>1
<1> QED
  BY <1>3, <1>4, <1>5, <1>6, <1>7, <1>8 DEF Next, SomePing, SomeEcho, SomeListCall

LEMMA GetAddrListGood ==
    ASSUME Types, ListInv, NEW n \in Board, GetAddrList(n)
    PROVE  ListFresh(n)'
<1> DEFINE p == [type |-> "GET_ADDR_LIST", src |-> n, dst |-> Switch]
           call == [kind |-> "list", known |-> known]
           q == net[<<n, Switch>>]
<1>1. /\ net' = Transmit(net, p) /\ GoodLines(net) /\ n \in Node /\ Switch \in Node
      /\ p \in PacketOn(n, Switch) /\ n # Switch /\ known' = known
  BY Boards DEF GetAddrList, Types, PacketOn, GetAddrListPack
<1>2. p.type = "GET_ADDR_LIST" /\ call.kind = "list" /\ call.known = known
  OBVIOUS
<1>3. /\ iface'[n].call = call /\ iface'[n].addr_list_recved = FALSE
      /\ iface'[n].late = iface[n].late
      /\ ~Waiting(n)
  <2>1. iface[n] \in InterfaceObject
    BY DEF Types
  <2>2. /\ iface' = [iface EXCEPT ![n] = [iface[n] EXCEPT !.call = call,
                                                          !.addr_list_recved = FALSE]]
        /\ iface[n].call.kind = "none"
    BY DEF GetAddrList, Call
  <2> HIDE DEF call
  <2> QED
    BY <2>1, <2>2 DEF Types, InterfaceObject, Waiting
<1> HIDE DEF p, call
<1>4. /\ net'[<<Switch, n>>] = net[<<Switch, n>>]
      /\ net'[<<n, Switch>>] \in {q, Append(q, p)}
  BY <1>1, TransmitGood
<1>5. Answers(n)' = Answers(n)
  BY <1>4 DEF Answers, On
<1> SUFFICES ASSUME ~iface[n].late PROVE ListFresh(n)'
  BY <1>1, <1>2, <1>3 DEF ListFresh
<1>6. Asked(n) = {} /\ Answers(n) = {} /\ AtMostOne(net[<<Switch, n>>], "ADDR")
      /\ AtMostOne(q, "GET_ADDR_LIST")
  BY <1>3 DEF ListInv, ListFresh
<1>7. AtMostOne(net'[<<n, Switch>>], "GET_ADDR_LIST")
  <2>1. \A i \in DOMAIN q : q[i].type # "GET_ADDR_LIST"
    BY <1>6 DEF Asked, On
  <2>2. q \in Seq(PacketOn(n, Switch))
    BY <1>1 DEF GoodLines
  <2> HIDE DEF q
  <2>3. AtMostOne(Append(q, p), "GET_ADDR_LIST")
    BY <2>1, <2>2, AppendOne
  <2> QED
    BY <1>4, <1>6, <2>3
<1>8. AtMostOne(net'[<<Switch, n>>], "ADDR")
  BY <1>4, <1>6
<1>9. Waiting(n)'
  BY <1>2, <1>3 DEF Waiting
<1> QED
  BY <1>1, <1>2, <1>3, <1>5, <1>6, <1>7, <1>8, <1>9 DEF ListFresh

LEMMA ListEndsGood ==
    ASSUME Types, ListInv, NEW n \in Board, GetAddrListReturn(n) \/ GetAddrListTimeout(n)
    PROVE  ListFresh(n)'
<1>1. iface[n] \in InterfaceObject /\ ListFresh(n)
  BY DEF Types, ListInv
<1>2. net' = net
  BY DEF GetAddrListReturn, GetAddrListTimeout
<1>3. Asked(n)' = Asked(n) /\ Answers(n)' = Answers(n)
  BY <1>2 DEF Asked, Answers, On
<1>4. iface'[n].call = NoCall
  BY <1>1 DEF GetAddrListReturn, GetAddrListTimeout, Types, InterfaceObject
<1>5. CASE GetAddrListReturn(n)
  <2>1. iface'[n].late = iface[n].late /\ ~Waiting(n)
    BY <1>1, <1>5 DEF GetAddrListReturn, Types, InterfaceObject, Waiting
  <2> QED
    BY <1>1, <1>2, <1>3, <1>4, <2>1 DEF ListFresh, Waiting, NoCall
<1>6. CASE GetAddrListTimeout(n)
  <2>1. iface'[n].late
    BY <1>1, <1>6 DEF GetAddrListTimeout, Types, InterfaceObject
  <2> QED
    BY <1>4, <2>1 DEF ListFresh, NoCall
<1> QED
  BY <1>5, <1>6

(* The answer that arrives is the one to the call that waits, and the last. *)
LEMMA AddrGood ==
    ASSUME Types, ListInv, NEW m \in Node, NEW n \in Board, AddrPackHandler(m, n)
    PROVE  ListFresh(n)'
<1> DEFINE p == Head(net[<<m, n>>])
           q == net[<<Switch, n>>]
<1>1. /\ GoodLines(net) /\ net[<<m, n>>] # <<>> /\ n \in Node
      /\ p \in On(net, m, n) /\ p \in PacketOn(m, n) /\ p.type = "ADDR"
  BY ArrivesTyped DEF AddrPackHandler
<1>2. m = Switch
  <2> HIDE DEF p
  <2>1. p \in AddrPack(m, n)
    BY <1>1, PacketTyped
  <2> QED
    BY <2>1, Boards DEF AddrPack
<1>3. /\ net' = Consume(net, <<Switch, n>>) /\ known' = known
      /\ iface' = [iface EXCEPT ![n].addr_field = p.field, ![n].addr_list_recved = TRUE]
  BY <1>2 DEF AddrPackHandler
<1>4. ListFresh(n) /\ Switch \in Node
  BY Boards DEF ListInv
<1>5. p \in Answers(n) /\ p = Head(q) /\ q # <<>>
  BY <1>1, <1>2 DEF Answers
<1> HIDE DEF p
<1>6. /\ iface'[n].call = iface[n].call /\ iface'[n].late = iface[n].late
      /\ iface'[n].addr_field = p.field /\ iface'[n].addr_list_recved = TRUE
  BY <1>3 DEF Types, InterfaceObject
<1> SUFFICES ASSUME ~iface[n].late PROVE ListFresh(n)'
  BY <1>3, <1>4, <1>6 DEF ListFresh
<1>7. /\ iface[n].call.known \subseteq p.field /\ Asked(n) = {}
      /\ AtMostOne(q, "ADDR") /\ AtMostOne(net[<<n, Switch>>], "GET_ADDR_LIST")
  BY <1>4, <1>5 DEF ListFresh
<1>8. q \in Seq(PacketOn(Switch, n))
  BY <1>1, <1>4 DEF GoodLines
<1>9. net'[<<Switch, n>>] = Tail(q) /\ net'[<<n, Switch>>] = net[<<n, Switch>>]
  <2> DEFINE r == <<Switch, n>>
             k == <<n, Switch>>
  <2>1. net'[r] = Tail(net[r]) /\ \A l \in Route \ {r} : net'[l] = net[l]
    BY <1>1, <1>3, <1>4, <1>5, ConsumeGood, SMTT(30)
  <2>2. k \in Route \ {r}
    BY <1>1, Boards, Routes
  <2> HIDE DEF r, k
  <2>3. net'[k] = net[k]
    BY <2>1, <2>2
  <2> QED
    BY <2>1, <2>3 DEF r, k
<1>10. /\ AtMostOne(Tail(q), "ADDR")
       /\ \A i \in DOMAIN Tail(q) : Tail(q)[i].type # "ADDR"
  <2> HIDE DEF q
  <2>1. Head(q).type = "ADDR"
    BY <1>1, <1>5
  <2> QED
    BY <1>5, <1>7, <1>8, <2>1, TailOne
<1>11. Answers(n)' = {} /\ Asked(n)' = {}
  BY <1>7, <1>9, <1>10 DEF Answers, Asked, On
<1> QED
  BY <1>3, <1>4, <1>6, <1>7, <1>9, <1>10, <1>11 DEF ListFresh, Waiting

(* The switch answers with all it knows, and so with all it knew when it was
   asked.                                                                   *)
LEMMA SwitchGood ==
    ASSUME Types, ListInv, NEW n \in Board, SwitchPoll(n)
    PROVE  ListFresh(n)'
<1> DEFINE r == <<n, Switch>>
           q == net[r]
           p == Head(q)
           answer == [type |-> "ADDR", src |-> Switch, dst |-> n, field |-> known]
           rest == Consume(net, r)
<1>1. /\ GoodLines(rest) /\ q # <<>> /\ n \in Node
      /\ p \in PacketOn(n, Switch)
      /\ known \subseteq known'
      /\ answer \in PacketOn(Switch, n)
      /\ net' = IF p.type = "GET_ADDR_LIST" THEN Transmit(rest, answer) ELSE rest
  BY SwitchTyped
<1>2. iface' = iface /\ Switch \in Node /\ n # Switch /\ GoodLines(net)
  BY Boards DEF SwitchPoll, Types
<1>3. answer.type = "ADDR" /\ answer.field = known
  OBVIOUS
<1>4. ListFresh(n) /\ q \in Seq(PacketOn(n, Switch))
  BY <1>1, <1>2 DEF ListInv, GoodLines
<1>5. ListKept(n)
  BY <1>2 DEF ListKept
<1>6. CASE p.type # "GET_ADDR_LIST"
  <2>1. ListCalm(net', n)
    BY <1>1, <1>2, <1>6, ConsumeCalm DEF Calm, ListsCalm
  <2> QED
    BY <1>1, <1>5, <2>1, ListKeptGood
<1>7. CASE p.type = "GET_ADDR_LIST"
  <2> HIDE DEF answer
  <2>1. rest[r] = Tail(q) /\ rest[<<Switch, n>>] = net[<<Switch, n>>]
    <3> DEFINE k == <<Switch, n>>
    <3>1. rest[r] = Tail(net[r]) /\ \A l \in Route \ {r} : rest[l] = net[l]
      BY <1>1, <1>2, ConsumeGood
    <3>2. k \in Route \ {r}
      BY <1>1, <1>2, Routes
    <3> HIDE DEF r, k, rest
    <3> QED
      BY <3>1, <3>2 DEF k
  <2>2. p \in Asked(n)
    BY <1>1, <1>2, <1>7, ConsumeGood DEF Asked
  <2> HIDE DEF p, rest
  <2>3. /\ net'[r] = Tail(q)
        /\ net'[<<Switch, n>>] \in {net[<<Switch, n>>], Append(net[<<Switch, n>>], answer)}
    <3>1. net' = Transmit(rest, answer)
      BY <1>1, <1>7
    <3>2. net'[r] = rest[r]
          /\ net'[<<Switch, n>>] \in {rest[<<Switch, n>>], Append(rest[<<Switch, n>>], answer)}
      BY <1>1, <1>2, <3>1, TransmitGood
    <3> HIDE DEF r
    <3> QED
      BY <2>1, <3>2
  <2> SUFFICES ASSUME ~iface[n].late PROVE ListFresh(n)'
    BY <1>1, <1>2, <1>4 DEF ListFresh
  <2>4. /\ Waiting(n) /\ Answers(n) = {} /\ iface[n].call.known \subseteq known
        /\ AtMostOne(q, "GET_ADDR_LIST")
    BY <1>4, <2>2 DEF ListFresh, Waiting
  <2>5. /\ AtMostOne(Tail(q), "GET_ADDR_LIST")
        /\ \A i \in DOMAIN Tail(q) : Tail(q)[i].type # "GET_ADDR_LIST"
    <3> HIDE DEF q
    <3> QED
      BY <1>1, <1>4, <1>7, <2>4, TailOne DEF p
  <2>6. Asked(n)' = {}
    BY <2>3, <2>5 DEF Asked, On
  <2> DEFINE a == net[<<Switch, n>>]
  <2>7. a \in Seq(PacketOn(Switch, n)) /\ \A i \in DOMAIN a : a[i].type # "ADDR"
    BY <1>1, <1>2, <2>4 DEF GoodLines, Answers, On
  <2>8. /\ AtMostOne(net'[<<Switch, n>>], "ADDR")
        /\ \A i \in DOMAIN net'[<<Switch, n>>] :
              net'[<<Switch, n>>][i].type = "ADDR" => net'[<<Switch, n>>][i] = answer
    <3> DEFINE b == net'[<<Switch, n>>]
    <3> HIDE DEF a
    <3>1. AtMostOne(a, "ADDR") /\ AtMostOne(Append(a, answer), "ADDR")
      BY <2>7, AppendOne DEF AtMostOne
    <3>2. \A i \in DOMAIN Append(a, answer) :
             Append(a, answer)[i] = answer \/ (i \in DOMAIN a /\ Append(a, answer)[i] = a[i])
      BY <2>7
    <3>3. b \in {a, Append(a, answer)}
      BY <2>3 DEF a
    <3> HIDE DEF b
    <3> QED
      BY <2>7, <3>1, <3>2, <3>3 DEF b
  <2>9. Answers(n)' \subseteq {answer}
    BY <2>8 DEF Answers, On
  <2>10. AtMostOne(net'[<<n, Switch>>], "GET_ADDR_LIST")
    BY <2>3, <2>5
  <2>11. /\ iface'[n] = iface[n] /\ Waiting(n)' = Waiting(n)
         /\ iface[n].call.known \subseteq known'
    BY <1>1, <1>2, <2>4 DEF Waiting
  <2> QED
    BY <1>3, <2>4, <2>6, <2>8, <2>9, <2>10, <2>11 DEF ListFresh, Waiting
<1> QED
  BY <1>6, <1>7

LEMMA StepLists == Types /\ ListInv /\ [Next]_vars => ListInv'
<1> SUFFICES ASSUME Types, ListInv, [Next]_vars, NEW n \in Board
             PROVE  ListFresh(n)'
  BY DEF ListInv
<1>1. CASE SomeListCall(n)
  BY <1>1, GetAddrListGood, ListEndsGood, AddrGood DEF SomeListCall
<1>2. CASE SwitchPoll(n)
  BY <1>2, SwitchGood
<1>3. CASE ~SomeListCall(n) /\ ~SwitchPoll(n)
  <2>1. ListKept(n)
    BY <1>3, StepListKept
  <2>2. ListCalm(net', n)
    <3>1. CASE \E k \in Board : GetAddrList(k) \/ SwitchPoll(k)
      <4>1. PICK k \in Board \ {n} : GetAddrList(k) \/ SwitchPoll(k)
        BY <1>3, <3>1 DEF SomeListCall
      <4> QED
        BY <4>1, GetAddrListCalm, SwitchCalm
    <3>2. CASE ~ \E k \in Board : GetAddrList(k) \/ SwitchPoll(k)
      BY <3>2, StepCalm DEF ListsCalm
    <3> QED
      BY <3>1, <3>2
  <2>3. known \subseteq known'
    <3>1. CASE \E k \in Board : SwitchPoll(k)
      BY <3>1, SwitchTyped
    <3>2. CASE ~ \E k \in Board : SwitchPoll(k)
      BY <3>2, ZenonT(40) DEF Next, vars, Construct, Bind, UnbindSocket, Destroy, Destruct,
                  Write, Subscribe, Read, SetAddress, Ping, PingReturn, PingTimeout, GetAddrList, GetAddrListReturn,
                  GetAddrListTimeout, SwitchAsks, DatagramPackHandler, PingPackHandler,
                  PingEchoPackHandler, AddrPackHandler, GetAddrListPackHandler, Lose
    <3> QED
      BY <3>1, <3>2
  <2> QED
    BY <2>1, <2>2, <2>3, ListKeptGood
<1> QED
  BY <1>1, <1>2, <1>3

LEMMA InitLists == Init => ListInv
<1> SUFFICES ASSUME Init, NEW n \in Board PROVE ListFresh(n)
  BY DEF ListInv
<1>1. iface[n].call = NoCall
  BY DEF Init, NewInterface
<1>2. /\ On(net, n, Switch) = {} /\ On(net, Switch, n) = {}
      /\ net[<<n, Switch>>] = <<>> /\ net[<<Switch, n>>] = <<>>
  BY InitEmpty, Boards
<1> QED
  BY <1>1, <1>2 DEF ListFresh, Asked, Answers, AtMostOne, Waiting, NoCall

(* The list a board is about to be given has every address the switch knew
   when the call was made, unless an earlier call of the board timed out.   *)
THEOREM ListIsFresh == Spec => []ListIsCurrent
<1>1. ListInv => ListIsCurrent
  BY DEF ListInv, ListFresh, ListIsCurrent
<1> QED
  BY <1>1, InitTypes, StepTypes, InitLists, StepLists, PTL DEF Spec

-----------------------------------------------------------------------------
(* Datagrams.                                                               *)

LEMMA StepDatagrams ==
    ASSUME Types, [Next]_vars, NEW m \in Node, NEW n \in Node, NEW p \in On(net', m, n),
           p.type = "DATAGRAM"
    PROVE  \/ p \in On(net, m, n)
           \/ /\ FromOne(p.payload, m)
              /\ PayloadCap <= ChunkSz => WholePayload(p.payload)
<1>1. CASE SomeWrite
  <2>0. PICK s \in SocketId, t \in SocketId, len \in Lens :
            \E dest \in {HomeOf[t], Group} \ {HomeOf[s]} : Write(s, dest, PortOf[t], len)
    BY <1>1 DEF SomeWrite
  <2>1. PICK dest \in {HomeOf[t], Group} \ {HomeOf[s]} : Write(s, dest, PortOf[t], len)
    BY <2>0
  <2> QED
    BY <2>1, WriteLines
<1>2. CASE DatagramsCalm(net')
  BY <1>2 DEF DatagramsCalm, NoMore
<1> QED
  BY <1>1, <1>2, StepCalm

LEMMA Cut ==
    ASSUME NEW S, NEW q \in Seq(S), NEW k \in 0 .. Len(q)
    PROVE  SubSeq(q, 1, k) \o SubSeq(q, k + 1, Len(q)) = q
<1> DEFINE x == SubSeq(q, 1, k)
           y == SubSeq(q, k + 1, Len(q))
<1>1. k \in Nat /\ Len(q) \in Nat /\ k <= Len(q)
  OBVIOUS
<1>2. /\ x \in Seq(S) /\ Len(x) = k
      /\ \A i \in 1 .. k : x[i] = q[i]
  BY <1>1
<1>3. /\ y \in Seq(S) /\ Len(y) = Len(q) - k
      /\ \A i \in 1 .. Len(q) - k : y[i] = q[k + i]
  BY <1>1
<1> HIDE DEF x, y
<1>4. x \o y \in Seq(S) /\ Len(x \o y) = Len(q)
      /\ \A i \in 1 .. Len(q) : (x \o y)[i] = IF i <= k THEN x[i] ELSE y[i - k]
  BY <1>1, <1>2, <1>3, ConcatProperties
<1>5. \A i \in 1 .. Len(q) : (x \o y)[i] = q[i]
  BY <1>1, <1>2, <1>3, <1>4
<1>6. x \o y = q
  BY <1>4, <1>5, SeqEqual
<1> QED
  BY <1>6 DEF x, y

(* What a step does to the bytes a socket has been given. *)
TakenKept(s) ==
    /\ Taken(s)' = Taken(s)
    /\ sock'[s].remote = sock[s].remote
    /\ sock'[s].overran = sock[s].overran

TakenMore(s) ==
    \E m, n \in Node : \E p \in On(net, m, n) :
        /\ p.type = "DATAGRAM"
        /\ ~sock'[s].overran =>
              /\ ~sock[s].overran
              /\ Taken(s)' = Taken(s) \o p.payload
              /\ sock'[s].remote = m

LEMMA HandlerTakes ==
    ASSUME Types, NEW m \in Node, NEW n \in Board, DatagramPackHandler(m, n),
           NEW s \in SocketId
    PROVE  TakenKept(s) \/ TakenMore(s)
<1> DEFINE p == Head(net[<<m, n>>])
<1>1. /\ n \in Node /\ p \in On(net, m, n) /\ p.type = "DATAGRAM" /\ p \in DatagramPack(m, n)
  BY ArrivesTyped, PacketTyped DEF DatagramPackHandler
<1>2. sock'[s] = IF s \in iface[n].sockets /\ p.dest \in {n, Group}
                 THEN Heard(s, p) ELSE sock[s]
  BY DEF DatagramPackHandler
<1> HIDE DEF p
<1>3. p.src = m /\ p.payload \in Seq(ByteOfMessage)
  BY <1>1 DEF DatagramPack
<1>4. /\ sock[s] \in SocketObject /\ sock[s].ringbuf \in Seq(ByteOfMessage)
      /\ sock[s].got \in Seq(ByteOfMessage) /\ Len(sock[s].ringbuf) <= RingCap
  BY DEF Types, SocketObject
<1>5. CASE sock'[s] = sock[s]
  BY <1>5 DEF TakenKept, Taken
<1>6. CASE sock'[s] # sock[s]
  <2>1. sock'[s] = [sock[s] EXCEPT !.remote = p.src,
                       !.ringbuf = PutAll(sock[s].ringbuf, p.payload),
                       !.overran = sock[s].overran
                                     \/ Len(sock[s].ringbuf) + Len(p.payload) > RingCap]
    BY <1>2, <1>6 DEF Heard
  <2>2. /\ sock'[s].remote = m /\ sock'[s].got = sock[s].got
        /\ sock'[s].ringbuf = PutAll(sock[s].ringbuf, p.payload)
        /\ sock'[s].overran = (sock[s].overran
                                 \/ Len(sock[s].ringbuf) + Len(p.payload) > RingCap)
    BY <1>3, <1>4, <2>1 DEF SocketObject
  <2>3. ASSUME ~sock'[s].overran
        PROVE  ~sock[s].overran /\ Taken(s)' = Taken(s) \o p.payload
    <3>1. ~sock[s].overran /\ Len(sock[s].ringbuf) + Len(p.payload) <= RingCap
      <4>1. ~sock[s].overran /\ ~(Len(sock[s].ringbuf) + Len(p.payload) > RingCap)
        BY <2>2, <2>3
      <4>2. \A x, y, z \in Nat : ~(x + y > z) => x + y <= z
        OBVIOUS
      <4>3. Len(sock[s].ringbuf) \in Nat /\ Len(p.payload) \in Nat /\ RingCap \in Nat
        BY <1>3, <1>4, DatagramAssumption
      <4>4. Len(sock[s].ringbuf) + Len(p.payload) <= RingCap
        BY <4>1, <4>2, <4>3
      <4> QED
        BY <4>1, <4>4
    <3>2. sock'[s].ringbuf = sock[s].ringbuf \o p.payload
      BY <1>3, <1>4, <2>2, <3>1, RingFits
    <3>3. Taken(s)' = sock[s].got \o (sock[s].ringbuf \o p.payload)
      BY <2>2, <3>2 DEF Taken
    <3>4. sock[s].got \o (sock[s].ringbuf \o p.payload) = Taken(s) \o p.payload
      <4> DEFINE x == sock[s].got
                 y == sock[s].ringbuf
                 z == p.payload
      <4>1. x \in Seq(ByteOfMessage) /\ y \in Seq(ByteOfMessage) /\ z \in Seq(ByteOfMessage)
        BY <1>3, <1>4
      <4> HIDE DEF x, y, z
      <4>2. x \o (y \o z) = (x \o y) \o z
        BY <4>1, ConcatAssociative
      <4> QED
        BY <4>2 DEF Taken, x, y, z
    <3> QED
      BY <3>1, <3>3, <3>4
  <2> QED
    BY <1>1, <2>2, <2>3 DEF TakenMore
<1> QED
  BY <1>5, <1>6

LEMMA StepTaken ==
    ASSUME Types, [Next]_vars, NEW s \in SocketId
    PROVE  TakenKept(s) \/ Taken(s)' = <<>> \/ TakenMore(s)
<1>1. \A t \in SocketId : sock[t] \in SocketObject
  BY DEF Types
<1>2. ASSUME sock'[s] = sock[s] PROVE TakenKept(s)
  BY <1>2 DEF TakenKept, Taken
<1>3. CASE \E t \in SocketId : Construct(t) \/ Destruct(t)
  <2>1. PICK t \in SocketId : sock' = [sock EXCEPT ![t] = NewSocket]
                              \/ sock' = [sock EXCEPT ![t] = NoSocket]
    BY <1>3 DEF Construct, Destruct
  <2>2. CASE t # s
    <3>1. sock'[s] = sock[s]
      BY <2>1, <2>2 DEF Types
    <3> QED
      BY <1>2, <3>1
  <2>3. CASE t = s
    <3>1. sock'[s] \in {NewSocket, NoSocket}
      BY <2>1, <2>3 DEF Types
    <3>2. sock'[s].got = <<>> /\ sock'[s].ringbuf = <<>>
      BY <3>1 DEF NewSocket, NoSocket
    <3> QED
      BY <3>2 DEF Taken
  <2> QED
    BY <2>2, <2>3
<1>4. CASE \E t \in SocketId : Bind(t) \/ UnbindSocket(t) \/ Destroy(t)
  <2>1. PICK t \in SocketId : sock' = [sock EXCEPT ![t] = BoundTo(HomeOf[t], sock[t])]
                              \/ sock' = [sock EXCEPT ![t].bound = FALSE]
    BY <1>4 DEF Bind, UnbindSocket, Destroy
  <2>2. /\ sock'[s].got = sock[s].got /\ sock'[s].ringbuf = sock[s].ringbuf
        /\ sock'[s].remote = sock[s].remote /\ sock'[s].overran = sock[s].overran
    <3>1. sock'[s] \in {sock[s], BoundTo(HomeOf[t], sock[s]), [sock[s] EXCEPT !.bound = FALSE]}
      BY <2>1 DEF Types
    <3> QED
      BY <1>1, <3>1 DEF BoundTo, SocketObject
  <2> QED
    BY <2>2 DEF TakenKept, Taken
<1>5. CASE \E t \in SocketId, k \in 1 .. RingCap : Read(t, k)
  <2>1. PICK t \in SocketId, k \in 1 .. RingCap : Read(t, k)
    BY <1>5
  <2> DEFINE ring == sock[t].ringbuf
             got == sock[t].got
             a == SubSeq(ring, 1, k)
             b == SubSeq(ring, k + 1, Len(ring))
  <2>2. /\ sock' = [sock EXCEPT ![t] = [sock[t] EXCEPT !.got = got \o a, !.ringbuf = b]]
        /\ k \in 1 .. Len(ring)
    BY <2>1 DEF Read
  <2>3. CASE t # s
    <3>1. sock'[s] = sock[s]
      BY <2>2, <2>3
    <3> QED
      BY <1>2, <3>1
  <2>4. CASE t = s
    <3>1. ring \in Seq(ByteOfMessage) /\ got \in Seq(ByteOfMessage)
      BY <1>1 DEF SocketObject
    <3>2. a \in Seq(ByteOfMessage) /\ b \in Seq(ByteOfMessage) /\ a \o b = ring
      <4>1. k \in 0 .. Len(ring) /\ k \in Nat /\ Len(ring) \in Nat /\ k <= Len(ring)
        BY <2>2, <3>1
      <4> HIDE DEF ring
      <4>2. a \in Seq(ByteOfMessage) /\ b \in Seq(ByteOfMessage)
        BY <3>1, <4>1
      <4>3. a \o b = ring
        BY <3>1, <4>1, Cut
      <4> QED
        BY <4>2, <4>3
    <3> HIDE DEF a, b
    <3>3. sock'[s].got = got \o a /\ sock'[s].ringbuf = b
          /\ sock'[s].remote = sock[s].remote /\ sock'[s].overran = sock[s].overran
      BY <1>1, <2>2, <2>4 DEF Types, SocketObject
    <3> HIDE DEF got, ring
    <3>4. (got \o a) \o b = got \o ring
      <4>1. (got \o a) \o b = got \o (a \o b)
        <5>1. /\ a \in Seq(ByteOfMessage) /\ b \in Seq(ByteOfMessage)
              /\ got \in Seq(ByteOfMessage)
          BY <3>1, <3>2
        <5> QED
          BY <5>1, ConcatAssociative
      <4> QED
        BY <3>2, <4>1
    <3> QED
      BY <2>4, <3>3, <3>4 DEF TakenKept, Taken, got, ring
  <2> QED
    BY <2>3, <2>4
<1>6. CASE \E m \in Node, n \in Board : DatagramPackHandler(m, n)
  BY <1>6, HandlerTakes
<1>7. CASE sock' = sock
  BY <1>2, <1>7
<1> QED
  BY <1>3, <1>4, <1>5, <1>6, <1>7 DEF Next, vars, Write, Subscribe, SetAddress, Ping, PingReturn,
     PingTimeout, GetAddrList, GetAddrListReturn, GetAddrListTimeout, SwitchPoll, SwitchAsks,
     PingPackHandler, PingEchoPackHandler, AddrPackHandler, GetAddrListPackHandler, Lose

LEMMA TakenTyped ==
    ASSUME Types, NEW s \in SocketId
    PROVE  Taken(s) \in Seq(ByteOfMessage)
<1>1. sock[s].got \in Seq(ByteOfMessage) /\ sock[s].ringbuf \in Seq(ByteOfMessage)
  BY DEF Types, SocketObject
<1> QED
  BY <1>1 DEF Taken

LEMMA PayloadTyped ==
    ASSUME Types, NEW m \in Node, NEW n \in Node, NEW p \in On(net, m, n), p.type = "DATAGRAM"
    PROVE  p.payload \in Seq(ByteOfMessage) /\ p.payload # <<>>
<1>1. p \in PacketOn(m, n)
  BY OnTyped DEF Types
<1>2. p \in DatagramPack(m, n)
  BY <1>1, PacketTyped
<1> QED
  BY <1>2 DEF DatagramPack

(* The bytes of a datagram on the lines are all from the board it is from. *)
FromSender ==
    \A m, n \in Node : \A p \in On(net, m, n) : p.type = "DATAGRAM" => FromOne(p.payload, m)

RemoteInv == FromSender /\ RemoteSentLast

LEMMA StepRemote == Types /\ RemoteInv /\ [Next]_vars => RemoteInv'
<1> SUFFICES ASSUME Types, RemoteInv, [Next]_vars PROVE RemoteInv'
  OBVIOUS
<1>1. FromSender'
  BY StepDatagrams DEF RemoteInv, FromSender
<1>2. ASSUME NEW s \in SocketId, ~sock'[s].overran, Taken(s)' # <<>>
      PROVE  sock'[s].remote = Taken(s)'[Len(Taken(s)')].src
  <2>1. CASE TakenKept(s)
    BY <1>2, <2>1 DEF RemoteInv, RemoteSentLast, TakenKept
  <2>2. CASE TakenMore(s)
    <3>1. PICK m \in Node, n \in Node : \E p \in On(net, m, n) :
            /\ p.type = "DATAGRAM"
            /\ Taken(s)' = Taken(s) \o p.payload /\ sock'[s].remote = m
      BY <1>2, <2>2 DEF TakenMore
    <3>2. PICK p \in On(net, m, n) :
            /\ p.type = "DATAGRAM"
            /\ Taken(s)' = Taken(s) \o p.payload /\ sock'[s].remote = m
      BY <3>1
    <3> DEFINE x == Taken(s)
               y == p.payload
    <3>3. x \in Seq(ByteOfMessage) /\ y \in Seq(ByteOfMessage) /\ y # <<>>
      BY <3>2, TakenTyped, PayloadTyped
    <3>4. FromOne(y, m)
      BY <3>2 DEF RemoteInv, FromSender
    <3> HIDE DEF x, y
    <3>5. Len(y) \in DOMAIN y /\ (x \o y)[Len(x \o y)] = y[Len(y)]
      BY <3>3
    <3>6. (x \o y)[Len(x \o y)].src = m
      BY <3>4, <3>5 DEF FromOne
    <3> QED
      BY <3>2, <3>6 DEF x, y
  <2> QED
    BY <1>2, <2>1, <2>2, StepTaken
<1> QED
  BY <1>1, <1>2 DEF RemoteInv, RemoteSentLast

LEMMA InitTaken == Init => \A s \in SocketId : Taken(s) = <<>>
<1> SUFFICES ASSUME Init, NEW s \in SocketId PROVE Taken(s) = <<>>
  OBVIOUS
<1>1. sock[s].got = <<>> /\ sock[s].ringbuf = <<>>
  BY DEF Init, BoundTo, NewSocket
<1> QED
  BY <1>1 DEF Taken

LEMMA InitRemote == Init => RemoteInv
BY InitTaken, InitEmpty DEF RemoteInv, FromSender, RemoteSentLast

(* The remote of a datagram socket is the sender of the last byte it was given,
   whoever else sends to its port or to the group, unless its ring is overrun. *)
THEOREM RemoteIsLast == Spec => []RemoteSentLast
<1>1. RemoteInv => RemoteSentLast
  BY DEF RemoteInv
<1> QED
  BY <1>1, InitTypes, StepTypes, InitRemote, StepRemote, PTL DEF Spec

-----------------------------------------------------------------------------
(* Byte i of q belongs to a small message that is all there. *)
WholeAt(q, i) ==
    q[i].len <= PayloadCap =>
        /\ i - q[i].pos >= 0 /\ i - q[i].pos + q[i].len <= Len(q)
        /\ \A k \in 1 .. q[i].len : q[i - q[i].pos + k] = [q[i] EXCEPT !.pos = k]

Whole(q) == \A i \in DOMAIN q : WholeAt(q, i)

WholeOnLines ==
    \A m, n \in Node : \A p \in On(net, m, n) : p.type = "DATAGRAM" => WholePayload(p.payload)

WholeInv == WholeOnLines /\ \A s \in SocketId : ~sock[s].overran => Whole(Taken(s))

(* A whole payload behind whole messages leaves all of them whole. *)
LEMMA WholeMore ==
    ASSUME NEW x \in Seq(ByteOfMessage), NEW y \in Seq(ByteOfMessage),
           Whole(x), WholePayload(y)
    PROVE  Whole(x \o y)
<1> DEFINE q == x \o y
<1>1. /\ q \in Seq(ByteOfMessage) /\ Len(q) = Len(x) + Len(y)
      /\ Len(x) \in Nat /\ Len(y) \in Nat /\ PayloadCap \in Nat
      /\ \A i \in 1 .. Len(x) : q[i] = x[i]
      /\ \A i \in 1 .. Len(y) : q[Len(x) + i] = y[i]
      /\ \A i \in DOMAIN q : i \in Int /\ (i \in 1 .. Len(x) \/ i - Len(x) \in 1 .. Len(y))
  BY DatagramAssumption
<1>2. \A b \in ByteOfMessage : b.pos \in Nat /\ b.len \in Nat
  BY InterfaceAssumption DEF ByteOfMessage
<1> HIDE DEF q
<1>3. ASSUME NEW i \in 1 .. Len(x), x[i].len <= PayloadCap PROVE WholeAt(q, i)
  <2> DEFINE len == x[i].len
             start == i - x[i].pos
  <2>1. q[i] = x[i] /\ x[i] \in ByteOfMessage /\ i \in DOMAIN x
    BY <1>1
  <2>2. /\ start >= 0 /\ start + len <= Len(x)
        /\ \A k \in 1 .. len : x[start + k] = [x[i] EXCEPT !.pos = k]
    BY <1>3, <2>1 DEF Whole, WholeAt
  <2>3. len \in Nat /\ start \in Int
    BY <1>2, <2>1
  <2> HIDE DEF len, start
  <2>4. ASSUME NEW k \in 1 .. len PROVE q[start + k] = [x[i] EXCEPT !.pos = k]
    <3>1. start + k \in 1 .. Len(x)
      BY <1>1, <2>2, <2>3
    <3> QED
      BY <1>1, <2>2, <3>1
  <2>5. start + len <= Len(q)
    BY <1>1, <2>2, <2>3
  <2> QED
    BY <2>1, <2>2, <2>4, <2>5 DEF WholeAt, len, start
<1>4. ASSUME NEW j \in 1 .. Len(y), y[j].len <= PayloadCap PROVE WholeAt(q, Len(x) + j)
  <2> DEFINE i == Len(x) + j
  <2>1. q[i] = y[j] /\ j \in DOMAIN y
    BY <1>1
  <2>2. /\ y[j].pos = j /\ y[j].len = Len(y)
        /\ \A k \in DOMAIN y : y[k] = [y[j] EXCEPT !.pos = k]
    BY <1>4, <2>1 DEF WholePayload
  <2>3. i - j = Len(x) /\ i - j + Len(y) <= Len(q) /\ i - j >= 0
    BY <1>1
  <2>4. ASSUME NEW k \in 1 .. Len(y) PROVE q[i - j + k] = [y[j] EXCEPT !.pos = k]
    <3>1. q[Len(x) + k] = y[k] /\ k \in DOMAIN y
      BY <1>1
    <3> QED
      BY <2>2, <2>3, <3>1
  <2> HIDE DEF i
  <2>5. WholeAt(q, i)
    BY <2>1, <2>2, <2>3, <2>4 DEF WholeAt
  <2> QED
    BY <2>5 DEF i
<1>5. ASSUME NEW i \in DOMAIN q PROVE WholeAt(q, i)
  <2>1. CASE i \in 1 .. Len(x)
    <3>1. q[i] = x[i]
      BY <1>1, <2>1
    <3> QED
      BY <1>3, <2>1, <3>1 DEF WholeAt
  <2>2. CASE i - Len(x) \in 1 .. Len(y)
    <3> DEFINE j == i - Len(x)
    <3>1. i = Len(x) + j /\ q[i] = y[j]
      BY <1>1, <2>2
    <3> HIDE DEF j
    <3>2. CASE y[j].len <= PayloadCap
      BY <1>4, <2>2, <3>1, <3>2 DEF j
    <3>3. CASE ~(y[j].len <= PayloadCap)
      BY <3>1, <3>3 DEF WholeAt
    <3> QED
      BY <3>2, <3>3
  <2> QED
    BY <1>1, <2>1, <2>2
<1> QED
  BY <1>5 DEF Whole, q

LEMMA StepWhole ==
    ASSUME PayloadCap <= ChunkSz
    PROVE  Types /\ WholeInv /\ [Next]_vars => WholeInv'
<1> SUFFICES ASSUME Types, WholeInv, [Next]_vars PROVE WholeInv'
  OBVIOUS
<1>1. WholeOnLines'
  BY StepDatagrams DEF WholeInv, WholeOnLines
<1>2. ASSUME NEW s \in SocketId, ~sock'[s].overran PROVE Whole(Taken(s)')
  <2>1. CASE TakenKept(s)
    BY <1>2, <2>1 DEF WholeInv, TakenKept
  <2>2. CASE Taken(s)' = <<>>
    BY <2>2 DEF Whole
  <2>3. CASE TakenMore(s)
    <3>1. PICK m \in Node, n \in Node : \E p \in On(net, m, n) :
            /\ p.type = "DATAGRAM" /\ ~sock[s].overran
            /\ Taken(s)' = Taken(s) \o p.payload
      BY <1>2, <2>3 DEF TakenMore
    <3>2. PICK p \in On(net, m, n) :
            /\ p.type = "DATAGRAM" /\ ~sock[s].overran
            /\ Taken(s)' = Taken(s) \o p.payload
      BY <3>1
    <3>3. /\ Taken(s) \in Seq(ByteOfMessage) /\ p.payload \in Seq(ByteOfMessage)
          /\ Whole(Taken(s)) /\ WholePayload(p.payload)
      BY <3>2, TakenTyped, PayloadTyped DEF WholeInv, WholeOnLines
    <3> QED
      BY <3>2, <3>3, WholeMore
  <2> QED
    BY <2>1, <2>2, <2>3, StepTaken
<1> QED
  BY <1>1, <1>2 DEF WholeInv

LEMMA InitWhole == Init => WholeInv
<1>1. Whole(<<>>)
  BY DEF Whole
<1> QED
  BY <1>1, InitTaken, InitEmpty DEF WholeInv, WholeOnLines

(* If a payload holds no more than a chunk, as in the code, a message that fits
   a payload is given to a socket whole and in one piece or not at all, unless
   its ring is overrun.                                                     *)
THEOREM SmallMessagesAreWhole ==
    ASSUME PayloadCap <= ChunkSz
    PROVE  Spec => []SmallMessagesWhole
<1>1. WholeInv => SmallMessagesWhole
  BY DEF WholeInv, Whole, WholeAt, SmallMessagesWhole
<1>2. Types /\ WholeInv /\ [Next]_vars => WholeInv'
  BY StepWhole
<1> QED
  BY <1>1, <1>2, InitTypes, StepTypes, InitWhole, PTL DEF Spec
=============================================================================
