----------------------------- MODULE Connection -----------------------------
(***************************************************************************)
(* How a Client and a Server open and end a stream: listen, accept,        *)
(* connect, disconnect, and the packets between them, for any number of    *)
(* boards.  Each board runs one thread; accept and connect block it in a   *)
(* loop that polls the interface until the state changes or the timeout    *)
(* has passed.  call says which of the two a board is blocked in.          *)
(***************************************************************************)
EXTENDS SocketStream

CONSTANTS
    Recreated,  \* the boards whose socket may be destroyed and constructed anew
    MaxSyn      \* bound: a socket sends no SYN numbered MaxSyn or more; from SeqMod
                \* on there is no bound, and the counters go round

ASSUME ConnectionAssumption ==
    /\ Recreated \subseteq Node
    /\ MaxSyn \in Nat

VARIABLES
    sock,   \* the socket object of each board
    call,   \* the blocking call each board is in
    net     \* the packets on each route

vars == <<sock, call, net>>

Init ==
    /\ sock = [n \in Node |-> NewSocket]
    /\ call = [n \in Node |-> "none"]
    /\ net = EmptyLines

Idle(n) == call[n] = "none"

-----------------------------------------------------------------------------
(* Server::listen *)
Listen(n) ==
    /\ Idle(n)
    /\ sock[n].state = "CLOSED"
    /\ sock' = [sock EXCEPT ![n].state = "LISTENING"]
    /\ UNCHANGED <<call, net>>

(* mutant: accepts without looking at the state *)
AcceptBeginUnchecked(n) ==
    LET s == sock[n]
    IN  /\ Idle(n)
        /\ s.sequence_number < MaxSyn
        /\ net' = Transmit(Transmit(net, AckPacket(n, s)), SynPacket(n, s))
        /\ sock' = [sock EXCEPT ![n] = [AfterSyn(s) EXCEPT !.state = "PENDING"]]
        /\ call' = [call EXCEPT ![n] = "accept"]

(* Server::accept up to its loop: an ACK and a SYN go to the peer. *)
AcceptBegin(n) ==
    LET s == sock[n]
    IN  /\ Idle(n)
        /\ s.state = "SYN_RECVED"
        /\ s.sequence_number < MaxSyn
        /\ net' = Transmit(Transmit(net, AckPacket(n, s)), SynPacket(n, s))
        /\ sock' = [sock EXCEPT ![n] = [AfterSyn(s) EXCEPT !.state = "PENDING"]]
        /\ call' = [call EXCEPT ![n] = "accept"]

(* The loop of accept sees that the state has changed.  Where it is not
   OPEN the code calls disconnect().                                        *)
AcceptReturn(n) ==
    /\ call[n] = "accept"
    /\ sock[n].state # "PENDING"
    /\ call' = [call EXCEPT ![n] = "none"]
    /\ IF sock[n].state = "OPEN"
       THEN UNCHANGED <<sock, net>>
       ELSE /\ sock' = [sock EXCEPT ![n] = Disconnected(@)]
            /\ net' = LinesAfterDisconnect(net, n, sock[n])

(* The timeout is tested before the state is: it wins over an answer that
   the same poll brought.                                                   *)
AcceptTimeout(n) ==
    /\ call[n] = "accept"
    /\ call' = [call EXCEPT ![n] = "none"]
    /\ sock' = [sock EXCEPT ![n] = Disconnected(@)]
    /\ net' = LinesAfterDisconnect(net, n, sock[n])

-----------------------------------------------------------------------------
(* Client::connect up to its loop. *)
ConnectBegin(n, server) ==
    LET s == [sock[n] EXCEPT !.remote = server, !.remote_port = PortOf[server]]
    IN  /\ Idle(n)
        /\ s.state = "CLOSED"
        /\ s.sequence_number < MaxSyn
        /\ net' = Transmit(net, SynPacket(n, s))
        /\ sock' = [sock EXCEPT ![n] = [AfterSyn(s) EXCEPT !.state = "SYN_SENT"]]
        /\ call' = [call EXCEPT ![n] = "connect"]

(* The loop of connect sees that the state has changed. *)
ConnectReturn(n) ==
    /\ call[n] = "connect"
    /\ sock[n].state # "SYN_SENT"
    /\ call' = [call EXCEPT ![n] = "none"]
    /\ IF sock[n].state = "SYN_RECVED"
       THEN /\ net' = Transmit(net, AckPacket(n, sock[n]))
            /\ sock' = [sock EXCEPT ![n].state = "OPEN"]
       ELSE /\ sock' = [sock EXCEPT ![n] = Disconnected(@)]
            /\ net' = LinesAfterDisconnect(net, n, sock[n])

(* mutant: returns without resetting the state *)
ConnectTimeoutKeepsState(n) ==
    /\ call[n] = "connect"
    /\ call' = [call EXCEPT ![n] = "none"]
    /\ UNCHANGED <<sock, net>>

(* mutant: sends the SYN once more and goes on waiting *)
ConnectTimeoutRestarts(n) ==
    /\ call[n] = "connect"
    /\ net' = Transmit(net, SynPacket(n, sock[n]))
    /\ UNCHANGED <<sock, call>>

(* The timeout closes the socket without a word to the server. *)
ConnectTimeout(n) ==
    /\ call[n] = "connect"
    /\ sock' = [sock EXCEPT ![n].state = "CLOSED"]
    /\ call' = [call EXCEPT ![n] = "none"]
    /\ UNCHANGED net

-----------------------------------------------------------------------------
(* SocketStream::disconnect, called by the application. *)
Disconnect(n) ==
    /\ Idle(n)
    /\ sock[n].state # "CLOSED"
    /\ sock' = [sock EXCEPT ![n] = Disconnected(@)]
    /\ net' = LinesAfterDisconnect(net, n, sock[n])
    /\ UNCHANGED call

(* A socket object is destroyed and constructed again, or its board is reset. *)
Recreate(n) ==
    /\ sock' = [sock EXCEPT ![n] = NewSocket]
    /\ call' = [call EXCEPT ![n] = "none"]
    /\ UNCHANGED net

(* Interface::read takes the oldest packet of a route and the socket's
   on_data handles it.  Any board polls at any time: in its main loop, or
   in the loop of the call it is blocked in.                                *)
Deliver(m, n) ==
    LET r == <<m, n>>
        p == Head(net[r])
    IN  /\ net[r] # <<>>
        /\ Hears(n, p)
        /\ sock' = [sock EXCEPT ![n] = Received(n, @, p)]
        /\ net' = LinesAfter(net, r, n, sock[n], p)
        /\ UNCHANGED call

(* A packet is lost on the way, or reaches a board where no socket has its
   port.                                                                    *)
Lose(m, n) ==
    /\ net[<<m, n>>] # <<>>
    /\ net' = Consume(net, <<m, n>>)
    /\ UNCHANGED <<sock, call>>

-----------------------------------------------------------------------------
Next ==
    \/ \E n \in Servers : \/ Listen(n)
                          \/ AcceptBegin(n)
                          \/ AcceptReturn(n)
                          \/ AcceptTimeout(n)
    \/ \E n \in Clients : \/ \E server \in Servers : ConnectBegin(n, server)
                          \/ ConnectReturn(n)
                          \/ ConnectTimeout(n)
    \/ \E n \in Node : Disconnect(n)
    \/ \E n \in Recreated : Recreate(n)
    \/ \E m, n \in Node : Deliver(m, n) \/ Lose(m, n)

Spec == Init /\ [][Next]_vars

(* accept and connect count the milliseconds of a running clock, so their
   timeouts come.                                                           *)
FairSpec ==
    /\ Spec
    /\ \A n \in Servers : WF_vars(AcceptTimeout(n))
    /\ \A n \in Clients : WF_vars(ConnectTimeout(n))

-----------------------------------------------------------------------------
(* Every variable has its type, each role keeps to its own states and calls,
   and no packet on a line carries a sequence number that was never written. *)
TypeOK ==
    /\ sock \in [Node -> Socket]
    /\ \A n \in Servers : sock[n].state # "SYN_SENT"
    /\ \A n \in Clients : sock[n].state \notin {"LISTENING", "PENDING"}
    /\ call \in [Node -> {"none", "accept", "connect"}]
    /\ \A n \in Servers : call[n] # "connect"
    /\ \A n \in Clients : call[n] # "accept"
    /\ net \in [Route -> Seq(Packet)]
    /\ \A r \in Route : Len(net[r]) <= LineCap

(* connect() and accept() settle the socket they return: a client outside
   connect is CLOSED or OPEN, a server outside accept never PENDING, whatever
   packets and timeouts came while they waited.  A socket left in a waiting
   state would refuse every later connect or listen with BAD_STATE.         *)
CallsSettle ==
    /\ \A n \in Clients : call[n] = "none" => sock[n].state \in {"CLOSED", "OPEN"}
    /\ \A n \in Servers :
          /\ call[n] = "none" => sock[n].state # "PENDING"
          /\ call[n] = "accept" => sock[n].state \in {"PENDING", "OPEN", "CLOSED"}

(* remote_port and remote_sequence are uninitialised members: a socket past
   its handshake has written both, and of the packets on the lines only a
   CLOSE may be addressed to a port that was never written.                 *)
InitialisedBeforeUse ==
    /\ \A n \in Servers : sock[n].state \in {"SYN_RECVED", "PENDING", "OPEN"} =>
          sock[n].remote_port # Undef /\ sock[n].remote_sequence # Undef
    /\ \A n \in Clients : sock[n].state \in {"SYN_RECVED", "OPEN"} =>
          sock[n].remote_port # Undef /\ sock[n].remote_sequence # Undef
    /\ \A p \in OnLines(net) : p.type # "CLOSE" => p.port # Undef

SynsBelowWrap == MaxSyn < SeqMod

(* Nobody is connected out of nothing: the remote_sequence of a handshake is
   the number of a SYN that some socket of the other role has sent and counted,
   however packets, timeouts and retries of several boards interleave.  It can
   be told from the counters until a SYN numbered 255 has been sent; then they
   start again at 0, and a number adopted before may be ahead of them.      *)
PeerIsAhead ==
    SynsBelowWrap =>
        /\ \A n \in Clients : sock[n].remote_sequence # Undef =>
              \E m \in Servers : sock[n].remote_sequence < sock[m].sequence_number
        /\ \A n \in Servers : sock[n].remote_sequence # Undef =>
              \E m \in Clients : sock[n].remote_sequence < sock[m].sequence_number

(* connect() and accept() return. *)
CallsReturn == \A n \in Node : (call[n] # "none") ~> (call[n] = "none")

(* A connection is between two sockets: while it is open its remote end does
   not change (the handlers compare remote with the source of every packet). *)
PeerStable ==
    [][\A n \in Node :
         sock[n].state = "OPEN" /\ sock[n]'.state = "OPEN"
            => sock[n]'.remote = sock[n].remote]_vars
=============================================================================
