------------------------------- MODULE Stream -------------------------------
(***************************************************************************)
(* The whole life of a stream between two boards: the connections of       *)
(* module Connection, the data of module Transfer, and what one connection *)
(* leaves behind for the next in the fields that no handshake resets.  A   *)
(* board may be reset at any moment: its socket starts anew, the packets   *)
(* on the lines and the state of the other board stay.                     *)
(***************************************************************************)
EXTENDS SocketStream, FiniteSets

CONSTANTS
    Sender, Receiver,   \* the boards that write and read
    Quitters,           \* the boards whose application may call disconnect()
    Resettable,         \* the boards that may be reset
    MaxSyn,             \* bound: a socket sends no SYN numbered MaxSyn or more
    BurstSz,            \* FRAME_BURST_SZ
    Lens,               \* lengths of the messages, in frames
    MaxFrames,          \* bound: frames in all messages together
    MaxLoss,            \* bound: packets lost by the lines
    MaxResets           \* bound: resets of boards

ASSUME StreamAssumption ==
    /\ Node = {Sender, Receiver} /\ Sender # Receiver
    /\ Cardinality(Servers) = 1
    /\ Quitters \subseteq Node /\ Resettable \subseteq Node
    /\ MaxSyn \in Nat
    /\ BurstSz \in Nat /\ BurstSz > 0
    /\ Lens \subseteq Nat \ {0}
    /\ {MaxFrames, MaxLoss, MaxResets} \subseteq Nat

VARIABLES
    sock, net,      \* the two sockets and the packets on each route
    call,           \* the blocking call of Connection each board is in
    w, offered, result, reading, got, losses,   \* as in Transfer
    resets          \* resets of boards so far

dataVars == <<w, offered, result, reading, got, losses>>
vars == <<sock, net, call, dataVars, resets>>

Conn == INSTANCE Connection WITH Recreated <- Resettable
Data == INSTANCE Transfer WITH Starts <- {}, Patient <- FALSE

Init ==
    /\ Conn!Init
    /\ w = Data!NoWrite
    /\ offered = 0
    /\ result = [ret |-> "none", first |-> 1, last |-> 0]
    /\ reading = FALSE
    /\ got = <<>>
    /\ losses = 0
    /\ resets = 0

(* A board runs one thread: it is in one blocking call at a time. *)
Free(n) == IF n = Sender THEN ~w.active ELSE ~reading

-----------------------------------------------------------------------------
Handshake(n) ==
    /\ Free(n)
    /\ IF n \in Servers
       THEN Conn!Listen(n) \/ Conn!AcceptBegin(n) \/ Conn!AcceptReturn(n) \/ Conn!AcceptTimeout(n)
       ELSE \/ \E server \in Servers : Conn!ConnectBegin(n, server)
            \/ Conn!ConnectReturn(n)
            \/ Conn!ConnectTimeout(n)
    /\ UNCHANGED <<dataVars, resets>>

Disconnect(n) ==
    /\ Free(n)
    /\ Conn!Disconnect(n)
    /\ UNCHANGED <<dataVars, resets>>

WriteBegin ==
    /\ call[Sender] = "none"
    /\ \E len \in Lens : Data!WriteBegin(len)
    /\ UNCHANGED <<call, resets>>

SendFrame == Data!SendFrame /\ UNCHANGED <<call, resets>>

(* The ways on after a burst. *)
Decide ==
    /\ Data!Resend \/ Data!GiveUp \/ Data!Progress \/ Data!OutOfSequence
    /\ UNCHANGED <<call, resets>>

ReadBegin ==
    /\ call[Receiver] = "none"
    /\ Data!ReadBegin
    /\ UNCHANGED <<call, resets>>

ReadEnd ==
    /\ call[Receiver] = "none"
    /\ Data!ReadFrame \/ Data!ReadNothing
    /\ UNCHANGED <<call, resets>>

Deliver(m, n) == Conn!Deliver(m, n) /\ UNCHANGED <<dataVars, resets>>

Lose(m, n) == Data!Lose(m, n) /\ UNCHANGED <<call, resets>>

(* The board starts anew, whatever call it was in; a message it was writing
   ends where it was.                                                       *)
Reset(n) ==
    /\ resets < MaxResets
    /\ Conn!Recreate(n)
    /\ IF n = Sender
       THEN w' = Data!NoWrite /\ offered' = offered + w.len /\ UNCHANGED reading
       ELSE reading' = FALSE /\ UNCHANGED <<w, offered>>
    /\ resets' = resets + 1
    /\ UNCHANGED <<result, got, losses>>

Next ==
    \/ \E n \in Node : Handshake(n)
    \/ \E n \in Quitters : Disconnect(n)
    \/ WriteBegin
    \/ SendFrame
    \/ Decide
    \/ ReadBegin
    \/ ReadEnd
    \/ \E m, n \in Node : Deliver(m, n) \/ Lose(m, n)
    \/ \E n \in Resettable : Reset(n)

Spec == Init /\ [][Next]_vars

(* The clocks of the blocking calls run, the boards poll, and the receiving
   application reads whenever it is connected.                              *)
FairSpec ==
    /\ Spec
    /\ \A n \in Node : WF_vars(Handshake(n) /\ call'[n] = "none" /\ call[n] # "none")
    /\ WF_vars(SendFrame)
    /\ WF_vars(Decide)
    /\ WF_vars(ReadBegin)
    /\ WF_vars(ReadEnd)
    /\ \A m, n \in Node : WF_vars(Deliver(m, n))

-----------------------------------------------------------------------------
(* Every variable has its type, over any number of lives of the two sockets:
   what Connection keeps of its own also holds while data flows.            *)
TypeOK ==
    /\ Conn!TypeOK
    /\ w.active => 0 < w.n /\ w.sent <= w.n /\ w.pos + w.n <= w.len
    /\ offered + w.len <= MaxFrames
    /\ result.ret \in {"none", "OK", "TIMEOUT", "ACK_OUT_OF_SEQUENCE"}
    /\ reading \in BOOLEAN
    /\ got \in Seq(1 .. MaxFrames)
    /\ losses \in 0 .. MaxLoss /\ resets \in 0 .. MaxResets

(* In good order and once, over all connections and resets: the frames the
   receiver has taken are strictly increasing.                              *)
StreamInOrder == Data!DeliveredInOrder

(* The same as a refinement: over all connections and resets the two
   applications see the one ordered pipe that Transfer implements.          *)
Pipe == INSTANCE OrderedPipe WITH written <- offered + w.len, read <- got
ImplementsPipe == Pipe!PipeSpec

(* Once the connection is established, the client and server can exchange
   data: when two boards that were not reset are connected, a write between
   them has ended, and every packet has arrived and been handled, then
   something of what was written was taken.                                 *)
ConnectedExchange ==
    /\ resets = 0 /\ losses = 0
    /\ \A n \in Node : sock[n].state = "OPEN" /\ call[n] = "none"
    /\ result.ret # "none" /\ ~w.active /\ net = EmptyLines
    => Data!Delivered # <<>>

(* Every connect, accept and write returns. *)
EveryCallReturns ==
    /\ Conn!CallsReturn
    /\ Data!WriteReturns

(* No connection stays half-open: a receiver whose peer has closed, was reset
   or has begun anew does not go on reading for ever.                       *)
HalfOpen == sock[Sender].state # "OPEN" /\ sock[Receiver].state = "OPEN"
HalfOpenEnds == HalfOpen ~> ~HalfOpen
=============================================================================
