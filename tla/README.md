# Verification of PicoLAN

PicoLAN lets boards with one serial port each exchange packets through switches.
The library in `src/` is what runs on a board: a packet interface over the serial
port, and three kinds of sockets on top of it. This directory holds TLA+ models
of it, the TLC configurations that check them, and proofs for TLAPS.

## The system

| part | state | operations | talks to |
|---|---|---|---|
| **Framing** (`serialiser.h`) | parser state, stuffing flag, packet buffer, checksum | `read(c)` for one byte in, `send()` of each packet class for bytes out | serial driver below, the packet handlers of the interface above (virtual calls) |
| **Interface** (`picolan.h`, `address_field.h`) | address, list of bound sockets, last ping echo, last address list | `bind`, `unbind_socket`, `ping`, `get_addr_list`, `set_address`, `read`, and a handler for each packet | calls `on_data` of the sockets; sockets call it to send and to poll |
| **Socket** (`socket.h/.cpp`) | port, remote, timeout, ring buffer, interface pointer | timed `read`, `destroy`, destructor | the interface |
| **Datagram** (`datagram.h/.cpp`) | nothing more | `write`, `subscribe`, `on_data` | the interface |
| **SocketStream** (`socket_stream.h/.cpp`) | connection state, the two sequence counters, the last ACK received, the peer's port, a count of empty reads | `write`, `read`, `disconnect`, `send_syn`, `send_ack` | the interface |
| **Server** (`server.h/.cpp`) | nothing more | `listen`, `accept`, `on_data` | SocketStream |
| **Client** (`client.h/.cpp`) | nothing more | `connect`, `on_data` | SocketStream |

A board runs one thread. Nothing is received except inside `Interface::read`,
which the application calls in its main loop and which every blocking call
(`accept`, `connect`, `write`, the timed `read`, `ping`, `get_addr_list`) calls in
its own loop. A handler therefore runs to its end, but between any two polls of a
blocking call any number of handlers may have run, on this board and on the
others. Serial lines, switches, the clock and the containers of the `etk` library
are outside the repository.

What is hard in it:

- **interleaving**: the caller's code before and after a poll and the handlers in
  between share the socket's fields; a third board can interfere;
- **loss**: packets vanish (damage, full receive buffers) and nothing but
  timeouts notices;
- **timeouts**: they race answers that are already on the line, and what a
  timed-out attempt leaves behind (late ACKs, a peer in another state) meets the
  next attempt;
- **counters**: 8-bit sequence numbers that wrap, that are advanced in three
  places, and that no handshake resets;
- **leftovers**: what one connection leaves in a socket, and a reset board on the
  lines and in its peers, meets the next connection; a socket that was unbound keeps
  its pointer to the interface; the last echo and the last address list stay.

What makes the parts correct:

- *connections*: calls return and leave the socket in a settled state; members
  without an initialiser are written before they are used; a connection is
  between two sockets; a handshake completes on its own answers;
- *data*: what is read is an ordered subsequence of what was written; a write that
  reports success has delivered; ACKs are true; write returns; a half-open
  connection ends;
- *interface*: one socket a port, dispatch reaches living, bound sockets only, a
  request is satisfied by its own answer;
- *framing*: what is sent is parsed back, a fault costs no more than the frames it
  touches, whatever state it leaves the parser in, and the buffer is not left;
- *datagrams*: a message arrives whole or not at all; a reply goes to whom was heard.

## Modules

| module | models |
|---|---|
| `Line` | the serial lines and switches as the sockets see them (external): FIFO routes between boards that hold at most `LineCap` packets |
| `SocketStream` | the vocabulary of a stream, without state of its own: a socket object as a record with the fields of the C++ class, the packets it builds, `on_data` of Server and Client, the dispatch of the interface, `disconnect` |
| `Connection` | `listen`, `accept`, `connect`, `disconnect`, construction, for any number of boards |
| `OrderedPipe` | abstract: what a reader of a stream may count on |
| `Transfer` | `write` on one board, `on_data` and `read` on the other, over an open connection |
| `Stream` | the two composed: any number of connections between a writer and a reader, with resets of either board at any moment |
| `Datagram` | the vocabulary of datagram sockets, without state of its own: how a message is cut into payloads, what a full ring keeps |
| `Interface` | the `Interface` object of each board: `bind`, `unbind_socket`, `destroy`, construction and destruction over a bounded list of sockets, dispatch, datagrams, `ping`, `get_addr_list`, `set_address` |
| `PacketCodec` | the six packet classes: `size()`, `send()`, `from_bytes()`, `AddressField` |
| `Framing` | `ParserSerialiser` at both ends of a line that loses and damages bytes |
| `MCConnection`, `MCTransfer`, `MCStream`, `MCInterface`, `MCFraming` | the instances for TLC |
| `ConnectionProofs`, `HandshakeProofs` | the theorems about Connection, with their proofs |
| `TransferProofs` | the theorems about Transfer, with their proofs |
| `StreamProofs`, `StreamOrderProofs` | the theorems about Stream: types and `NoDataWithoutReset`, order and the refinement of `OrderedPipe` |
| `InterfaceProofs`, `InterfaceTrafficProofs` | the theorems about Interface: lists and types, what the packets on the lines say |
| `FramingProofs` | the theorems about Framing, with their proofs |

### How state and actions correspond to the code

`sock[n]` is the socket object of board `n`: `state`, `remote`, `remote_port`,
`remote_sequence`, `sequence_number`, `last_recved_ack`, `zero_read_count` and
`ringbuf` are the members of that name. `Undef` is the value of a member nobody
has written yet. `net` is the line. In a packet, `arg` is the third byte of a SYN
(the sender's port) or the number of a data frame.

A frame of data is a number, its place in everything the application ever wrote,
and stands for its bytes; that a message is cut into frames of up to 52 bytes, the
last one shorter, is kept only as the number of frames.

A blocking call is two kinds of actions: what it does up to its loop (`AcceptBegin`,
`ConnectBegin`, `WriteBegin`, `ReadBegin`) and the ways out of the loop
(`AcceptReturn` and `AcceptTimeout`, `ConnectReturn` and `ConnectTimeout`, `Resend`,
`GiveUp`, `Progress` and `OutOfSequence`, `ReadFrame` and `ReadNothing`). The polling
in between is the action `Deliver`, which is also the polling of the main loop. In
`Connection`, `call` says which call a board is in; in `Transfer`, `w` holds the
locals of `write`. `ReadBegin` is a `read` that finds the ring empty and polls; `ReadFrame` takes a
frame at once or after a poll. The loop of `timedRead` looks at the clock after the poll and not at the
ring again, so a time that is up (`ReadTimesOut`) may leave in the ring what the last poll
brought: `ReadNothing` is then an empty read all the same, and counts as one.


| `w` | `SocketStream::write` |
|---|---|
| `len`, `pos` | `len` and, at the top of a burst, `bytes_pos`, in frames |
| `n`, `sent` | `packets_to_send` and `i` |
| `noack` | `no_ack_count` |

`SendFrame` is one turn of the loop that sends (the `iface->read()` in it is a
`Deliver`). `MatchesFrame` and `EmptyFound` are the search through `frame_byte_pos`
after the burst: a used slot holds the number of its frame, an unused one holds
`seq_tuple(-1, 0)`, and the constructor's `uint8_t` parameter makes that 255.

Where the two handlers differ the model differs: a server computes the next
sequence number in a `uint8_t`, a client compares with `remote_sequence+1` as an
`int` (`NextForServer`, `NextForClient`). `Dispatched` is the assignment
`l->remote = pack.source_addr` that the interface makes before it calls `on_data`.

`Stream` takes the actions of `Connection` and `Transfer` as they are (`Conn`, `Data`) on
one socket per board; `Free` and the guards on `call` keep each board in one blocking call
at a time. `Transfer` alone starts on an open connection with counters at any
distance; in `Stream` the only initial state is that of two freshly started boards, and
every distance has to be reached. `Reset` is a board that restarts: its socket is
`NewSocket`, its call is gone, the lines and the other board keep what they have.

In `Interface` a board is named by its address and its record `iface[n]` has the members
`sockets`, `ping_echo_payload`, `addr_list_recved` and `addr_field`; `call` is the request the
board is blocked in. `sock[s]` is a socket object with its `iface` pointer, `remote` and ring.
The list of sockets is a set, because nothing in the code depends on its order as long
as ports in it are unique, which `ListIsSound` shows. `Bind` is the call that returns
true; the one that returns false changes nothing and is no step. `UnbindSocket` is
`unbind_socket` called by the application, with any socket of the board, whether its bind succeeded
or not; `Destroy` and `Destruct` make the same call, but only if the socket points to an interface (`Ended`). `Write` is atomic:
`Datagram::write` sends all its packets without polling. `HomeOf` binds a socket to
one interface for life. Fields called history in the comments (`bound`, `got`,
`overran`, `echoer`, `used`, `late`) only serve the properties. The address is taken to be
set before the board communicates (the constructor leaves it unwritten).

In `Framing` the record `parser` has the members of `ParserSerialiser`, with `data_buf`
and `data_pos` as one sequence, `data`. One step is one call of `read(c)`: `Escapes` and
`IsMark` are the tests before its switch, `Advance` is the switch, `Completes` the
call of `read_data()` and `Handled` the handler it picks. `Send` is `send()` of a
packet class: header, members, checksum, each byte through `send_byte`. Bytes are
numbers here, because the property is about which of them have a meaning. `Packet` is the
members of each class, `Packets` those that are sent. Three variables are history: `late`, that the
receiver missed the start of the first frame; `owner`, which packet each byte on the line is of; and
`hit`, the packets of which a byte was lost or damaged.

## Runs

Passing:

| run | instance | shows |
|---|---|---|
| `ConnectionCrowd` | one server, two clients with the same port, two handshakes a socket | `TypeOK`, `CallsSettle`, `InitialisedBeforeUse`, `PeerIsAhead` (which is stated below the wrap) |
| `TransferLossy` | bursts of 2, a ring of 2 that overwrites, one loss, timeouts at any moment, counters at any distance, fairness | `TypeOK`, `DeliveredInOrder`, `AckHonest`, that the transfer implements `OrderedPipe`, `WriteReturns`, `HalfOpenEnds` |
| `TransferQuiet` | bursts of 4, nothing lost, timeouts only when nothing is under way, counters in step | `FirstBurstReliable`, `TimeoutMeansNoResponse` |
| `Stream` | a client that writes and disconnects, a server that reads (and disconnects after three empty reads), one reset of either board, one loss, two handshakes a life | `TypeOK`, `StreamInOrder`, and that the whole implements `OrderedPipe` |
| `StreamLive` | the same with one frame, the client resettable, under fairness | `EveryCallReturns`, `HalfOpenEnds` |
| `Interface` | three boards and a switch, four sockets on one board (two of them for one port) with a list of 2, six scenarios | `TypeOK`, `ListIsSound`, `RemoteSentLast`, `SmallMessagesWhole`, `PingHonest`, `ListIsCurrent` |
| `Framing` | three packets of any class, a late start, one byte lost and one damaged | `TypeOK`, `NothingInvented`, `LossIsLocal`, `IntactArrive`, `PerfectLine`, `BufferInBounds` |

The properties of `Interface` are stated as far as the code keeps them, and their
hypotheses say where it stops. `PingHonest` holds for clock values that are neither 0
nor those of an earlier ping, because the last echo is never forgotten.
`ListIsCurrent` holds until a `get_addr_list` has timed out: its late answer is then
taken for that of the next call, although a "timeout error will be returned" if no response comes in time
(`picolan.h:120`, `:276`). `SmallMessagesWhole` is about messages that fit a
payload and rings that do not overrun: longer chunks (58 bytes against 54) lose their
last four bytes in silence (`datagram.cpp:41`, `serialiser.h:513`). `RemoteSentLast` names the last sender only: what another board
sent before is still in the ring and no longer told apart.

`Framing` also shows where the framing ends. `NothingInvented` is stated up to bytes
that are equal modulo 255, because the checksum does not tell 0x00 from 0xFF: with
exact equality TLC finds an address field that arrives with eight more addresses.
`BufferInBounds` is stated for one fault: after a late start a stuffed 0xAB can be
taken for the start of a frame that announces 200 bytes; if the mark that would end
it is damaged as well, the parser writes past its buffer of 64, since `add_byte` does not
look at `data_pos`. `LossIsLocal` counts one packet for a fault, and it need not be the
packet that is hit: an end mark damaged into 0xAA takes the first mark of the next frame
with it, but its own packet was handled already, at the second byte of the checksum. So
`IntactArrive` promises a packet only if neither it nor the one before was hit; it then arrives as it
was sent and in its turn, in whatever state earlier faults left the parser. `PerfectLine` is the
case without faults: what is handled is exactly what was sent.

Where the code does not do what its comments say, a run states the comment as a
property and TLC finds the behaviour that contradicts it:

| run | the comment | what happens |
|---|---|---|
| `PeerStable` | "SocketStreams form a connection" (`socket_stream.h:66`) | a packet from a third board redirects an open stream, because the interface overwrites `remote` before the handler compares it |
| `WriteOkMeansDelivered` | "ensure all data is sent in good order" (`socket_stream.h:66`) | after a burst the counter advances one too few; the next burst repeats a number, its first frame is dropped and write reports success |
| `WriteReturnsAtWrap` | "return either a positive number [...] or an error number" (`socket_stream.h:87`) | an ACK of 255 matches the marker of an unused slot and write starts over for ever |
| `BoundIsHeard` | "If successful the socket will be able to read/write via this interface" (`picolan.h:149`) | a socket is destroyed, another takes its port, the first is destroyed again or ends: the second one is taken from the list, and hears nothing though its bind succeeded |
| `ConnectedExchange` | "Once the connection is established, the client and server can exchange data" (`client.h:36`) | the SYN is counted by its sender and not skipped by its receiver: every frame of the first connection is refused, on a perfect line (`socket_stream.cpp:226`) |

More such behaviours are in the models and have no run:

- an ACK of an earlier attempt opens a later accept (`server.cpp:113`, under "wait for ack
  reply" at `:53`): the handler does not look at its number;
- a client never takes the frame numbered 0 after 255 (`client.cpp:108`), because it compares 255 + 1 as
  an `int`; it refuses each copy, and the write fails;
- a burst of several frames of up to 52 bytes can overrun a ring of the 64 bytes that are
  "generally" adequate (`client.h:47`): `on_data` acknowledges a frame without looking at the room
  left (`server.cpp:137`), and write reports it as written; `FirstBurstReliable` holds only with room for all;
- data in the ring cannot be read once the peer's CLOSE is handled (`socket_stream.cpp:164`), though
  write reported it as written;
- a full list leaves a socket out whose `bind` returns true (`picolan.h:162`);
- `disconnect` of a listening socket sends a CLOSE although the code means to return
  first (`socket_stream.cpp:203-206`);
- the third empty read disconnects although its last poll may have brought data, which is
  then as far out of reach as after a CLOSE (`socket_stream.cpp:179`);
- `connect`'s timeout does not tell the server (`client.cpp:54`);
- a destroyed socket still sends datagrams (`socket.h:127`), and a socket may be bound to
  two interfaces, of which its destructor leaves one (`picolan.h:161`; excluded by `HomeOf`);
- two echoes that one poll handles: the later overwrites the earlier, and the ping
  that was answered times out (`picolan.h:222`).

### How data ever flows

The run `ConnectedExchange` shows two boards that have just started, connect, write over a perfect
line and see every frame refused: the sender counts its SYN, so that its first frame has the number
after the one that the receiver expects. The theorem `NoDataWithoutReset` says how
far this reaches. Below the wrap of the counter no later handshake repairs it, and no write
reports success by mistake, as long as neither board is reset: a number that was adopted is always
smaller than the counter of its sender (`PeerIsAhead`), whose next frame is one further still. Beyond
the wrap it may come right by chance: after the SYN numbered 255 the counter is 0, and 255 SYNs that go
unheard bring it back to where the receiver expects it.

Sooner, data flows after a reset or with a new socket object: its counter starts again at 1 while the
other side remembers, and retried SYNs then bring the counter to where the other side
expects it. The transfer runs that start in step or at other distances are therefore states of the
program. `AnyGap` takes the distances -2 to 1 with an ACK kept from long before, the state
after a successful write (the receiver and the kept ACK one ahead of the counter), and that
after a new handshake, which renews what the receiver expects but not the kept ACK, so that the ACK is
ahead of what the receiver has heard. `InStep` is the distance 0 with the kept ACK either from before (0) or
equal to the counter, as a write that timed out leaves it.

### Bounds, and why they are enough

- `MaxSyn = 3`: two handshakes a socket, so that the second meets what the first
  left on the line. The counters of the runs do not wrap in `Connection`. Its handlers compare no
  sequence numbers, so `CallsSettle` and `InitialisedBeforeUse` do not depend on that, and
  their theorems hold with any `MaxSyn`, at the wrap as below it. `PeerIsAhead` does:
  it is stated below the wrap (`SynsBelowWrap`), because after the SYN numbered 255 the
  counter is 0 and what was adopted is ahead of it.
- `LineCap = 2` in `Connection`: an accept puts two packets on a route at once,
  and the full route that loses the next packet is reached. In `TransferQuiet` it is
  8, more than a burst, so that the line itself never loses.
- `BurstSz = 2` in the runs with losses keeps the cases (first, last, no frame of
  the burst acknowledged; a shorter burst with unused slots) with messages of up to
  3 frames; the runs about success and the wrap use the code's 4.
- `MaxLoss = 1` in the runs with losses (a full line loses more), `MaxFrames` 2 to 6: a burst, its
  repetition and a following burst or message.
- In `Framing` address fields have 2 bytes and payloads at most 3, so that a frame is
  short; the buffer of 13 bytes is one byte larger than the longest packet with its
  checksum, as 64 is than a datagram with 54 bytes. The packets hold each byte with a
  meaning in an address, a port, a payload and a number. A byte is damaged into a
  stuffing byte, a mark, the first invalid id, a size beyond the buffer, or 255.
  Three packets are the one hit, the next, and one after. No payload is empty.
  Packets are sent when at most one byte is left on the line: faults hit the oldest
  byte, so sending earlier adds nothing.
- In `Stream` each life of a socket has two handshakes (`MaxSyn = 3`), which after one
  reset is enough to bring the counters in step and to deliver data; two frames, one
  loss and one reset let old frames, ACKs and CLOSEs of one connection meet the next.
  `StreamLive` has one frame and no loss, because the tableau for liveness multiplies the
  states; a reset loses what was under way there.
- In `Interface` the sizes are scaled and keep their order: a payload (2 for 54) is smaller
  than a chunk (3 for 58), messages are one shorter and one longer than a chunk, the ring
  (4) takes two small messages and overruns with the third. The list holds two of the
  four sockets of a board in the passing run, so that it is full, and three in
  `BoundIsHeard`, so that the violation there is not the full list. A scenario fixes the kinds of calls
  that are made and their number: seven around binding, two to four for
  messages, losses and requests, and two of any kind together. The clock shows 0, 1 or 2, so that
  pings repeat a value and use the initial one.
- `SeqMod = 256` throughout. `WriteReturnsAtWrap` starts with both counters at 254.
- In `ConnectedExchange` the server writes and the client reads, bursts have the code's 4 frames, nothing
  is lost and no board is reset.
- Runs of `Transfer` end when `MaxFrames` are written and both ends are idle, so they
  do not check for deadlock; nor do those of `Stream` and `Interface`, which end when the
  bounds on SYNs and calls are used up. `Connection` never stops and its runs do check.

### Fairness

In `Stream`, `EveryCallReturns` needs of `accept` and `connect` only that their loops end
when the state has changed or the timeout has passed: both measure a running clock. `WriteReturns` and `HalfOpenEnds` assume that `write`, which
loops, goes on sending and deciding; that what the lines have not lost is handled
(boards keep polling); and that the receiving application keeps calling `read` and
each of its calls ends. Nothing is assumed about losses, except that the model's
bound ends them.

`Patient` marks the runs in which a timeout (a second, by default) is long compared
with the line: it comes only when no packet is under way. All other runs let it come
at any moment.

## Proofs

`ConnectionProofs` proves for any set of boards, any split into servers and clients,
any ports, line capacity and number of handshakes:

- `TypeCorrect`: `Spec => []TypeOK`
- `Settled`: `Spec => []CallsSettle`
- `Initialised`: `Spec => []InitialisedBeforeUse`

The assumptions are those of the constants (`LineCapAssumption`, `SocketAssumption`,
`ConnectionAssumption`): servers are boards, ports are numbers, an unwritten byte is
none of them, the counters have more than two values. Recreated clients are allowed.

None of the three is inductive alone. That an ACK is well typed needs a written
`remote_sequence`, which a socket has in the states after its SYN has come; the
states a socket can be in depend on the call its board is in; and the port a server
writes down is the third byte of a SYN, so something must be known of packets on the
lines. `IInv` collects this as a condition on each socket with its call
(`GoodServer`, `GoodClient`) and on each packet (`GoodPacket`). The lemmas show that
the lines stay good (`TransmitGood`, `ConsumeGood`), that good sockets build good
packets (`AckGood`, `SynGood`, `CloseGood`), that each handler keeps a socket good
(`OpenGood`, `ServerGood`, `ClientGood`, `DeliveryGood`), and that a step that changes
one board is therefore safe for all (`OneBoard`); `StepGood` goes through the actions.

`HandshakeProofs` adds, when no socket is constructed anew (`Recreated = {}`):

- `NumbersLieBehind`: `Spec => []PeerIsAhead`

The property speaks below the wrap only (`SynsBelowWrap`, `MaxSyn < SeqMod`), and so does the proof; at the
wrap it is false, as said above. A number is adopted from a SYN, and the SYN was counted when it was sent, so `Ahead` says of
every SYN on a line that it lies behind its sender's counter. That the counter is that of
the other role needs that SYNs and ACKs only travel between a client and a server,
although every packet overwrites `remote`: a stray CLOSE from the wrong side also
closes the socket it redirects (`FacesPeer`, `ReceivedFaces`). Without the assumption the
statement is false: a counter that starts again at 1 is behind what its peer remembers.

`StreamProofs` proves for any lengths of messages, bursts, ring, line capacity, losses,
resets and number of connections:

- `StreamTypes`: `Spec => []TypeOK`
- `NoDataWithoutReset`: `Spec => []NothingFlows`: until a board is reset no frame is taken and no
  write reports success. This is no promise of the code but the extent of the fault that
  `ConnectedExchange` shows.

`StreamTypes` assumes nothing beyond the constants: it holds at the wrap too. Its inductive
invariant, `TypeInv`, takes the `IInv` of `ConnectionProofs` for the resettable boards
(`Types`): a step of `Conn` is a step of `Connection`, and a reset is its recreation of a
socket. To it come that no frame on a line or in a ring is beyond what was offered
(`FramesOffered`), that a burst lies in its message, and that a board is in one call at
a time (`CallsApart`).

The assumption of `NoDataWithoutReset`, `BelowWrap`, is that handshakes and a burst stay below the wrap of the counter
(`MaxSyn + BurstSz < SeqMod`) and that no board has the address 0. The latter the library does not promise: `picolan.h:97` allows the address 0,
and it is also what `remote` holds before any packet has come. A network with a board there is outside this theorem
and those of `StreamOrderProofs`. `Apart` is the inductive part:
what the receiver has adopted is behind the sender's counter; no frame on the line follows it,
nor any SYN that is still before the frame on the line (`ForwardApart`); and no ACK
has reached the counter (`BackApart`, `CounterApart`), so that `write` never finds its burst
acknowledged (`NoProgress`) and never advances it. Each is needed for the others. That no write
reports success follows on top (`NoSuccess`): a success needs a burst found acknowledged.

`StreamOrderProofs` proves for the same constants:

- `StreamOrdered`: `Spec => []StreamInOrder`
- `StreamIsPipe`: `Spec` implements `OrderedPipe`, with what `write` was given, over all calls, as
  `written` and what `read` has handed out as `read`

over all connections and with any number of resets of either board. It assumes
`RoomBelowWrap`: handshakes and frames stay below the wrap
(`MaxSyn + MaxFrames + 2 < SeqMod`; the counter of one life of a socket can get no
higher), and no board has the address 0. The argument on the phase (below, at
`TransferProofs`) does not carry over as it is: each SYN and each
reset moves the counter without moving the data, so the phase can fall. But both
happen only while the writer is in no `write`, and what it then sends is of a later
message. So of two frames on the line either the later one has at least the
phase of the earlier, or a border lies between them, and then its place is larger whatever the
numbers say (`Precedes`, `Behind`). For the receiver the border is a SYN, from which it
adopts a number that says nothing about what it has taken; `TakenOrdered` therefore keeps that
everything taken is of earlier messages than what follows a SYN on the line.
`OrderInv` says this of the line (`ForwardOrdered`), the frames taken and the counters. With it
`PipeStep` goes through the actions: a frame that is read is later than all that were read,
because the ring holds them in order, and `TypeInv` says that it was written; a reset and a
return of `write` leave what was offered as it is, and every other step is a stutter.

`TransferProofs` proves for any lengths of messages, any burst size, ring, line
capacity, number of losses and timeouts at any moment:

- `TypeCorrect`: `Spec => []TypeOK`
- `AcksAreHonest`: `Spec => []AckHonest`
- `TakenInOrder`: `Spec => DeliveredInOrder`
- `StreamIsPipe`: `Spec` implements `OrderedPipe`, initial states to initial states, every
  step to a step or a stutter

They hold below the wrap. The assumption `BelowWrap` says that in the initial states the
sequence number leaves room for `MaxFrames` numbers, and that what the receiver has heard
and the last ACK lie below the wrap; in which order the three stand is left open, because the ACK kept
from an earlier connection can be ahead of both counters. At the wrap the code behaves
differently, as the run `WriteReturnsAtWrap` shows.

`AckHonest` is about the ACKs on the line: their numbers do not go back and are
not ahead of what the receiver has heard. That is why `write` may keep the last one only. It
does not say that a frame with the number was taken: two frames can have one number, and
`WriteOkMeansDelivered` shows what comes of it. `GoodBack` is its part of the invariant.

The argument is about the *phase* of a frame, the difference between its place in the
data and its sequence number. `write` renumbers: after a burst the counter advances by one
too few, after a failure not at all while the data moves on. So sequence numbers
alone do not order the frames. But the phase never decreases from one frame sent to
the next, and the route keeps order, so of two frames on the route the later one has at
least the phase of the earlier. The receiver accepts only increasing sequence
numbers; with phases that do not decrease either, the frames it takes increase.
`IInv` says this of the ends (`Ends`), of the packets on the lines (`GoodLines`, and
`Flow` for the order of the phases), of the locals of `write` (`GoodCall`, and `GoodRest` for what
is left of the message) and of the counters (`Counters`). The lemmas follow the
operators of `Line` and `SocketStream`, then the actions one by one.

It proves two more things of a transfer without losses:

- `TimeoutsAreTrue`: `Spec => []TimeoutMeansNoResponse`
- `FirstBurstDelivers`: `Spec => []FirstBurstReliable`

Both assume `BelowWrap` and `PatientLines`: a timeout is longer than what is under way needs to
arrive, which is what the timeout parameter of `write` is for, and a line has room for every frame,
so that no packet is lost there without being counted. Without patience both
are false: an answer that is late looks like silence. With lines of two packets
`FirstBurstDelivers` is false, and with lines that hold none `TimeoutsAreTrue`; with lines of
one or two TLC finds no counterexample to that one, so there the assumption may be stronger than
it must be. `TimeoutsAreTrue` lets the
counters of the two ends start any distance apart. `write` recognises silence by
`last_recved_ack == sequence_number`, so the question is whether an ACK that did come can
equal the counter. `QuietInv` says that while both ends are open each frame sent, or its
ACK, is still on a line as long as it was not handled (`Answered`), so a timeout finds every
answer handled; the last ACK handled tells what the receiver has heard; and the burst's first frame,
numbered one after the counter, moves what was heard away from the counter if nothing
else has (`Moving`): when it comes the receiver takes it exactly if it has
heard the counter, and later frames of the burst cannot move it back.

`FirstBurstDelivers` also assumes `StartsInStep`: the receiver expects the sender's first frame, the kept
ACK is not ahead of what was heard, and the ring has room for all (`MaxFrames <= RingCap`). Without
room a burst is reported as sent and a frame is gone: TLC finds it with a ring of one. And an ACK kept from
an earlier connection, if it is ahead, would end the wait for the first burst before its own
ACKs come (`AckBehind` says that it never is). `FirstInv` says that of the first burst the frames heard were
taken, all of them from the first on, and that the others are on the line in order (`FirstFrames`),
so the ACK that ends the burst is that of its last frame and the search cannot stop
earlier. That a ring never fills follows from `Spread`: no frame is before its
place in it. A second message is out of the theorem's reach for a reason: after
the first burst the counters are no longer in step.

`InterfaceProofs` proves for any boards, sockets, ports, list capacity, payloads, ring
and scenarios:

- `ListsSound`: `Spec => []ListIsSound`

The assumptions are `InterfaceAssumption` and those of `Line` and `Datagram`; of the scenarios
it uses that the sockets bound in `setup()` fit together (`FitToBind`). `ListIsSound` is
nearly inductive: that `Destroy` and `Destruct` do not leave a dead or unbound socket in the
list needs that `Unbound` removes every listed socket with the port, the socket
itself included (`UnbindSocket`, `Destroy` and `Destruct` share it, the latter two through `Ended`), and so that a listed socket's own pointer names the interface
that lists it; the conjunct `sock[s].iface = n` says so. It needs no word of the lines.

- `InterfaceTypes`: `Spec => []TypeOK`

A packet on a line is as its sender builds it and names the two ends of its route
(`GoodLines`), and only a board and the switch ask one another for addresses. That the number of sockets in a list is at
most `ListCap` needs finitely many sockets, which `InterfaceAssumption` says.

`InterfaceTrafficProofs` proves for the same constants:

- `PingIsHonest`: `Spec => []PingHonest`
- `ListIsFresh`: `Spec => []ListIsCurrent`
- `RemoteIsLast`: `Spec => []RemoteSentLast`
- `SmallMessagesAreWhole`: `Spec => []SmallMessagesWhole`

A lemma (`StepCalm`) says which actions put which packets on a line; for all others a
property is kept because the line only loses packets. `PingHonest` needs that every ping and echo
with the payload of the ping in progress was sent by this ping, or came from the board it
asked (`PingsTold`), and that there is one such ping (`OneAsked`). `ListIsCurrent`
needs that before the first timeout the requests and answers under way are together one, that of the
call in progress (`ListFresh`). `RemoteSentLast` needs that a datagram names its true sender
(`FromSender`). `SmallMessagesWhole` needs that the datagrams of one message are
whole on the line, and in the ring follow each other; it assumes that a payload is no longer than a chunk
(`PayloadCap <= ChunkSz`; 54 and 58 in the code): without it a message that fits a payload
would be cut in two, of which one can be lost.

`FramingProofs` proves for any packets, any number of them, any number of faults and any
values a damaged byte may take:

- `FramingTypes`: `Spec => []TypeOK`
- `BufferIsLargeEnough`: `BufferFits => (Spec => []BufferInBounds)`
- `FaultsCostOne`: `Spec => []LossIsLocal`
- `IntactArrives`: `Spec => []IntactArrive`
- `PerfectLineIsExact`: `Spec => []PerfectLine`

`FramingAssumption` says that the packets are of the six classes (`Packet`), and `CodecAssumption` that
their sizes fit the byte that announces them. That `send()` then writes bytes, as many as `size()`
returns, and that `from_bytes()` recovers the members from them, is proved (`PacketsEncode`). The hard
case is the address field, a byte of which is the sum of a set of powers of two: `AddressField` shows that
each bit can be read back from the sum. `BufferFits` says that the buffer has room for the longest frame from its id to
its checksum and one byte more: 59 + 5 in the code, which is its 64 exactly. A parser in step adds less; one that
has missed a mark or a size can add all of this.

`data` is a sequence without end, where the code has `data_buf[64]` and an index of one byte. With at most one fault
`BufferIsLargeEnough` justifies this. With more, `NothingInvented`, `LossIsLocal` and `IntactArrive`, and the theorems
about the last two, presuppose that an overrun of the buffer has no effect: what it would write over is
outside the model.

All of them give each byte on the line a label (`Label`): whether it is the first or the last mark, a
stuffing byte, the literal after one, or any other; which byte of its frame it stands for; and
the size, the content and the ordinal of that frame. `Means` ties the byte to
its label, `Follows` says which label comes after which, and `Labels` that a sequence of bytes is a
tail of frames in the order in which they were sent. `FrameLabels` shows that `send()` writes such a
sequence, so that no byte but a mark reads as one; reading, losing or damaging
a byte leaves a shorter one. What the parser does with a byte is then
compared with the label. `TypesInv` adds that what the parser has counted agrees with
its state. For the buffer the invariant (`BufferInv`) has two cases. Without a fault the parser is
where the next byte has its place (`InStep`). After one it may be anywhere, but what
the frame can still add fits behind what is there, with a byte more if
the parser waits for a stuffed byte and none follows (`Bounded`); this
is where the spare byte is used up, and why a second fault is not covered. For the losses,
`Due` is how many of the packets sent before the next byte, or with it, count as lost unless they were
handled: the frame of the next byte counts unless it is still to begin or the parser has
all of it right (`Tracks`), and a frame about to begin counts if a flag left over would hide its
mark (`Risk`). A byte read raises `Due` only when a packet is handled, a fault by
at most one, wherever it hits; so `LossInv` keeps `Due` within the packets handled and the faults.

For the contents, `ArriveInv` ties the labels to the packets: `Marked` says that the bytes with the
ordinal `k` are those of `sent[k]` (`Carries`), `Clean` that a parser tracks the frame of the next byte
if neither this frame nor the one before was hit, and `Embeds` that the intact packets that have
passed (`Through`) have places among those handled, in order and unchanged. Damage may add packets that
nobody sent, but never takes one of these away (`EmbedsStill`). Without faults the invariant
says outright that the handled packets are a prefix of those sent, up to the label of the next
byte (`Passed`).

The stuffing and the checksum are folds, so something must be known of
recursive functions. The induction theorems of the library cannot be instantiated here, as they
take an operator, but induction over one set can be derived from the pigeonhole theorem for finite
sets (`InductionOnSet`); this is enough for the existence and the lengths of the folds, and for the
labels of a stuffed sequence.

Only model-checked: `NothingInvented`, which under faults is not true for every choice of packets
and damage, since a checksum of 16 bits has collisions that three short packets do not meet (without
faults it follows from `PerfectLine`); and
liveness (`EveryCallReturns`, `WriteReturns`, `HalfOpenEnds`), which the prover cannot
treat.

## Not modelled, and the plan

What could still be added, in this order:

1. **Framing over Line**: that the lossy FIFO routes of `Line` are what `Framing`
   offers, as a refinement.
2. **Data in both directions** of a stream at once; in `Transfer` and `Stream` one board writes and
   the other reads.

Left out for good: the switches (another program), broadcast and multicast routing,
the Node.js binding's variants of the same functions, wording and documentation data.
The models take from outside the repository that a damaged packet is a lost one
(which `Framing` checks of one line), that routes keep order, and that
`etk::RingBuffer` drops either the oldest or the newest element when it is full: both
are checked where it matters (`RingOverwrites`).
