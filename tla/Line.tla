-------------------------------- MODULE Line --------------------------------
(***************************************************************************)
(* The serial lines and switches between the boards, seen from the         *)
(* sockets.  Everything here is outside the repository: src/ only calls    *)
(* put/get/available of a serial driver.  The frame checksum turns a       *)
(* damaged packet into a lost one, and a full receive buffer loses what    *)
(* does not fit, so a route is a FIFO that holds at most LineCap packets   *)
(* and from which the oldest packet may vanish.                            *)
(***************************************************************************)
EXTENDS Integers, Sequences

CONSTANTS
    Node,       \* the boards, each with one Interface, named by its address
    LineCap     \* packets a route holds before the next one is lost

ASSUME LineCapAssumption == LineCap \in Nat

Route == Node \X Node

EmptyLines == [r \in Route |-> <<>>]

(* The packets that are on some route. *)
OnLines(lines) == UNION { { lines[r][i] : i \in DOMAIN lines[r] } : r \in Route }

(* put(): the packet p enters the route from p.src to p.dst.  Nobody owns
   an address outside Node, and a full route loses the packet.              *)
Transmit(lines, p) ==
    [r \in Route |-> IF r = <<p.src, p.dst>> /\ Len(lines[r]) < LineCap
                     THEN Append(lines[r], p)
                     ELSE lines[r]]

(* get(): the oldest packet of route r has been taken out.                  *)
Consume(lines, r) == [lines EXCEPT ![r] = Tail(@)]
=============================================================================
