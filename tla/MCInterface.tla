---------------------------- MODULE MCInterface ----------------------------
(* Instances of Interface for TLC: on board a two sockets for one port and two
   more for others, one more than its list has room for; boards b and c have
   one socket each.                                                         *)
EXTENDS Interface

CONSTANTS a, b, c, d1, d2, d3, d4, e1, f1

MCHomeOf == [s \in SocketId |-> IF s = e1 THEN b ELSE IF s = f1 THEN c ELSE a]
MCPortOf == [s \in SocketId |-> IF s = d3 THEN 2 ELSE IF s = d4 THEN 3 ELSE 1]

Scenario(setup, kinds, left) == [setup |-> setup, kinds |-> kinds, left |-> left]

(* Binding and unbinding; datagrams among bound sockets, once between more
   boards and once more of them; pings; the address list; all of it.        *)
MCScenarios ==
    { Scenario({}, {"object", "bind", "unbind", "destroy"}, 7),
      Scenario({d1, d3, e1, f1}, {"datagram", "loss"}, 2),
      Scenario({d1, e1}, {"datagram", "loss"}, 3),
      Scenario({}, {"ping", "loss"}, 3),
      Scenario({}, {"list", "ask", "loss"}, 4),
      Scenario({d1, e1}, Kind, 2) }

(* Only sockets that are bound and destroyed. *)
MCDestroyed == { Scenario({}, {"object", "bind", "destroy"}, 7) }
=============================================================================
