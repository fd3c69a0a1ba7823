----------------------------- MODULE MCFraming -----------------------------
(* An instance of Framing for TLC.  Address fields have 2 bytes and payloads up
   to 3, so the longest packet is a datagram of size 8.                      *)
EXTENDS Framing

MCDatagram(payload) ==
    [id |-> DATAGRAM, ttl |-> 6, source_addr |-> 1, dest_addr |-> 2, port |-> 9,
     payload |-> payload]

(* Every class of packet, with every byte that has a meaning on the line:
   {1, 3, 5, 7} is the address field of the bytes 0xAA and 0, and 255 may
   arrive in place of that 0.                                                *)
MCPackets ==
    { MCDatagram(<<Begin, 1, 200>>), MCDatagram(<<Stuff, End>>),
      [id |-> GET_ADDR_LIST, ttl |-> 6],
      [id |-> ADDR, addrs |-> {1, 3, 5, 7}],
      [id |-> PING, ttl |-> 6, source_addr |-> Begin, dest_addr |-> End,
       payload |-> 256 * Stuff + 1],
      [id |-> PING_ECHO, ttl |-> 6, source_addr |-> 1, dest_addr |-> 2, payload |-> 7],
      [id |-> SUBSCRIBE, ttl |-> 6, port |-> Stuff, addr |-> 2, subscribe |-> 1] }

MCInterrupted == { MCDatagram(<<Begin, 1, 200>>), MCDatagram(<<Stuff, End>>) }
=============================================================================
