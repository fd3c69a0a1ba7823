---------------------------- MODULE MCConnection ----------------------------
(* Instances of Connection for TLC: every client listens on port 20 and every
   server on port 10, as boards flashed with the same sketches do.          *)
EXTENDS Connection

MCPortOf == [n \in Node |-> IF n \in Servers THEN 10 ELSE 20]
=============================================================================
