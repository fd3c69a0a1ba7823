------------------------------ MODULE MCStream ------------------------------
(* Instances of Stream for TLC. *)
EXTENDS Stream

MCPortOf == [n \in Node |-> IF n \in Servers THEN 10 ELSE 20]
=============================================================================
