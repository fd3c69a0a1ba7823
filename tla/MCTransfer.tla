----------------------------- MODULE MCTransfer -----------------------------
(* Instances of Transfer for TLC: where the two counters may stand when the
   transfer begins.  gap is the sender's sequence_number minus the receiver's
   remote_sequence.                                                         *)
EXTENDS Transfer

MCPortOf == [n \in Node |-> IF n \in Servers THEN 10 ELSE 20]

StartAt(seq, gap) == [seq |-> seq, heard |-> seq - gap, ack |-> 0]

InStep  == { StartAt(2, 0),                         \* the receiver expects the first frame;
             [seq |-> 2, heard |-> 2, ack |-> 2] }  \* also after a write that timed out
AnyGap  == { StartAt(5, gap) : gap \in -2 .. 1 }
             \cup { [seq |-> 5, heard |-> 6, ack |-> 6],    \* after a write that succeeded,
                    [seq |-> 5, heard |-> 4, ack |-> 5] }   \* and after a new handshake
AtWrap  == { [seq |-> 254, heard |-> 254, ack |-> 254] }
=============================================================================
