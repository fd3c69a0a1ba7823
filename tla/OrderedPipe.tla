---------------------------- MODULE OrderedPipe ----------------------------
(***************************************************************************)
(* What the receiving application of a stream may count on: the frames it  *)
(* reads are frames the sending application wrote, in the order in which   *)
(* they were written and none of them twice.  Frames may be missing.       *)
(***************************************************************************)
EXTENDS Integers, Sequences

VARIABLES
    written,    \* how many frames the sending application has handed over
    read        \* the frames the receiving application has read

PipeInit == written = 0 /\ read = <<>>

Write == written' \in Nat /\ written' > written /\ UNCHANGED read

Read(k) ==
    /\ \A i \in DOMAIN read : read[i] < k
    /\ read' = Append(read, k)
    /\ UNCHANGED written

PipeNext == Write \/ \E k \in 1 .. written : Read(k)

PipeSpec == PipeInit /\ [][PipeNext]_<<written, read>>
=============================================================================
