---------------------------- MODULE MCReassembler ----------------------------
(* Instances of Reassembler for TLC: how the sender cuts its stream. *)
EXTENDS Reassembler

\* Fixed cuts of one and two bytes.
Fixed == {[off |-> 0, len |-> 1], [off |-> 1, len |-> 2], [off |-> 3, len |-> 1],
          [off |-> 4, len |-> 2], [off |-> 6, len |-> 2]}

\* Fixed cuts of two bytes of a stream of any length.
Pairs == {[off |-> 2 * i, len |-> 2] : i \in 0..((StreamLen \div 2) - 1)}
=============================================================================
