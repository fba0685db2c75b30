---------------------------- MODULE Reassembler ----------------------------
(***************************************************************************)
(* The TCP reassembler (nfdl-runtime/src/reassembly.rs) fed by a network   *)
(* that delays, reorders and duplicates the segments of one sender.        *)
(*                                                                         *)
(* Sequence numbers are taken modulo SeqMod (2^32 in the code) and compared *)
(* as plain integers, as the code does.  A byte is its position in the     *)
(* sender's stream, and a retransmission carries the bytes it repeats. The *)
(* sender stays within Window of what has been reassembled, as TCP does.   *)
(***************************************************************************)
EXTENDS Naturals, Sequences, FiniteSets

CONSTANTS
    SeqMod, InitialSeq,
    StreamLen,      \* bytes the sender has
    Cuts,           \* the segments it may send: [off, len]
    Window, MaxBuffer,
    Keeps,          \* arguments compact is called with
    MaxSegments     \* bound on arrivals

ASSUME StreamConstants ==
    /\ SeqMod \in Nat \ {0} /\ InitialSeq \in 0..(SeqMod - 1)
    /\ StreamLen \in Nat /\ Window \in Nat /\ MaxBuffer \in Nat
    /\ MaxSegments \in Nat /\ Keeps \subseteq Nat
    /\ 2 * Window <= SeqMod
    /\ Cuts \subseteq {c \in [off : 0..StreamLen, len : 0..StreamLen] :
                        c.off + c.len <= StreamLen}

VARIABLES
    baseSeq, contiguous, ooo, nextSeq,
    compacted,      \* history: bytes compact has dropped
    accepted,       \* history: the segments accept_segment returned Ok for
    arrivals

vars == <<baseSeq, contiguous, ooo, nextSeq, compacted, accepted, arrivals>>

Seq32(n) == n % SeqMod
Delivered == compacted + Len(contiguous)

\* The bytes of cut c.
Data(c) == [i \in 1..c.len |-> c.off + i]
SeqOf(c) == Seq32(InitialSeq + c.off)

InWindow(c) ==
    /\ c.off + c.len <= Delivered + Window
    /\ c.off + Window >= Delivered

Init ==
    /\ baseSeq = InitialSeq /\ nextSeq = InitialSeq
    /\ contiguous = <<>> /\ ooo = <<>>
    /\ compacted = 0 /\ accepted = {} /\ arrivals = 0

\* One turn of the draining loop, on the part of the state it changes.
DrainStep(r) ==
    IF r.next \in DOMAIN r.ooo
    THEN [cont |-> r.cont \o r.ooo[r.next],
          next |-> Seq32(r.next + Len(r.ooo[r.next])),
          ooo  |-> [s \in DOMAIN r.ooo \ {r.next} |-> r.ooo[s]]]
    ELSE r

Drain_Once(r) == DrainStep(r)

\* The loop that drains `ooo`: as long as the lowest entry at or after nextSeq
\* is exactly at nextSeq.  There are at most Cardinality(DOMAIN r.ooo) turns.
Turns(r) ==
    LET turn[n \in 0..Cardinality(DOMAIN r.ooo)] ==
            IF n = 0 THEN r ELSE DrainStep(turn[n - 1])
    IN  turn
Drain(r) == Turns(r)[Cardinality(DOMAIN r.ooo)]

\* The sequence number after `data`.
Past(s, data) == Seq32(s + Len(data))

TooLong(data) == Len(contiguous) + Len(data) > MaxBuffer

InOrder(data) ==
    LET r == Drain([cont |-> contiguous \o data, next |-> Past(nextSeq, data),
                    ooo  |-> ooo])
    IN  contiguous' = r.cont /\ nextSeq' = r.next /\ ooo' = r.ooo

\* An entry at the same sequence number is only replaced by a longer one.
Queue(s, data) ==
    IF s \in DOMAIN ooo
    THEN [ooo EXCEPT ![s] = IF Len(@) < Len(data) THEN data ELSE @]
    ELSE [t \in DOMAIN ooo \cup {s} |-> IF t = s THEN data ELSE ooo[t]]

\* accept_segment; LimitExceeded leaves the reassembler as it is.
AcceptSegment(c) ==
    /\ arrivals < MaxSegments /\ InWindow(c)
    /\ arrivals' = arrivals + 1
    /\ LET s == SeqOf(c)
           data == Data(c)
       IN  \/ /\ TooLong(data)
              /\ UNCHANGED <<contiguous, nextSeq, ooo, accepted>>
           \/ /\ ~TooLong(data) /\ s = nextSeq
              /\ InOrder(data)
              /\ accepted' = accepted \cup {c}
           \/ /\ ~TooLong(data) /\ s > nextSeq
              /\ ooo' = Queue(s, data)
              /\ accepted' = accepted \cup {c}
              /\ UNCHANGED <<contiguous, nextSeq>>
           \/ /\ ~TooLong(data) /\ s < nextSeq
              /\ accepted' = accepted \cup {c}
              /\ UNCHANGED <<contiguous, nextSeq, ooo>>
    /\ UNCHANGED <<baseSeq, compacted>>

Drained_OffByOne(keep) == Len(contiguous) - keep + 1
Drained(keep) == Len(contiguous) - keep

Compact(keep) ==
    /\ Len(contiguous) > keep
    /\ contiguous' = SubSeq(contiguous, Drained(keep) + 1, Len(contiguous))
    /\ baseSeq' = Seq32(baseSeq + Len(contiguous) - keep)
    /\ compacted' = compacted + Len(contiguous) - keep
    /\ UNCHANGED <<nextSeq, ooo, accepted, arrivals>>

Next ==
    \/ \E c \in Cuts : AcceptSegment(c)
    \/ \E keep \in Keeps : Compact(keep)

Spec == Init /\ [][Next]_vars

----------------------------------------------------------------------------
(* Properties.                                                             *)

\* Type invariant.
TypeOK ==
    /\ baseSeq \in 0..(SeqMod - 1) /\ nextSeq \in 0..(SeqMod - 1)
    /\ DOMAIN ooo \subseteq 0..(SeqMod - 1)
    /\ compacted \in 0..StreamLen /\ Len(contiguous) <= StreamLen
    /\ accepted \subseteq Cuts /\ arrivals \in 0..MaxSegments

\* What is handed to the parser is the sender's stream from the compacted
\* prefix on, without a gap, a repetition or a byte out of place, and the two
\* sequence numbers mark its ends.
StreamInOrder ==
    /\ \A i \in DOMAIN contiguous : contiguous[i] = compacted + i
    /\ baseSeq = Seq32(InitialSeq + compacted)
    /\ nextSeq = Seq32(InitialSeq + Delivered)

\* Positions from the start of the stream that the accepted segments cover.
Covered(n) == \A p \in 1..n : \E c \in accepted : c.off < p /\ p <= c.off + c.len

\* Nothing is held back: every byte that the accepted segments connect to the
\* start of the stream has been delivered, in whatever order they came.
NothingHeldBack == \A n \in 1..StreamLen : Covered(n) => n <= Delivered
=============================================================================
