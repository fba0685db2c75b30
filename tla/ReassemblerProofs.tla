--------------------------- MODULE ReassemblerProofs ---------------------------
(***************************************************************************)
(* Proofs about Reassembler, for every sender, window and buffer limit.    *)
(***************************************************************************)
EXTENDS Reassembler, SetInduction, FiniteSetTheorems

\* The sizes are numbers.
LEMMA Sizes ==
    /\ SeqMod \in Nat \ {0} /\ InitialSeq \in Nat /\ StreamLen \in Nat
BY StreamConstants

USE Sizes

-----------------------------------------------------------------------------
(* Sequence arithmetic (wrapping_add on u32). *)

\* A sequence number fits its width.
LEMMA SeqType ==
    ASSUME NEW a \in Nat
    PROVE  Seq32(a) \in 0..(SeqMod - 1)
BY DEF Seq32

\* Every position is a number of whole turns of the sequence space and a rest.
LEMMA SeqTurns ==
    ASSUME NEW a \in Nat
    PROVE  \E q \in Nat : a = SeqMod * q + Seq32(a)
<1> WITNESS a \div SeqMod \in Nat
<1> QED
  BY DEF Seq32

\* Two positions less than a turn apart with one sequence number are the same.
LEMMA SeqInjective ==
    ASSUME NEW a \in Nat, NEW b \in Nat, Seq32(a) = Seq32(b),
           a - b < SeqMod, b - a < SeqMod
    PROVE  a = b
<1>1. PICK q \in Nat : a = SeqMod * q + Seq32(a)
  BY SeqTurns
<1>2. PICK p \in Nat : b = SeqMod * p + Seq32(b)
  BY SeqTurns
<1>3. Seq32(a) \in Nat
  BY SeqType
<1>4. SeqMod * (q - p) = SeqMod * q - SeqMod * p
  OBVIOUS
<1>5. a - b = SeqMod * (q - p)
  <2> DEFINE x == SeqMod * q
             y == SeqMod * p
  <2>1. x \in Nat /\ y \in Nat
    OBVIOUS
  <2>2. a = x + Seq32(a) /\ b = y + Seq32(b)
    BY <1>1, <1>2
  <2> HIDE DEF x, y
  <2>3. a - b = x - y
    BY <1>3, <2>1, <2>2
  <2> QED
    BY <1>4, <2>3 DEF x, y
<1> QED
  BY <1>5

\* wrapping_add of a length moves a sequence number as it moves the position.
LEMMA SeqAdd ==
    ASSUME NEW a \in Nat, NEW n \in Nat
    PROVE  Seq32(Seq32(a) + n) = Seq32(a + n)
<1>1. PICK q \in Nat : a = SeqMod * q + Seq32(a)
  BY SeqTurns
<1>2. Seq32(a) + n \in Nat
  BY SeqType
<1>3. PICK p \in Nat : Seq32(a) + n = SeqMod * p + Seq32(Seq32(a) + n)
  BY <1>2, SeqTurns
<1>4. PICK k \in Nat : a + n = SeqMod * k + Seq32(a + n)
  <2>1. a + n \in Nat
    OBVIOUS
  <2> QED
    BY <2>1, SeqTurns
<1> DEFINE x == Seq32(Seq32(a) + n)
           y == Seq32(a + n)
<1>5. x \in 0..(SeqMod - 1) /\ y \in 0..(SeqMod - 1)
  BY <1>2, SeqType
<1>6. x - y = SeqMod * (k - (q + p))
  BY <1>1, <1>3, <1>4, <1>5, SeqType
<1> QED
  BY <1>5, <1>6

-----------------------------------------------------------------------------
(* The draining loop. *)

\* The table of turns is well defined: turn n is one step from turn n - 1.
LEMMA TurnsDef ==
    ASSUME NEW r, Cardinality(DOMAIN r.ooo) \in Nat
    PROVE  /\ Turns(r)[0] = r
           /\ \A n \in 0..(Cardinality(DOMAIN r.ooo) - 1) :
                Turns(r)[n + 1] = DrainStep(Turns(r)[n])
<1> DEFINE N == Cardinality(DOMAIN r.ooo)
           Table(f, k) == f = [n \in 0..k |-> IF n = 0 THEN r ELSE DrainStep(f[n - 1])]
           S == {k \in Nat : \E f : Table(f, k)}
<1>1. 0 \in S
  <2> DEFINE f == [n \in 0..0 |-> r]
  <2>1. f = [n \in 0..0 |-> IF n = 0 THEN r ELSE DrainStep(f[n - 1])]
    OBVIOUS
  <2> QED
    BY <2>1
<1>2. ASSUME NEW k \in Nat, k \in S PROVE k + 1 \in S
  <2>1. PICK f : Table(f, k)
    BY <1>2
  <2> DEFINE g == [n \in 0..(k + 1) |-> IF n = k + 1 THEN DrainStep(f[k]) ELSE f[n]]
  <2>2. \A n \in 0..(k + 1) : g[n] = IF n = 0 THEN r ELSE DrainStep(g[n - 1])
    <3> SUFFICES ASSUME NEW n \in 0..(k + 1)
                 PROVE  g[n] = IF n = 0 THEN r ELSE DrainStep(g[n - 1])
      OBVIOUS
    <3>1. CASE n = k + 1
      BY <3>1
    <3>2. CASE n \in 0..k
      <4>1. f[n] = IF n = 0 THEN r ELSE DrainStep(f[n - 1])
        BY <2>1, <3>2
      <4>2. g[n] = f[n] /\ (n # 0 => g[n - 1] = f[n - 1])
        BY <3>2
      <4> QED
        BY <4>1, <4>2
    <3> QED
      BY <3>1, <3>2
  <2>3. Table(g, k + 1)
    BY <2>2
  <2> HIDE DEF g, Table
  <2>4. \E h : Table(h, k + 1)
    BY <2>3
  <2> QED
    BY <2>4
<1>3. N \in S
  BY <1>1, <1>2, AllNaturals
<1>4. Turns(r) = CHOOSE f : Table(f, N)
  BY DEF Turns
<1>5. Table(Turns(r), N)
  BY <1>3, <1>4
<1> QED
  BY <1>5

\* Every queued entry is a segment of the stream under its sequence number.
OfStream(q) == \A s \in DOMAIN q : \E c \in Cuts : s = SeqOf(c) /\ q[s] = Data(c)

\* The buffer holds the stream from byte `from` on, and `next` marks its end.
InPlace(r, from) ==
    /\ r.cont \in Seq(Nat)
    /\ \A i \in 1..Len(r.cont) : r.cont[i] = from + i
    /\ from + Len(r.cont) <= StreamLen
    /\ r.next = Seq32(InitialSeq + (from + Len(r.cont)))
    /\ OfStream(r.ooo)

\* A segment is a run of positions of the stream.
LEMMA CutFacts ==
    ASSUME NEW c \in Cuts
    PROVE  /\ c.off \in Nat /\ c.len \in Nat /\ c.off + c.len <= StreamLen
           /\ Data(c) \in Seq(Nat) /\ Len(Data(c)) = c.len
           /\ \A i \in 1..c.len : Data(c)[i] = c.off + i
           /\ SeqOf(c) \in 0..(SeqMod - 1)
<1>1. c.off \in Nat /\ c.len \in Nat /\ c.off + c.len <= StreamLen
  BY StreamConstants
<1>2. InitialSeq + c.off \in Nat
  BY <1>1
<1>3. SeqOf(c) \in 0..(SeqMod - 1)
  BY <1>2, SeqType DEF SeqOf
<1>4. Data(c) \in [1..c.len -> Nat]
  BY <1>1 DEF Data
<1>5. Data(c) \in Seq(Nat) /\ Len(Data(c)) = c.len
  BY <1>1, <1>4
<1>6. \A i \in 1..c.len : Data(c)[i] = c.off + i
  BY <1>1 DEF Data
<1> QED
  BY <1>1, <1>3, <1>5, <1>6

\* The queue is finite, its keys being sequence numbers.
LEMMA QueueFinite ==
    ASSUME NEW q, OfStream(q)
    PROVE  /\ DOMAIN q \subseteq 0..(SeqMod - 1)
           /\ IsFiniteSet(DOMAIN q)
           /\ Cardinality(DOMAIN q) \in Nat
<1>1. DOMAIN q \subseteq 0..(SeqMod - 1)
  BY CutFacts DEF OfStream
<1>2. IsFiniteSet(0..(SeqMod - 1))
  BY FS_Interval
<1> QED
  BY <1>1, <1>2, FS_Subset, FS_CardinalityType

\* In a stream shorter than the sequence space, the segment with the sequence
\* number of a position starts at that position.
LEMMA SegmentAt ==
    ASSUME StreamLen < SeqMod, NEW c \in Cuts, NEW p \in 0..StreamLen,
           SeqOf(c) = Seq32(InitialSeq + p)
    PROVE  c.off = p
<1>1. c.off \in 0..StreamLen
  BY CutFacts
<1>2. InitialSeq + c.off \in Nat /\ InitialSeq + p \in Nat
  BY <1>1
<1>3. Seq32(InitialSeq + c.off) = Seq32(InitialSeq + p)
  BY DEF SeqOf
<1>4. InitialSeq + c.off = InitialSeq + p
  BY <1>1, <1>2, <1>3, SeqInjective
<1> QED
  BY <1>1, <1>4

\* A concatenation is as long as its parts.
LEMMA ConcatLength ==
    ASSUME NEW s \in Seq(Nat), NEW t \in Seq(Nat)
    PROVE  Len(s \o t) = Len(s) + Len(t)
OBVIOUS

\* A run of the stream followed by the run that starts where it ends is a run.
LEMMA StreamAppended ==
    ASSUME NEW s \in Seq(Nat), NEW t \in Seq(Nat), NEW from \in Nat,
           \A i \in 1..Len(s) : s[i] = from + i,
           \A i \in 1..Len(t) : t[i] = (from + Len(s)) + i
    PROVE  /\ s \o t \in Seq(Nat) /\ Len(s \o t) = Len(s) + Len(t)
           /\ \A i \in 1..Len(s \o t) : (s \o t)[i] = from + i
<1>1. s \o t \in Seq(Nat) /\ Len(s \o t) = Len(s) + Len(t)
  OBVIOUS
<1>2. ASSUME NEW i \in 1..Len(s \o t) PROVE (s \o t)[i] = from + i
  <2>1. CASE i <= Len(s)
    BY <2>1
  <2>2. CASE i > Len(s)
    <3>1. i - Len(s) \in 1..Len(t) /\ (s \o t)[i] = t[i - Len(s)]
      BY <1>1, <2>2
    <3> QED
      BY <3>1
  <2> QED
    BY <2>1, <2>2
<1> QED
  BY <1>1, <1>2

\* A turn that finds an entry at the end of the buffer appends the bytes that follow.
LEMMA StepAppends ==
    ASSUME StreamLen < SeqMod, NEW from \in Nat, NEW r, InPlace(r, from),
           r.next \in DOMAIN r.ooo
    PROVE  \E c \in Cuts :
              /\ SeqOf(c) = r.next /\ r.ooo[r.next] = Data(c)
              /\ c.off = from + Len(r.cont)
              /\ DrainStep(r) = [cont |-> r.cont \o Data(c),
                                 next |-> Seq32(InitialSeq + (c.off + c.len)),
                                 ooo  |-> [s \in DOMAIN r.ooo \ {r.next} |-> r.ooo[s]]]
<1>1. PICK c \in Cuts : SeqOf(c) = r.next /\ r.ooo[r.next] = Data(c)
  BY DEF InPlace, OfStream
<1>2. c.off \in Nat /\ c.len \in Nat /\ Len(Data(c)) = c.len
  BY CutFacts
<1>3. from + Len(r.cont) \in 0..StreamLen
  BY DEF InPlace
<1>4. c.off = from + Len(r.cont)
  BY <1>1, <1>3, SegmentAt DEF InPlace
<1>5. InitialSeq + c.off \in Nat
  BY <1>2
<1>6. Seq32(r.next + c.len) = Seq32((InitialSeq + c.off) + c.len)
  <2>1. r.next = Seq32(InitialSeq + c.off)
    BY <1>4 DEF InPlace
  <2> QED
    BY <1>2, <1>5, <2>1, SeqAdd
<1>7. (InitialSeq + c.off) + c.len = InitialSeq + (c.off + c.len)
  BY <1>2
<1> QED
  BY <1>1, <1>2, <1>4, <1>6, <1>7 DEF DrainStep

\* A turn keeps the buffer in place.
LEMMA StepInPlace ==
    ASSUME StreamLen < SeqMod, NEW from \in Nat, NEW r, InPlace(r, from)
    PROVE  InPlace(DrainStep(r), from)
<1>1. CASE r.next \notin DOMAIN r.ooo
  BY <1>1 DEF DrainStep
<1>2. CASE r.next \in DOMAIN r.ooo
  <2>1. PICK c \in Cuts :
              /\ c.off = from + Len(r.cont)
              /\ DrainStep(r) = [cont |-> r.cont \o Data(c),
                                 next |-> Seq32(InitialSeq + (c.off + c.len)),
                                 ooo  |-> [s \in DOMAIN r.ooo \ {r.next} |-> r.ooo[s]]]
    BY <1>2, StepAppends, Zenon
  <2>2. /\ c.off \in Nat /\ c.len \in Nat /\ c.off + c.len <= StreamLen
        /\ Data(c) \in Seq(Nat) /\ Len(Data(c)) = c.len
        /\ \A i \in 1..c.len : Data(c)[i] = c.off + i
    BY CutFacts
  <2>3. /\ r.cont \in Seq(Nat) /\ \A i \in 1..Len(r.cont) : r.cont[i] = from + i
        /\ OfStream(r.ooo)
    BY DEF InPlace
  <2> DEFINE t == r.cont \o Data(c)
  <2>4. /\ t \in Seq(Nat) /\ Len(t) = Len(r.cont) + c.len
        /\ \A i \in 1..Len(t) : t[i] = from + i
    <3>1. \A i \in 1..Len(Data(c)) : Data(c)[i] = (from + Len(r.cont)) + i
      BY <2>1, <2>2
    <3>2. /\ t \in Seq(Nat) /\ Len(t) = Len(r.cont) + Len(Data(c))
          /\ \A i \in 1..Len(t) : t[i] = from + i
      BY <2>2, <2>3, <3>1, StreamAppended
    <3> QED
      BY <2>2, <3>2
  <2>6. Len(r.cont) \in Nat
    BY <2>3
  <2>7. from + Len(t) = c.off + c.len
    BY <2>1, <2>2, <2>4, <2>6
  <2>8. OfStream(DrainStep(r).ooo)
    BY <2>1, <2>3 DEF OfStream
  <2>9. DrainStep(r).cont = t /\ DrainStep(r).next = Seq32(InitialSeq + (c.off + c.len))
    BY <2>1
  <2> HIDE DEF t
  <2> QED
    BY <2>2, <2>4, <2>7, <2>8, <2>9 DEF InPlace
<1> QED
  BY <1>1, <1>2

\* The loop leaves the buffer in place, and it stops only when no entry is left
\* at the end of the buffer: there are as many turns as entries.
LEMMA DrainInPlace ==
    ASSUME StreamLen < SeqMod, NEW from \in Nat, NEW r, InPlace(r, from)
    PROVE  InPlace(Drain(r), from) /\ Drain(r).next \notin DOMAIN Drain(r).ooo
<1> DEFINE N == Cardinality(DOMAIN r.ooo)
           Left(t) == Cardinality(DOMAIN t.ooo)
           Good(n) == /\ InPlace(Turns(r)[n], from)
                      /\ \/ Turns(r)[n].next \notin DOMAIN Turns(r)[n].ooo
                         \/ Left(Turns(r)[n]) = N - n
           S == {n \in 0..N : Good(n)}
<1>1. N \in Nat
  BY QueueFinite DEF InPlace
<1>2. Turns(r)[0] = r /\ \A n \in 0..(N - 1) : Turns(r)[n + 1] = DrainStep(Turns(r)[n])
  BY <1>1, TurnsDef
<1>3. 0 \in S
  BY <1>1, <1>2
<1>4. ASSUME NEW n \in 0..(N - 1), n \in S PROVE n + 1 \in S
  <2> DEFINE t == Turns(r)[n]
             u == Turns(r)[n + 1]
  <2>1. u = DrainStep(t)
    BY <1>2
  <2>2. InPlace(t, from) /\ (t.next \notin DOMAIN t.ooo \/ Left(t) = N - n)
    BY <1>4
  <2>3. InPlace(u, from)
    BY <2>1, <2>2, StepInPlace, Zenon
  <2>4. CASE t.next \notin DOMAIN t.ooo
    <3>1. u = t
      BY <2>1, <2>4 DEF DrainStep
    <3> QED
      BY <1>1, <2>3, <2>4, <3>1
  <2>5. CASE t.next \in DOMAIN t.ooo
    <3>1. DOMAIN u.ooo = DOMAIN t.ooo \ {t.next}
      BY <2>1, <2>5 DEF DrainStep
    <3>2. IsFiniteSet(DOMAIN t.ooo) /\ Cardinality(DOMAIN t.ooo) \in Nat
      BY <2>2, QueueFinite DEF InPlace
    <3>3. Left(u) = Left(t) - 1
      <4>1. Cardinality(DOMAIN t.ooo \ {t.next}) = Cardinality(DOMAIN t.ooo) - 1
        BY <2>5, <3>2, FS_RemoveElement
      <4> QED
        BY <3>1, <4>1, Zenon
    <3>4. Left(t) = N - n
      BY <2>2, <2>5
    <3>5. Left(u) = N - (n + 1)
      BY <1>1, <3>2, <3>3, <3>4
    <3> QED
      BY <1>1, <2>3, <3>5
  <2> QED
    BY <2>4, <2>5
<1>5. N \in S
  <2> HIDE DEF S, N
  <2>1. \A n \in 0..N : n \in S
    BY <1>1, <1>3, <1>4, UpTo
  <2> QED
    BY <1>1, <2>1
<1>6. Drain(r) = Turns(r)[N]
  BY DEF Drain
<1>7. CASE Left(Drain(r)) = 0
  <2>1. InPlace(Drain(r), from)
    BY <1>5, <1>6
  <2>2. DOMAIN Drain(r).ooo = {}
    BY <1>7, <2>1, QueueFinite, FS_EmptySet DEF InPlace
  <2> QED
    BY <2>1, <2>2
<1>8. CASE Left(Drain(r)) # 0
  BY <1>1, <1>5, <1>6, <1>8
<1> QED
  BY <1>7, <1>8

-----------------------------------------------------------------------------
(* The stream arrives in order. *)

\* The inductive invariant: the buffer is in place, and the queue is what is
\* left of the accepted segments.
OrderInv ==
    /\ compacted \in Nat /\ arrivals \in 0..MaxSegments
    /\ accepted \subseteq Cuts
    /\ baseSeq = Seq32(InitialSeq + compacted)
    /\ InPlace([cont |-> contiguous, next |-> nextSeq, ooo |-> ooo], compacted)

\* Initially the buffer and the queue are empty.
LEMMA InitOrder == Init => OrderInv
<1> SUFFICES ASSUME Init PROVE OrderInv
  OBVIOUS
<1>1. Seq32(InitialSeq + 0) = InitialSeq /\ InitialSeq + 0 = InitialSeq
  BY StreamConstants DEF Seq32
<1>2. contiguous \in Seq(Nat) /\ Len(contiguous) = 0 /\ DOMAIN ooo = {}
  BY DEF Init
<1>3. OfStream(ooo)
  BY <1>2 DEF OfStream
<1>4. InPlace([cont |-> contiguous, next |-> nextSeq, ooo |-> ooo], 0)
  BY <1>1, <1>2, <1>3 DEF Init, InPlace
<1> QED
  BY <1>1, <1>4, StreamConstants DEF Init, OrderInv

\* A segment put in the queue keeps the queue a part of the stream.
LEMMA QueueOfStream ==
    ASSUME NEW c \in Cuts, OfStream(ooo)
    PROVE  OfStream(Queue(SeqOf(c), Data(c)))
BY DEF OfStream, Queue

\* The segment that comes next in the stream, appended, leaves the buffer in place.
LEMMA InOrderInPlace ==
    ASSUME StreamLen < SeqMod, NEW from \in Nat, NEW r, InPlace(r, from),
           NEW c \in Cuts, SeqOf(c) = r.next
    PROVE  /\ c.off = from + Len(r.cont)
           /\ InPlace([cont |-> r.cont \o Data(c), next |-> Past(r.next, Data(c)),
                       ooo |-> r.ooo], from)
<1> DEFINE q == [s \in {r.next} |-> Data(c)]
           p == [cont |-> r.cont, next |-> r.next, ooo |-> q]
           t == DrainStep(p)
<1>1. InPlace(p, from)
  BY DEF InPlace, OfStream
<1>2. InPlace(t, from)
  BY <1>1, StepInPlace
<1>3. t.cont = r.cont \o Data(c) /\ t.next = Past(r.next, Data(c))
  BY DEF DrainStep, Past
<1>4. c.off = from + Len(r.cont)
  BY SegmentAt DEF InPlace
<1> QED
  BY <1>2, <1>3, <1>4 DEF InPlace

\* An accepted segment keeps the invariant, on every path of accept_segment.
LEMMA AcceptOrder ==
    ASSUME StreamLen < SeqMod, OrderInv, NEW c \in Cuts, AcceptSegment(c)
    PROVE  OrderInv'
<1> DEFINE r == [cont |-> contiguous, next |-> nextSeq, ooo |-> ooo]
<1>1. /\ compacted' = compacted /\ baseSeq' = baseSeq
      /\ accepted' \subseteq Cuts /\ arrivals' \in 0..MaxSegments
  BY StreamConstants DEF AcceptSegment, OrderInv
<1>2. InPlace(r, compacted) /\ compacted \in Nat
  BY DEF OrderInv
<1> SUFFICES InPlace([cont |-> contiguous', next |-> nextSeq', ooo |-> ooo'], compacted)
  BY <1>1 DEF OrderInv
<1>3. CASE UNCHANGED <<contiguous, nextSeq, ooo>>
  BY <1>2, <1>3
<1>4. CASE UNCHANGED <<contiguous, nextSeq>> /\ ooo' = Queue(SeqOf(c), Data(c))
  <2>1. OfStream(ooo')
    BY <1>2, <1>4, QueueOfStream DEF InPlace
  <2> QED
    BY <1>2, <1>4, <2>1 DEF InPlace
<1>5. CASE SeqOf(c) = nextSeq /\ InOrder(Data(c))
  <2> DEFINE s == [cont |-> contiguous \o Data(c), next |-> Past(nextSeq, Data(c)),
                   ooo |-> ooo]
  <2>1. InPlace(s, compacted)
    <3>1. r.cont = contiguous /\ r.next = nextSeq /\ r.ooo = ooo
      OBVIOUS
    <3>2. InPlace([cont |-> r.cont \o Data(c), next |-> Past(r.next, Data(c)),
                   ooo |-> r.ooo], compacted)
      <4> HIDE DEF r
      <4> QED
        BY <1>2, <1>5, <3>1, InOrderInPlace
    <3> QED
      BY <3>1, <3>2, Zenon
  <2>2. InPlace(Drain(s), compacted)
    BY <1>2, <2>1, DrainInPlace
  <2>3. /\ contiguous' = Drain(s).cont /\ nextSeq' = Drain(s).next
        /\ ooo' = Drain(s).ooo
    BY <1>5 DEF InOrder
  <2> QED
    BY <2>2, <2>3 DEF InPlace
<1> QED
  BY <1>3, <1>4, <1>5 DEF AcceptSegment

\* Compaction keeps the last bytes of the buffer and counts the others.
LEMMA CompactKeeps ==
    ASSUME OrderInv, NEW keep \in Keeps, Compact(keep)
    PROVE  /\ contiguous' \in Seq(Nat) /\ Len(contiguous') = keep
           /\ \A i \in 1..keep :
                contiguous'[i] = contiguous[(Len(contiguous) - keep) + i]
           /\ compacted' = compacted + (Len(contiguous) - keep)
<1> DEFINE d == Len(contiguous) - keep
<1>1. /\ contiguous \in Seq(Nat) /\ Len(contiguous) \in Nat
      /\ compacted \in Nat /\ keep \in Nat /\ Len(contiguous) > keep
  BY StreamConstants DEF OrderInv, InPlace, Compact
<1>2. d \in Nat /\ d + keep = Len(contiguous)
  BY <1>1
<1>3. contiguous' = SubSeq(contiguous, d + 1, Len(contiguous))
  BY DEF Compact, Drained
<1>4. /\ contiguous' \in Seq(Nat) /\ Len(contiguous') = keep
      /\ \A i \in 1..keep : contiguous'[i] = contiguous[d + i]
  BY <1>1, <1>2, <1>3
<1>5. compacted' = compacted + d
  BY <1>1 DEF Compact
<1> QED
  BY <1>4, <1>5

\* Dropping a delivered prefix keeps the rest in place.
LEMMA CompactOrder ==
    ASSUME OrderInv, NEW keep \in Keeps, Compact(keep)
    PROVE  OrderInv'
<1> DEFINE d == Len(contiguous) - keep
<1>1. /\ contiguous \in Seq(Nat) /\ Len(contiguous) \in Nat
      /\ \A i \in 1..Len(contiguous) : contiguous[i] = compacted + i
      /\ compacted \in Nat /\ keep \in Nat /\ Len(contiguous) > keep
  BY StreamConstants DEF OrderInv, InPlace, Compact
<1>2. d \in Nat /\ d + keep = Len(contiguous)
  BY <1>1
<1>4. /\ contiguous' \in Seq(Nat) /\ Len(contiguous') = keep
      /\ \A i \in 1..keep : contiguous'[i] = contiguous[d + i]
      /\ compacted' = compacted + d
  BY CompactKeeps
<1>6. baseSeq' = Seq32(InitialSeq + compacted')
  <2>1. baseSeq' = Seq32(Seq32(InitialSeq + compacted) + d)
    <3>1. Seq32(InitialSeq + compacted) \in Nat
      <4>1. InitialSeq + compacted \in Nat
        BY <1>1
      <4> QED
        BY <4>1, SeqType
    <3>2. baseSeq + Len(contiguous) - keep = Seq32(InitialSeq + compacted) + d
      BY <1>1, <3>1 DEF OrderInv
    <3> QED
      BY <3>2 DEF Compact
  <2>2. InitialSeq + compacted \in Nat
    BY <1>1
  <2>3. (InitialSeq + compacted) + d = InitialSeq + compacted'
    BY <1>1, <1>2, <1>4
  <2> QED
    BY <1>2, <2>1, <2>2, <2>3, SeqAdd
<1>7. \A i \in 1..Len(contiguous') : contiguous'[i] = compacted' + i
  BY <1>1, <1>2, <1>4
<1>8. compacted' + Len(contiguous') = compacted + Len(contiguous)
  BY <1>1, <1>2, <1>4
<1>9. InPlace([cont |-> contiguous', next |-> nextSeq', ooo |-> ooo'], compacted')
  BY <1>4, <1>7, <1>8 DEF OrderInv, InPlace, Compact
<1>10. compacted' \in Nat /\ UNCHANGED <<accepted, arrivals>>
  BY <1>1, <1>2, <1>4 DEF Compact
<1> QED
  BY <1>6, <1>9, <1>10 DEF OrderInv

\* The invariant holds of every reachable state.
THEOREM OrderInvariant ==
    ASSUME StreamLen < SeqMod
    PROVE  Spec => []OrderInv
<1>1. ASSUME OrderInv, [Next]_vars PROVE OrderInv'
  <2>1. CASE \E c \in Cuts : AcceptSegment(c)
    BY <1>1, <2>1, AcceptOrder
  <2>2. CASE \E keep \in Keeps : Compact(keep)
    BY <1>1, <2>2, CompactOrder
  <2>3. CASE UNCHANGED vars
    BY <1>1, <2>3 DEF OrderInv, vars
  <2> QED
    BY <1>1, <2>1, <2>2, <2>3 DEF Next
<1> QED
  BY <1>1, InitOrder, PTL DEF Spec

\* The declarations hold of every reachable state.
THEOREM TypeCorrect ==
    ASSUME StreamLen < SeqMod
    PROVE  Spec => []TypeOK
<1>1. OrderInv => TypeOK
  <2> SUFFICES ASSUME OrderInv PROVE TypeOK
    OBVIOUS
  <2>1. /\ contiguous \in Seq(Nat) /\ Len(contiguous) \in Nat
        /\ compacted + Len(contiguous) <= StreamLen
        /\ nextSeq = Seq32(InitialSeq + (compacted + Len(contiguous)))
        /\ OfStream(ooo)
    BY DEF OrderInv, InPlace
  <2>2. /\ InitialSeq + compacted \in Nat
        /\ InitialSeq + (compacted + Len(contiguous)) \in Nat
    BY <2>1 DEF OrderInv
  <2>3. nextSeq \in 0..(SeqMod - 1) /\ baseSeq \in 0..(SeqMod - 1)
    BY <2>1, <2>2, SeqType DEF OrderInv
  <2>4. compacted \in 0..StreamLen /\ Len(contiguous) <= StreamLen
    BY <2>1 DEF OrderInv
  <2> QED
    BY <2>1, <2>3, <2>4, QueueFinite DEF TypeOK, OrderInv
<1> QED
  BY <1>1, OrderInvariant, PTL

\* What the parser is handed is the sender's stream in order, without a gap, a
\* repetition or a byte out of place, across one wrap of the sequence number:
\* the plain comparison of sequence numbers (accept_segment) loses nothing of
\* this as long as the stream is shorter than the sequence space.
THEOREM InOrderDelivery ==
    ASSUME StreamLen < SeqMod
    PROVE  Spec => []StreamInOrder
<1>1. OrderInv => StreamInOrder
  <2> SUFFICES ASSUME OrderInv PROVE StreamInOrder
    OBVIOUS
  <2>1. /\ contiguous \in Seq(Nat)
        /\ \A i \in 1..Len(contiguous) : contiguous[i] = compacted + i
        /\ nextSeq = Seq32(InitialSeq + (compacted + Len(contiguous)))
        /\ baseSeq = Seq32(InitialSeq + compacted)
    BY DEF OrderInv, InPlace
  <2>2. DOMAIN contiguous = 1..Len(contiguous)
    BY <2>1
  <2> QED
    BY <2>1, <2>2 DEF StreamInOrder, Delivered
<1> QED
  BY <1>1, OrderInvariant, PTL

-----------------------------------------------------------------------------
(* Nothing is held back. *)

\* The sender repeats its segments as it cut them.
FixedCuts ==
    \A c \in Cuts, d \in Cuts :
        c = d \/ c.off + c.len <= d.off \/ d.off + d.len <= c.off

\* `end` is where a segment ends, or the start of the stream.
Boundary(end) == end = 0 \/ \E e \in Cuts : end = e.off + e.len

\* Segment c is delivered up to `end`, or waits in the queue q for its turn.
Kept(c, end, q) ==
    \/ c.off + c.len <= end
    \/ /\ c.off >= end
       /\ SeqOf(c) \in DOMAIN q /\ Len(q[SeqOf(c)]) >= c.len

\* No accepted segment has been lost on the way.
Keeping(r, from, acc) ==
    /\ Boundary(from + Len(r.cont))
    /\ \A c \in acc : Kept(c, from + Len(r.cont), r.ooo)

\* A turn delivers the segment it finds and keeps all others: what starts at
\* or after the end of the buffer starts at or after the next one's end.
LEMMA StepKeeping ==
    ASSUME StreamLen < SeqMod, FixedCuts, NEW from \in Nat, NEW r, InPlace(r, from),
           NEW acc \in SUBSET Cuts, Keeping(r, from, acc)
    PROVE  Keeping(DrainStep(r), from, acc)
<1>1. CASE r.next \notin DOMAIN r.ooo
  BY <1>1 DEF DrainStep
<1>2. CASE r.next \in DOMAIN r.ooo
  <2> DEFINE end == from + Len(r.cont)
             t == DrainStep(r)
  <2>1. PICK e \in Cuts :
              /\ SeqOf(e) = r.next /\ r.ooo[r.next] = Data(e)
              /\ e.off = end
              /\ t = [cont |-> r.cont \o Data(e),
                      next |-> Seq32(InitialSeq + (e.off + e.len)),
                      ooo  |-> [s \in DOMAIN r.ooo \ {r.next} |-> r.ooo[s]]]
    BY <1>2, StepAppends, Zenon
  <2>2. /\ e.off \in Nat /\ e.len \in Nat
        /\ Data(e) \in Seq(Nat) /\ Len(Data(e)) = e.len
        /\ r.cont \in Seq(Nat) /\ Len(r.cont) \in Nat
    BY CutFacts DEF InPlace
  <2>3. t.cont = r.cont \o Data(e) /\ e.off = from + Len(r.cont)
    BY <2>1
  <2>4. from + Len(t.cont) = e.off + e.len
    <3>1. Len(r.cont \o Data(e)) = Len(r.cont) + e.len
      BY <2>2, ConcatLength
    <3> HIDE DEF t
    <3> QED
      BY <2>2, <2>3, <3>1
  <2>5. Boundary(from + Len(t.cont))
    BY <2>4 DEF Boundary
  <2>6. ASSUME NEW c \in acc PROVE Kept(c, e.off + e.len, t.ooo)
    <3>1. c \in Cuts /\ c.off \in Nat /\ c.len \in Nat
      BY CutFacts
    <3>2. Kept(c, e.off, r.ooo)
      BY <2>1 DEF Keeping
    <3>3. CASE c.off + c.len <= e.off
      BY <2>2, <3>1, <3>3 DEF Kept
    <3>4. CASE ~(c.off + c.len <= e.off) /\ c.off = e.off
      <4>1. SeqOf(c) = r.next
        BY <2>1, <3>4 DEF SeqOf
      <4>2. e.len >= c.len
        BY <2>1, <2>2, <3>1, <3>2, <3>4, <4>1 DEF Kept
      <4> QED
        BY <2>2, <3>1, <3>4, <4>2 DEF Kept
    <3>5. CASE ~(c.off + c.len <= e.off) /\ c.off # e.off
      <4>1. /\ c.off >= e.off /\ SeqOf(c) \in DOMAIN r.ooo
            /\ Len(r.ooo[SeqOf(c)]) >= c.len
        BY <3>2, <3>5 DEF Kept
      <4>2. e.off + e.len <= c.off
        BY <2>1, <3>1, <3>5, <4>1 DEF FixedCuts
      <4>3. SeqOf(c) # r.next
        <5>1. r.next = Seq32(InitialSeq + e.off) /\ e.off \in 0..StreamLen
          BY <2>1, CutFacts DEF SeqOf
        <5> QED
          BY <3>1, <3>5, <5>1, SegmentAt
      <4>4. SeqOf(c) \in DOMAIN t.ooo /\ t.ooo[SeqOf(c)] = r.ooo[SeqOf(c)]
        BY <2>1, <4>1, <4>3
      <4> QED
        BY <4>1, <4>2, <4>4 DEF Kept
    <3> QED
      BY <3>3, <3>4, <3>5
  <2> QED
    BY <2>4, <2>5, <2>6 DEF Keeping
<1> QED
  BY <1>1, <1>2

\* The loop keeps what a turn keeps.
LEMMA DrainKeeping ==
    ASSUME StreamLen < SeqMod, FixedCuts, NEW from \in Nat, NEW r, InPlace(r, from),
           NEW acc \in SUBSET Cuts, Keeping(r, from, acc)
    PROVE  Keeping(Drain(r), from, acc)
<1> DEFINE N == Cardinality(DOMAIN r.ooo)
           S == {n \in 0..N : /\ InPlace(Turns(r)[n], from)
                              /\ Keeping(Turns(r)[n], from, acc)}
<1>1. N \in Nat
  BY QueueFinite DEF InPlace
<1>2. Turns(r)[0] = r /\ \A n \in 0..(N - 1) : Turns(r)[n + 1] = DrainStep(Turns(r)[n])
  BY <1>1, TurnsDef
<1>3. 0 \in S
  BY <1>1, <1>2
<1>4. ASSUME NEW n \in 0..(N - 1), n \in S PROVE n + 1 \in S
  <2>1. InPlace(Turns(r)[n], from) /\ Keeping(Turns(r)[n], from, acc)
    BY <1>4
  <2>2. /\ InPlace(DrainStep(Turns(r)[n]), from)
        /\ Keeping(DrainStep(Turns(r)[n]), from, acc)
    BY <2>1, StepInPlace, StepKeeping
  <2> QED
    BY <1>1, <1>2, <2>2
<1>5. N \in S
  <2> HIDE DEF S, N
  <2>1. \A n \in 0..N : n \in S
    BY <1>1, <1>3, <1>4, UpTo
  <2> QED
    BY <1>1, <2>1
<1> QED
  BY <1>5 DEF Drain

\* The segment that comes next in the stream is delivered and all others kept.
LEMMA InOrderKeeping ==
    ASSUME StreamLen < SeqMod, FixedCuts, NEW from \in Nat, NEW r, InPlace(r, from),
           r.next \notin DOMAIN r.ooo,
           NEW acc \in SUBSET Cuts, Keeping(r, from, acc),
           NEW c \in Cuts, SeqOf(c) = r.next
    PROVE  Keeping([cont |-> r.cont \o Data(c), next |-> Past(r.next, Data(c)),
                    ooo |-> r.ooo], from, acc \cup {c})
<1> DEFINE q == [s \in DOMAIN r.ooo \cup {r.next} |->
                    IF s = r.next THEN Data(c) ELSE r.ooo[s]]
           p == [cont |-> r.cont, next |-> r.next, ooo |-> q]
           t == DrainStep(p)
<1>1. InPlace(p, from)
  BY DEF InPlace, OfStream
<1>2. c.off = from + Len(r.cont)
  BY InOrderInPlace
<1>3. Keeping(p, from, acc \cup {c})
  <2>1. Kept(c, from + Len(r.cont), q)
    <3>1. c.off \in Nat /\ c.len \in Nat /\ Len(Data(c)) = c.len
      BY CutFacts
    <3> QED
      BY <1>2, <3>1 DEF Kept
  <2>2. ASSUME NEW d \in acc PROVE Kept(d, from + Len(r.cont), q)
    <3>1. Kept(d, from + Len(r.cont), r.ooo)
      BY DEF Keeping
    <3> QED
      BY <3>1 DEF Kept
  <2> QED
    BY <2>1, <2>2 DEF Keeping
<1>4. Keeping(t, from, acc \cup {c})
  <2>1. acc \cup {c} \in SUBSET Cuts
    OBVIOUS
  <2> QED
    BY <1>1, <1>3, <2>1, StepKeeping
<1>5. /\ t.cont = r.cont \o Data(c)
      /\ DOMAIN t.ooo = DOMAIN r.ooo
      /\ \A s \in DOMAIN r.ooo : t.ooo[s] = r.ooo[s]
  BY DEF DrainStep
<1> QED
  BY <1>4, <1>5 DEF Keeping, Kept

\* What the reassembler promises of the segments it has accepted.
HeldInv ==
    /\ nextSeq \notin DOMAIN ooo
    /\ Keeping([cont |-> contiguous, next |-> nextSeq, ooo |-> ooo], compacted, accepted)

\* Without a wrap the sequence number of a position is the position itself.
LEMMA NoWrap ==
    ASSUME InitialSeq + StreamLen < SeqMod, NEW p \in 0..StreamLen
    PROVE  Seq32(InitialSeq + p) = InitialSeq + p
<1>1. InitialSeq + p \in 0..(SeqMod - 1)
  OBVIOUS
<1> QED
  BY <1>1 DEF Seq32

\* A segment ahead of the buffer waits, and no other is displaced by a shorter one.
LEMMA QueueKeeping ==
    ASSUME NEW c \in Cuts, NEW from \in Nat,
           OfStream(ooo), Len(contiguous) \in Nat, c.off >= from + Len(contiguous),
           NEW acc \in SUBSET Cuts,
           Keeping([cont |-> contiguous, next |-> nextSeq, ooo |-> ooo], from, acc)
    PROVE  Keeping([cont |-> contiguous, next |-> nextSeq,
                    ooo |-> Queue(SeqOf(c), Data(c))], from, acc \cup {c})
<1> DEFINE q == Queue(SeqOf(c), Data(c))
           end == from + Len(contiguous)
<1>1. c.len \in Nat /\ c.off \in Nat /\ Len(Data(c)) = c.len
  BY CutFacts
<1>2. \A s \in DOMAIN ooo : Len(ooo[s]) \in Nat
  BY CutFacts DEF OfStream
<1>3. SeqOf(c) \in DOMAIN q /\ Len(q[SeqOf(c)]) >= c.len
  BY <1>1, <1>2 DEF Queue
<1>4. \A s \in DOMAIN ooo : s \in DOMAIN q /\ Len(q[s]) >= Len(ooo[s]) /\ Len(q[s]) \in Nat
  BY <1>1, <1>2 DEF Queue
<1>5. ASSUME NEW d \in acc PROVE Kept(d, end, q)
  <2>1. Kept(d, end, ooo)
    BY DEF Keeping
  <2>2. d.len \in Nat
    BY CutFacts
  <2> QED
    BY <1>2, <1>4, <2>1, <2>2 DEF Kept
<1>6. Kept(c, end, q)
  BY <1>3 DEF Kept
<1> QED
  BY <1>5, <1>6 DEF Keeping

\* A segment that starts before the end of the buffer has been delivered whole.
LEMMA OldIsDelivered ==
    ASSUME FixedCuts, NEW c \in Cuts, NEW end \in Nat, Boundary(end), c.off < end
    PROVE  c.off + c.len <= end
<1>1. c.off \in Nat /\ c.len \in Nat
  BY CutFacts
<1>2. PICK e \in Cuts : end = e.off + e.len
  BY <1>1 DEF Boundary
<1>3. e.off \in Nat /\ e.len \in Nat
  BY CutFacts
<1>4. c = e \/ c.off + c.len <= e.off \/ e.off + e.len <= c.off
  BY DEF FixedCuts
<1> QED
  BY <1>1, <1>2, <1>3, <1>4

\* An accepted segment is delivered or kept, and the queue is drained.
LEMMA AcceptHeld ==
    ASSUME InitialSeq + StreamLen < SeqMod, FixedCuts, OrderInv, HeldInv,
           NEW c \in Cuts, AcceptSegment(c)
    PROVE  HeldInv'
<1> DEFINE r == [cont |-> contiguous, next |-> nextSeq, ooo |-> ooo]
           end == compacted + Len(contiguous)
<1> StreamLen < SeqMod
  OBVIOUS
<1>1. /\ compacted' = compacted /\ accepted \in SUBSET Cuts /\ compacted \in Nat
      /\ InPlace(r, compacted)
  BY DEF AcceptSegment, OrderInv
<1>2. /\ contiguous \in Seq(Nat) /\ Len(contiguous) \in Nat /\ end \in 0..StreamLen
      /\ nextSeq = Seq32(InitialSeq + end) /\ OfStream(ooo)
  BY <1>1 DEF InPlace
<1>3. nextSeq = InitialSeq + end
  BY <1>2, NoWrap
<1>4. /\ c.off \in 0..StreamLen /\ c.len \in Nat /\ SeqOf(c) = InitialSeq + c.off
      /\ Len(Data(c)) = c.len
  <2>1. c.off \in 0..StreamLen
    BY CutFacts
  <2> QED
    BY <2>1, NoWrap, CutFacts DEF SeqOf
<1>5. Keeping(r, compacted, accepted) /\ nextSeq \notin DOMAIN ooo
  BY DEF HeldInv
<1>6. CASE UNCHANGED <<contiguous, nextSeq, ooo, accepted>>
  BY <1>1, <1>5, <1>6 DEF HeldInv
<1>7. CASE /\ SeqOf(c) = nextSeq /\ InOrder(Data(c))
           /\ accepted' = accepted \cup {c}
  <2> DEFINE s == [cont |-> contiguous \o Data(c), next |-> Past(nextSeq, Data(c)),
                   ooo |-> ooo]
  <2>1. InPlace(s, compacted) /\ Keeping(s, compacted, accepted \cup {c})
    <3>1. r.cont = contiguous /\ r.next = nextSeq /\ r.ooo = ooo
      OBVIOUS
    <3>2. /\ InPlace([cont |-> r.cont \o Data(c), next |-> Past(r.next, Data(c)),
                      ooo |-> r.ooo], compacted)
          /\ Keeping([cont |-> r.cont \o Data(c), next |-> Past(r.next, Data(c)),
                      ooo |-> r.ooo], compacted, accepted \cup {c})
      <4> HIDE DEF r
      <4> QED
        BY <1>1, <1>5, <1>7, <3>1, InOrderInPlace, InOrderKeeping
    <3> QED
      BY <3>1, <3>2, Zenon
  <2>2. accepted \cup {c} \in SUBSET Cuts
    BY <1>1
  <2>3. /\ Drain(s).next \notin DOMAIN Drain(s).ooo
        /\ Keeping(Drain(s), compacted, accepted \cup {c})
    <3> HIDE DEF s
    <3> QED
      BY <1>1, <2>1, <2>2, DrainInPlace, DrainKeeping
  <2>4. /\ contiguous' = Drain(s).cont /\ nextSeq' = Drain(s).next
        /\ ooo' = Drain(s).ooo
    BY <1>7 DEF InOrder
  <2> QED
    BY <1>1, <1>7, <2>3, <2>4 DEF HeldInv, Keeping
<1>8. CASE /\ SeqOf(c) > nextSeq /\ ooo' = Queue(SeqOf(c), Data(c))
           /\ accepted' = accepted \cup {c} /\ UNCHANGED <<contiguous, nextSeq>>
  <2>1. c.off >= end
    BY <1>2, <1>3, <1>4, <1>8
  <2>2. Keeping([cont |-> contiguous, next |-> nextSeq,
                 ooo |-> Queue(SeqOf(c), Data(c))], compacted, accepted \cup {c})
    BY <1>1, <1>2, <1>5, <2>1, QueueKeeping
  <2>3. nextSeq \notin DOMAIN Queue(SeqOf(c), Data(c))
    BY <1>2, <1>3, <1>4, <1>5, <1>8 DEF Queue
  <2> QED
    BY <1>1, <1>8, <2>2, <2>3 DEF HeldInv
<1>9. CASE /\ SeqOf(c) < nextSeq
           /\ accepted' = accepted \cup {c} /\ UNCHANGED <<contiguous, nextSeq, ooo>>
  <2>1. c.off + c.len <= end
    <3>1. c.off < end /\ Boundary(end) /\ end \in Nat
      BY <1>2, <1>3, <1>4, <1>5, <1>9 DEF Keeping
    <3> QED
      BY <3>1, OldIsDelivered
  <2>2. Keeping(r, compacted, accepted \cup {c})
    BY <1>5, <2>1 DEF Keeping, Kept
  <2> QED
    BY <1>1, <1>5, <1>9, <2>2 DEF HeldInv
<1> QED
  BY <1>6, <1>7, <1>8, <1>9 DEF AcceptSegment

\* With nothing left at the end of the buffer, what the accepted segments
\* connect to the start of the stream is in it.
LEMMA HeldBackNone ==
    ASSUME OrderInv, HeldInv
    PROVE  NothingHeldBack
<1> DEFINE end == compacted + Len(contiguous)
<1>1. end \in Nat /\ nextSeq = Seq32(InitialSeq + end) /\ accepted \subseteq Cuts
  <2>1. Len(contiguous) \in Nat /\ compacted \in Nat
    BY DEF OrderInv, InPlace
  <2> QED
    BY <2>1 DEF OrderInv, InPlace
<1> SUFFICES ASSUME NEW n \in 1..StreamLen, Covered(n), end < n PROVE FALSE
  BY <1>1 DEF NothingHeldBack, Delivered
<1>2. PICK c \in accepted : c.off < end + 1 /\ end + 1 <= c.off + c.len
  BY <1>1 DEF Covered
<1>3. c \in Cuts /\ c.off \in Nat /\ c.len \in Nat
  BY <1>1, CutFacts
<1>4. Kept(c, end, ooo)
  BY DEF HeldInv, Keeping
<1>5. c.off = end /\ SeqOf(c) \in DOMAIN ooo
  BY <1>1, <1>2, <1>3, <1>4 DEF Kept
<1>6. SeqOf(c) = nextSeq
  BY <1>1, <1>5 DEF SeqOf
<1> QED
  BY <1>5, <1>6 DEF HeldInv

\* Whatever the order in which segments arrive, are repeated and get compacted
\* away, every byte that the accepted ones connect to the start of the stream
\* has been delivered (accept_segment's draining loop), as long as sequence
\* numbers do not wrap, where the plain comparison would take new segments for
\* old ones, and retransmissions repeat the cuts, since a segment that starts
\* in the buffer is dropped whole.
THEOREM NothingIsHeldBack ==
    ASSUME InitialSeq + StreamLen < SeqMod, FixedCuts
    PROVE  Spec => []NothingHeldBack
<1> StreamLen < SeqMod
  OBVIOUS
<1>1. Spec => []OrderInv
  BY OrderInvariant
<1>2. Init => HeldInv
  <2> SUFFICES ASSUME Init PROVE HeldInv
    OBVIOUS
  <2>1. contiguous = <<>> /\ DOMAIN ooo = {} /\ compacted = 0 /\ accepted = {}
    BY DEF Init
  <2>2. compacted + Len(contiguous) = 0
    BY <2>1
  <2> QED
    BY <2>1, <2>2 DEF HeldInv, Keeping, Boundary
<1>3. ASSUME OrderInv, HeldInv, [Next]_vars PROVE HeldInv'
  <2>1. CASE \E c \in Cuts : AcceptSegment(c)
    BY <1>3, <2>1, AcceptHeld
  <2>2. ASSUME NEW keep \in Keeps, Compact(keep) PROVE HeldInv'
    <3>1. /\ contiguous \in Seq(Nat) /\ Len(contiguous) \in Nat
          /\ keep \in Nat /\ Len(contiguous) > keep /\ compacted \in Nat
      BY <1>3, <2>2, StreamConstants DEF OrderInv, InPlace, Compact
    <3>2. /\ Len(contiguous') = keep
          /\ compacted' = compacted + (Len(contiguous) - keep)
      BY <1>3, <2>2, CompactKeeps
    <3>3. compacted' + Len(contiguous') = compacted + Len(contiguous)
      BY <3>1, <3>2
    <3> QED
      BY <1>3, <2>2, <3>3 DEF HeldInv, Keeping, Compact
  <2>3. CASE UNCHANGED vars
    BY <1>3, <2>3 DEF HeldInv, vars
  <2> QED
    BY <1>3, <2>1, <2>2, <2>3 DEF Next
<1>4. OrderInv /\ HeldInv => NothingHeldBack
  BY HeldBackNone
<1> QED
  BY <1>1, <1>2, <1>3, <1>4, PTL DEF Spec
=============================================================================
