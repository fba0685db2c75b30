--------------------------- MODULE StreamResumeProofs ---------------------------
(***************************************************************************)
(* Proofs about BytecodeVm and StreamResume: the types of the interpreter, *)
(* the exactness of a continuation's hint, and resume-equivalence.         *)
(***************************************************************************)
EXTENDS StreamResume, SetInduction, TLAPS

-----------------------------------------------------------------------------
(* Words. *)

MaxBits == AtLeast(ByteBits, WordBits)

\* A byte and a word have a positive number of bits.
LEMMA Widths ==
    /\ ByteBits \in Nat \ {0} /\ WordBits \in Nat \ {0} /\ MaxBits \in Nat
    /\ ByteBits \in 0..MaxBits /\ WordBits \in 0..MaxBits
BY WidthAssumption DEF MaxBits, AtLeast

\* The table of powers is well defined.
LEMMA PowDef ==
    /\ Pow[0] = 1
    /\ \A n \in 0..(MaxBits - 1) : Pow[n + 1] = 2 * Pow[n]
<1> DEFINE Table(f, k) == f = [n \in 0..k |-> IF n = 0 THEN 1 ELSE 2 * f[n - 1]]
           S == {k \in Nat : \E f : Table(f, k)}
<1>1. 0 \in S
  <2> DEFINE f == [n \in 0..0 |-> 1]
  <2>1. f = [n \in 0..0 |-> IF n = 0 THEN 1 ELSE 2 * f[n - 1]]
    OBVIOUS
  <2> QED
    BY <2>1
<1>2. ASSUME NEW k \in Nat, k \in S PROVE k + 1 \in S
  <2>1. PICK f : Table(f, k)
    BY <1>2
  <2> DEFINE g == [n \in 0..(k + 1) |-> IF n = k + 1 THEN 2 * f[k] ELSE f[n]]
  <2>2. \A n \in 0..(k + 1) : g[n] = IF n = 0 THEN 1 ELSE 2 * g[n - 1]
    <3> SUFFICES ASSUME NEW n \in 0..(k + 1)
                 PROVE  g[n] = IF n = 0 THEN 1 ELSE 2 * g[n - 1]
      OBVIOUS
    <3>1. CASE n = k + 1
      BY <3>1
    <3>2. CASE n \in 0..k
      <4>1. f[n] = IF n = 0 THEN 1 ELSE 2 * f[n - 1]
        BY <2>1, <3>2
      <4>2. g[n] = f[n] /\ (n # 0 => g[n - 1] = f[n - 1])
        BY <3>2
      <4> QED
        BY <4>1, <4>2
    <3> QED
      BY <3>1, <3>2
  <2>3. Table(g, k + 1)
    BY <2>2
  <2> HIDE DEF g, Table
  <2>4. \E h : Table(h, k + 1)
    BY <2>3
  <2> QED
    BY <2>4
<1>3. MaxBits \in S
  BY <1>1, <1>2, AllNaturals, Widths
<1>4. Pow = CHOOSE f : Table(f, MaxBits)
  BY DEF Pow, MaxBits
<1>5. Table(Pow, MaxBits)
  BY <1>3, <1>4
<1> QED
  BY <1>5, Widths

\* A power of two is a positive number.
LEMMA PowType == \A n \in 0..MaxBits : Pow[n] \in Nat \ {0}
<1> DEFINE S == {n \in Nat : Pow[n] \in Nat \ {0}}
<1>1. 0 \in S
  BY PowDef
<1>2. \A n \in 0..(MaxBits - 1) : n \in S => n + 1 \in S
  BY PowDef, Widths
<1> HIDE DEF S
<1>3. \A n \in 0..MaxBits : n \in S
  BY <1>1, <1>2, Widths, UpTo
<1> QED
  BY <1>3 DEF S

\* A sum past the modulus by less than it wraps once.
LEMMA OnceRound ==
    ASSUME NEW m \in Nat, NEW n \in Nat, n < m
    PROVE  (m + n) % m = n
OBVIOUS

\* What wraps is a word.
LEMMA WrapType ==
    /\ Modulus \in Nat /\ Modulus >= 2
    /\ \A n \in Int : Wrap(n) \in Words
    /\ \A n \in Words : Wrap(n) = n
    /\ Words = 0..(Modulus - 1) /\ Words \subseteq Nat /\ 0 \in Words /\ 1 \in Words
<1>1. Modulus \in Nat /\ Modulus >= 2
  <2>1. WordBits - 1 \in 0..(MaxBits - 1) /\ WordBits - 1 \in 0..MaxBits
    BY Widths
  <2>2. Pow[WordBits - 1] \in Nat \ {0}
    BY <2>1, PowType
  <2>3. Pow[(WordBits - 1) + 1] = 2 * Pow[WordBits - 1]
    BY <2>1, PowDef
  <2>4. (WordBits - 1) + 1 = WordBits
    BY Widths
  <2> QED
    BY <2>2, <2>3, <2>4 DEF Modulus
<1> QED
  BY <1>1 DEF Wrap, Words

\* A number is a word.
LEMMA NumberType ==
    ASSUME NEW b, Len(b) \in Nat, \A i \in 1..Len(b) : b[i] \in Int, NEW base \in Int
    PROVE  Number(b, base) \in Words
<1> DEFINE N == Len(b)
           Table(f, k) == f = [i \in 0..k |-> IF i = 0 THEN 0 ELSE Wrap(f[i - 1] * base + b[i])]
           S == {k \in Nat : \E f : Table(f, k)}
<1>1. 0 \in S
  <2> DEFINE f == [i \in 0..0 |-> 0]
  <2>1. f = [i \in 0..0 |-> IF i = 0 THEN 0 ELSE Wrap(f[i - 1] * base + b[i])]
    OBVIOUS
  <2> QED
    BY <2>1
<1>2. ASSUME NEW k \in Nat, k \in S PROVE k + 1 \in S
  <2>1. PICK f : Table(f, k)
    BY <1>2
  <2> DEFINE g == [i \in 0..(k + 1) |-> IF i = k + 1 THEN Wrap(f[k] * base + b[k + 1]) ELSE f[i]]
  <2>2. \A i \in 0..(k + 1) : g[i] = IF i = 0 THEN 0 ELSE Wrap(g[i - 1] * base + b[i])
    <3> SUFFICES ASSUME NEW i \in 0..(k + 1)
                 PROVE  g[i] = IF i = 0 THEN 0 ELSE Wrap(g[i - 1] * base + b[i])
      OBVIOUS
    <3>1. CASE i = k + 1
      BY <3>1
    <3>2. CASE i \in 0..k
      <4>1. f[i] = IF i = 0 THEN 0 ELSE Wrap(f[i - 1] * base + b[i])
        BY <2>1, <3>2
      <4>2. g[i] = f[i] /\ (i # 0 => g[i - 1] = f[i - 1])
        BY <3>2
      <4> QED
        BY <4>1, <4>2
    <3> QED
      BY <3>1, <3>2
  <2>3. Table(g, k + 1)
    BY <2>2
  <2> HIDE DEF g, Table
  <2>4. \E h : Table(h, k + 1)
    BY <2>3
  <2> QED
    BY <2>4
<1>3. N \in S
  BY <1>1, <1>2, AllNaturals
<1> DEFINE f == CHOOSE f : Table(f, N)
<1>4. Table(f, N)
  BY <1>3
<1>5. Number(b, base) = f[N]
  BY DEF Number
<1> HIDE DEF f
<1>6. \A i \in 0..N : f[i] \in Words
  <2> DEFINE T == {i \in Nat : f[i] \in Words}
  <2>1. 0 \in T
    BY <1>4, WrapType
  <2>2. ASSUME NEW i \in 0..(N - 1), i \in T PROVE i + 1 \in T
    <3>1. f[i + 1] = Wrap(f[i] * base + b[i + 1])
      BY <1>4
    <3>2. f[i] \in Int /\ b[i + 1] \in Int
      <4>1. f[i] \in Words
        BY <2>2
      <4>2. f[i] \in Int
        BY <4>1, WrapType
      <4>3. i + 1 \in 1..Len(b)
        OBVIOUS
      <4>4. b[i + 1] \in Int
        BY <4>3
      <4> QED
        BY <4>2, <4>4
    <3>3. f[i] * base + b[i + 1] \in Int
      BY <3>2
    <3>4. Wrap(f[i] * base + b[i + 1]) \in Words
      BY <3>3, WrapType
    <3>5. f[i + 1] \in Words
      BY <3>1, <3>4
    <3> QED
      BY <3>5
  <2> HIDE DEF T
  <2>3. \A i \in 0..N : i \in T
    BY <2>1, <2>2, UpTo
  <2> QED
    BY <2>3 DEF T
<1> QED
  BY <1>5, <1>6

\* A bit of a natural number is a digit.
LEMMA BitType ==
    ASSUME NEW n \in Nat, NEW i \in 0..MaxBits
    PROVE  BitOf(n, i) \in {0, 1}
<1>1. Pow[i] \in Nat \ {0}
  BY PowType
<1>2. n \div Pow[i] \in Nat
  BY <1>1
<1> QED
  BY <1>2 DEF BitOf

\* Combining two words bit by bit gives a word.
LEMMA BitwiseType ==
    ASSUME NEW l \in Words, NEW r \in Words
    PROVE  /\ Bitwise(BothBits, l, r) \in Words
           /\ Bitwise(EitherBit, l, r) \in Words
           /\ Bitwise(OneBit, l, r) \in Words
<1>1. \A i \in 1..WordBits : /\ BitOf(l, WordBits - i) \in {0, 1}
                             /\ BitOf(r, WordBits - i) \in {0, 1}
  <2> SUFFICES ASSUME NEW i \in 1..WordBits
               PROVE  /\ BitOf(l, WordBits - i) \in {0, 1}
                      /\ BitOf(r, WordBits - i) \in {0, 1}
    OBVIOUS
  <2>1. WordBits - i \in 0..MaxBits
    BY Widths
  <2>2. l \in Nat /\ r \in Nat
    BY WrapType
  <2> QED
    BY <2>1, <2>2, BitType
<1>2. ASSUME NEW b, Len(b) = WordBits, \A i \in 1..WordBits : b[i] \in Int
      PROVE  Number(b, 2) \in Words
  BY <1>2, Widths, NumberType
<1>3. ASSUME NEW x \in {0, 1}, NEW y \in {0, 1}
      PROVE  BothBits(x, y) \in Int /\ EitherBit(x, y) \in Int /\ OneBit(x, y) \in Int
  BY DEF BothBits, EitherBit, OneBit, AtLeast
<1>4. Bitwise(BothBits, l, r) \in Words
  <2> DEFINE b == [i \in 1..WordBits |-> BothBits(BitOf(l, WordBits - i), BitOf(r, WordBits - i))]
  <2>1. \A i \in 1..WordBits : b[i] \in Int
    BY <1>1, <1>3
  <2>2. Len(b) = WordBits
    BY Widths
  <2>3. Bitwise(BothBits, l, r) = Number(b, 2)
    BY DEF Bitwise
  <2> HIDE DEF b
  <2> QED
    BY <1>2, <2>1, <2>2, <2>3
<1>5. Bitwise(EitherBit, l, r) \in Words
  <2> DEFINE b == [i \in 1..WordBits |-> EitherBit(BitOf(l, WordBits - i), BitOf(r, WordBits - i))]
  <2>1. \A i \in 1..WordBits : b[i] \in Int
    BY <1>1, <1>3
  <2>2. Len(b) = WordBits
    BY Widths
  <2>3. Bitwise(EitherBit, l, r) = Number(b, 2)
    BY DEF Bitwise
  <2> HIDE DEF b
  <2> QED
    BY <1>2, <2>1, <2>2, <2>3
<1>6. Bitwise(OneBit, l, r) \in Words
  <2> DEFINE b == [i \in 1..WordBits |-> OneBit(BitOf(l, WordBits - i), BitOf(r, WordBits - i))]
  <2>1. \A i \in 1..WordBits : b[i] \in Int
    BY <1>1, <1>3
  <2>2. Len(b) = WordBits
    BY Widths
  <2>3. Bitwise(OneBit, l, r) = Number(b, 2)
    BY DEF Bitwise
  <2> HIDE DEF b
  <2> QED
    BY <1>2, <2>1, <2>2, <2>3
<1> QED
  BY <1>4, <1>5, <1>6

\* Every operation on words gives a word (BytecodeBinOp, BytecodeUnaryOp).
LEMMA OperationType ==
    ASSUME NEW l \in Words, NEW r \in Words
    PROVE  /\ \A op \in BinOps : BinVal(op, l, r) \in Words
           /\ \A op \in UnOps : UnVal(op, l) \in Words
<1>1. /\ l \in 0..(Modulus - 1) /\ r \in 0..(Modulus - 1)
      /\ Modulus \in Nat /\ Modulus >= 2 /\ Words = 0..(Modulus - 1)
  BY WrapType
<1>2. Wrap(l + r) \in Words /\ Wrap(l * r) \in Words /\ Wrap(Modulus - l) \in Words
  <2>1. l + r \in Int /\ l * r \in Int /\ Modulus - l \in Int
    BY <1>1
  <2> QED
    BY <2>1, WrapType
<1>3. Minus(l, r) \in Words
  BY <1>1 DEF Minus, AtLeast
<1>4. r # 0 => l \div r \in Words /\ l % r \in Words
  <2> SUFFICES ASSUME r # 0 PROVE l \div r \in 0..l /\ l % r \in 0..(r - 1)
    BY <1>1
  <2>1. l \div r \in 0..l
    BY <1>1
  <2>2. l % r \in 0..(r - 1)
    BY <1>1
  <2> QED
    BY <2>1, <2>2
<1>5. \A b : Flag(b) \in Words
  BY WrapType DEF Flag
<1>6. Wrap(l * Pow[r % WordBits]) \in Words /\ l \div Pow[r % WordBits] \in Words
  <2>1. r % WordBits \in 0..MaxBits
    <3>1. r % WordBits \in 0..(WordBits - 1)
      BY <1>1, Widths
    <3> QED
      BY <3>1, Widths
  <2>2. PICK p \in Nat \ {0} : p = Pow[r % WordBits]
    BY <2>1, PowType
  <2>3. l * p \in Int
    BY <1>1, <2>2
  <2>4. Wrap(l * p) \in Words
    BY <2>3, WrapType
  <2>5. l \div p \in 0..l
    BY <1>1, <2>2
  <2> QED
    BY <1>1, <2>2, <2>4, <2>5
<1>7. \A op \in BinOps : BinVal(op, l, r) \in Words
  <2> SUFFICES ASSUME NEW op \in BinOps PROVE BinVal(op, l, r) \in Words
    OBVIOUS
  <2>1. CASE op \in {"Add", "Sub", "Mul"}
    BY <1>2, <1>3, <2>1 DEF BinVal
  <2>2. CASE op \in {"Div", "Mod"}
    BY <1>4, <2>2, WrapType DEF BinVal
  <2>3. CASE op \in {"Eq", "Ne", "Gt", "Lt", "Ge", "Le", "And", "Or"}
    BY <1>5, <2>3 DEF BinVal
  <2>4. CASE op \in {"BitAnd", "BitOr", "BitXor"}
    BY <2>4, BitwiseType DEF BinVal
  <2>5. CASE op \in {"Shl", "Shr"}
    BY <1>6, <2>5 DEF BinVal
  <2> QED
    BY <2>1, <2>2, <2>3, <2>4, <2>5 DEF BinOps
<1>8. \A op \in UnOps : UnVal(op, l) \in Words
  BY <1>1, <1>2, <1>5 DEF UnOps, UnVal
<1> QED
  BY <1>7, <1>8

-----------------------------------------------------------------------------
(* The inductive invariant. *)

SlotsOK ==
    /\ slots \in [Slots -> Words] /\ touched \subseteq Slots
    /\ \A s \in Slots \ touched : slots[s] = 0

\* What has arrived and what is to come fit the address space together.
InputOK ==
    /\ job \in Jobs /\ flow \in Seq(Bytes) /\ input \in Seq(Bytes)
    /\ Len(input) + Len(flow) < Modulus
    /\ ~job.stream => flow = <<>>

\* The cursor of a stream never leaves what has arrived; a datagram's may.
CursorOK ==
    /\ pos \in Words /\ bit \in 0..(ByteBits - 1)
    /\ bit # 0 => pos < Len(input)
    /\ job.stream => pos <= Len(input)

OutputOK == emitted \in Seq(Labels \X Words) /\ rests \in Seq(Labels \X Words)

\* Only the run that exceeds a limit ends above it.
ControlOK ==
    /\ ip \in 0..Len(Program) /\ executed \in 0..(MaxInstructions + 1)
    /\ loops \in 0..(MaxLoopIterations + 1)
    /\ status \in {"run", "need", "done", "constraint", "limit", "panic"}
    /\ status \in {"run", "need"} => loops <= MaxLoopIterations
    /\ status = "need" => ip < Len(Program) /\ job.stream
    /\ need \in Nat /\ (need # 0 => status = "need")

VmInv == SlotsOK /\ InputOK /\ CursorOK /\ OutputOK /\ ControlOK

\* The invariant holds initially: a flow fits the address space (JobAssumption).
LEMMA InitVm == Init => VmInv
<1> SUFFICES ASSUME Init PROVE VmInv
  OBVIOUS
<1>1. SlotsOK
  BY WrapType DEF Init, SlotsOK
<1>2. InputOK
  <2>1. PICK d \in Flows[job.prog] : \E k \in 0..Len(d) :
           /\ ~job.stream => k = Len(d)
           /\ input = SubSeq(d, 1, k) /\ flow = SubSeq(d, k + 1, Len(d))
    BY DEF Init
  <2>2. PICK k \in 0..Len(d) :
           /\ ~job.stream => k = Len(d)
           /\ input = SubSeq(d, 1, k) /\ flow = SubSeq(d, k + 1, Len(d))
    BY <2>1
  <2>3. d \in Seq(Bytes) /\ Len(d) < Modulus /\ job \in Jobs
    BY <2>1, JobAssumption DEF Init
  <2>4. input \in Seq(Bytes) /\ Len(input) = k
    BY <2>2, <2>3
  <2>5. flow \in Seq(Bytes) /\ Len(flow) = Len(d) - k
    BY <2>2, <2>3
  <2>6. k = Len(d) => flow = <<>>
    BY <2>3, <2>5
  <2>7. Len(input) + Len(flow) < Modulus
    BY <2>3, <2>4, <2>5
  <2> QED
    BY <2>2, <2>3, <2>4, <2>5, <2>6, <2>7 DEF InputOK
<1>3. CursorOK
  BY <1>2, WrapType, Widths DEF Init, CursorOK, InputOK
<1>4. OutputOK
  BY DEF Init, OutputOK
<1>5. ControlOK
  <2>1. Len(Program) \in Nat
    BY JobAssumption DEF Init, Program
  <2> QED
    BY <2>1, LimitsAssumption DEF Init, ControlOK
<1> QED
  BY <1>1, <1>2, <1>3, <1>4, <1>5 DEF VmInv

-----------------------------------------------------------------------------
(* What one instruction finds. *)

\* The instruction at hand is one the compiler makes.
LEMMA InstrShape ==
    ASSUME InputOK, ControlOK, ip < Len(Program)
    PROVE  /\ WellFormed(Instr, Program) /\ Len(Program) \in Nat
           /\ ip \in Nat /\ ip + 1 \in 0..Len(Program)
<1>1. /\ Len(Program) \in Nat /\ DOMAIN Program = 1..Len(Program)
      /\ \A i \in DOMAIN Program : WellFormed(Program[i], Program)
  BY JobAssumption DEF InputOK, Program
<1>2. ip \in Nat /\ ip + 1 \in 1..Len(Program)
  BY <1>1 DEF ControlOK
<1> QED
  BY <1>1, <1>2 DEF Instr

\* The cursor in bytes and in bits.
LEMMA CursorFacts ==
    ASSUME InputOK, CursorOK
    PROVE  /\ pos \in Nat /\ bit \in Nat /\ bit < ByteBits /\ Len(input) \in Nat
           /\ Len(input) < Modulus
           /\ Aligned \in Words /\ Aligned \in Nat /\ pos <= Aligned
           /\ pos <= Len(input) => Aligned <= Len(input)
           /\ pos > Len(input) => Aligned = pos
           /\ BitsRemaining \in Nat
           /\ pos <= Len(input) => BitsRemaining = Len(input) * ByteBits - (pos * ByteBits + bit)
           /\ pos >= Len(input) => BitsRemaining = 0
<1>1. PICK B \in Nat \ {0} : B = ByteBits
  BY Widths
<1>2. PICK L \in Nat : L = Len(input)
  BY DEF InputOK
<1>3. /\ pos \in Nat /\ bit \in Nat /\ bit < B /\ (bit # 0 => pos < L) /\ pos <= Modulus - 1
      /\ L < Modulus /\ Modulus \in Nat /\ Words = 0..(Modulus - 1)
  <2>1. Len(flow) \in Nat
    BY DEF InputOK
  <2> QED
    BY <1>1, <1>2, <2>1, WrapType DEF CursorOK, InputOK
<1>4. Aligned = IF bit # 0 THEN pos + 1 ELSE pos
  BY DEF Aligned
<1>5. BitsRemaining = IF pos >= L THEN 0 ELSE (L - pos) * B - bit
  BY <1>1, <1>2 DEF BitsRemaining
<1>6. pos < L => (L - pos) * B - bit \in Nat
  BY <1>1, <1>3
<1>7. (L - pos) * B = L * B - pos * B
  BY <1>1, <1>3
<1>8. L * B \in Nat /\ pos * B \in Nat
  BY <1>1, <1>3
<1>9. pos = L => 0 = L * B - (pos * B + bit)
  BY <1>3, <1>8
<1>10. pos < L => BitsRemaining = L * B - (pos * B + bit)
  BY <1>3, <1>5, <1>7, <1>8
<1>11. BitsRemaining \in Nat
  BY <1>3, <1>5, <1>6
<1>12. pos <= L => BitsRemaining = L * B - (pos * B + bit)
  BY <1>3, <1>5, <1>9, <1>10
<1>13. /\ Aligned \in Words /\ Aligned \in Nat /\ pos <= Aligned
       /\ pos <= L => Aligned <= L
       /\ pos > L => Aligned = pos
  BY <1>3, <1>4
<1>14. pos >= L => BitsRemaining = 0
  BY <1>5
<1> QED
  BY <1>1, <1>2, <1>3, <1>11, <1>12, <1>13, <1>14

\* The length of a slice is a word; a slice of unknown length stays in the input.
LEMMA SliceFacts ==
    ASSUME InputOK, CursorOK, SlotsOK
    PROVE  /\ SliceLen \in Words
           /\ Instr.len = OpenLen /\ pos <= Len(input) => Aligned + SliceLen <= Len(input)
<1>1. /\ Aligned \in Nat /\ Len(input) \in Nat /\ Len(input) < Modulus /\ Aligned < Modulus
      /\ pos \in Nat /\ (pos <= Len(input) => Aligned <= Len(input))
  BY CursorFacts, WrapType
<1>2. Modulus \in Nat /\ SliceCap \in Nat /\ Words = 0..(Modulus - 1)
  BY WrapType, LimitsAssumption
<1> DEFINE left == Wrap(Modulus + Len(input) - Aligned)
<1>3. left \in Words
  BY <1>1, <1>2, WrapType
<1>4. pos <= Len(input) => left <= Len(input) - Aligned
  <2>1. SUFFICES ASSUME pos <= Len(input) PROVE left <= Len(input) - Aligned
    OBVIOUS
  <2> DEFINE d == Len(input) - Aligned
  <2>2. d \in Nat /\ d < Modulus
    BY <1>1, <1>2, <2>1
  <2>3. Modulus + Len(input) - Aligned = Modulus + d
    BY <1>1, <1>2, <2>2
  <2>4. (Modulus + d) % Modulus = d
    BY <1>2, <2>2, OnceRound
  <2> QED
    BY <1>1, <1>2, <2>2, <2>3, <2>4 DEF Wrap
<1> HIDE DEF left
<1>5. Instr.len = OpenLen => SliceLen = AtMost(left, SliceCap)
  BY DEF SliceLen, left
<1>6. AtMost(left, SliceCap) \in Words /\ AtMost(left, SliceCap) <= left
  BY <1>2, <1>3 DEF AtMost
<1>7. Instr.len # OpenLen => SliceLen \in Words
  BY WrapType DEF SliceLen, SlotsOK
<1>8. Instr.len = OpenLen /\ pos <= Len(input) => Aligned + SliceLen <= Len(input)
  BY <1>1, <1>2, <1>3, <1>4, <1>5, <1>6
<1> QED
  BY <1>5, <1>6, <1>7, <1>8

\* What holds when an instruction is executed, and what paying for it changes.
LEMMA Executed ==
    ASSUME VmInv, NEW op, Executes(op)
    PROVE  /\ Instr.op = op /\ WellFormed(Instr, Program) /\ status = "run"
           /\ ip \in Nat /\ ip + 1 \in 0..Len(Program)
           /\ ~(job.stream /\ Short)
           /\ InputOK' /\ Program' = Program /\ input' = input /\ job' = job
           /\ executed' = executed + 1 /\ executed' \in 0..(MaxInstructions + 1)
           /\ loops \in 0..MaxLoopIterations
           /\ need = 0 /\ need' = 0
<1>1. /\ status = "run" /\ ip < Len(Program) /\ executed <= MaxInstructions /\ Instr.op = op
      /\ ~(job.stream /\ Short) /\ executed' = executed + 1
      /\ job' = job /\ flow' = flow /\ input' = input /\ need' = need
  BY DEF Executes, InBudget, Charge
<1>2. /\ WellFormed(Instr, Program) /\ ip \in Nat /\ ip + 1 \in 0..Len(Program)
  BY <1>1, InstrShape DEF VmInv
<1>3. InputOK' /\ Program' = Program
  BY <1>1 DEF VmInv, InputOK, Program
<1>4. executed' \in 0..(MaxInstructions + 1) /\ loops \in 0..MaxLoopIterations /\ need = 0
  BY <1>1, LimitsAssumption DEF VmInv, ControlOK
<1> QED
  BY <1>1, <1>2, <1>3, <1>4

\* An instruction that moves on to the next keeps control in order.
LEMMA ContinueOK ==
    ASSUME VmInv, NEW op, Executes(op), Continue, loops' = loops
    PROVE  ControlOK'
<1>1. /\ ip' = ip + 1 /\ status' = "run"
      /\ ip + 1 \in 0..Len(Program) /\ Program' = Program
      /\ executed' \in 0..(MaxInstructions + 1) /\ loops \in 0..MaxLoopIterations /\ need' = 0
  BY Executed DEF Continue
<1>2. loops' \in 0..MaxLoopIterations /\ loops' \in 0..(MaxLoopIterations + 1)
  BY <1>1, LimitsAssumption
<1>3. ip' \in 0..Len(Program')
  BY <1>1
<1> QED
  BY <1>1, <1>2, <1>3 DEF ControlOK

\* Writing a word to a slot that need not exist keeps the slots in order.
LEMMA WriteOK ==
    ASSUME SlotsOK, NEW s, NEW v \in Words, WriteSlot(s, v)
    PROVE  SlotsOK'
<1>1. slots' \in [Slots -> Words]
  BY DEF SlotsOK, WriteSlot
<1>2. touched' \subseteq Slots
  BY DEF SlotsOK, WriteSlot
<1>3. ASSUME NEW t \in Slots \ touched' PROVE slots'[t] = 0
  <2>1. t \notin touched /\ t # s
    BY <1>3 DEF WriteSlot
  <2>2. slots'[t] = slots[t]
    BY <1>3, <2>1 DEF SlotsOK, WriteSlot
  <2> QED
    BY <1>3, <2>1, <2>2 DEF SlotsOK
<1> QED
  BY <1>1, <1>2, <1>3 DEF SlotsOK

\* A cursor at a byte boundary within the input is in order.
LEMMA ByteCursorOK ==
    ASSUME VmInv, NEW op, Executes(op), NEW p \in Words, Cursor(p, 0),
           job.stream => p <= Len(input)
    PROVE  CursorOK'
<1>1. pos' = p /\ bit' = 0 /\ input' = input /\ job' = job
  BY Executed DEF Cursor
<1> QED
  BY <1>1, Widths DEF CursorOK

-----------------------------------------------------------------------------
(* The readings. *)

\* Bytes in sequence make a word, in either order.
LEMMA EndianType ==
    ASSUME NEW b \in Seq(Bytes)
    PROVE  BigEndian(b) \in Words /\ LittleEndian(b) \in Words
<1>1. Pow[ByteBits] \in Nat \ {0}
  BY PowType, Widths
<1>2. Bytes \subseteq Int
  BY <1>1 DEF Bytes
<1>3. \A i \in 1..Len(b) : b[i] \in Int
  <2>1. \A i \in 1..Len(b) : b[i] \in Bytes
    OBVIOUS
  <2> QED
    BY <1>2, <2>1
<1>4. Len(b) \in Nat
  OBVIOUS
<1>5. BigEndian(b) \in Words
  BY <1>1, <1>3, <1>4, NumberType DEF BigEndian
<1> DEFINE r == [i \in 1..Len(b) |-> b[Len(b) + 1 - i]]
<1>6. Len(r) = Len(b)
  BY <1>4
<1>7. \A i \in 1..Len(b) : r[i] \in Int
  <2> SUFFICES ASSUME NEW i \in 1..Len(b) PROVE r[i] \in Int
    OBVIOUS
  <2>1. Len(b) + 1 - i \in 1..Len(b)
    BY <1>4
  <2>2. r[i] = b[Len(b) + 1 - i]
    OBVIOUS
  <2> QED
    BY <1>3, <2>1, <2>2
<1>8. LittleEndian(b) = Number(r, Pow[ByteBits])
  BY DEF LittleEndian, BigEndian
<1> HIDE DEF r
<1>9. LittleEndian(b) \in Words
  BY <1>1, <1>4, <1>6, <1>7, <1>8, NumberType
<1> QED
  BY <1>5, <1>9

\* A fixed-width read (ReadU8 .. ReadU32) leaves the machine in order.
LEMMA ReadIntKeeps == VmInv /\ ReadInt => VmInv'
<1> SUFFICES ASSUME VmInv, ReadInt PROVE VmInv'
  OBVIOUS
<1> DEFINE p     == Aligned
           fits  == p + Instr.n <= Len(input)
           bytes == SubSeq(input, p + 1, p + Instr.n)
<1>1. /\ Executes("read") /\ Continue /\ loops' = loops /\ emitted' = emitted /\ rests' = rests
      /\ WriteSlot(Instr.slot, IF ~fits THEN 0
                               ELSE IF Instr.le THEN LittleEndian(bytes) ELSE BigEndian(bytes))
      /\ Cursor(IF fits THEN p + Instr.n ELSE p, 0)
  BY DEF ReadInt
<1>2. /\ Instr.op = "read" /\ Instr.n \in Nat \ {0} /\ InputOK' /\ ~(job.stream /\ Short)
  BY <1>1, Executed DEF WellFormed
<1>3. /\ p \in Words /\ p \in Nat /\ Len(input) \in Nat /\ Len(input) < Modulus
      /\ input \in Seq(Bytes)
  BY CursorFacts DEF VmInv, InputOK
<1>4. job.stream => fits
  BY <1>2, <1>3 DEF Short
<1>5. fits => bytes \in Seq(Bytes)
  BY <1>2, <1>3
<1>6. fits => p + Instr.n \in Words
  BY <1>2, <1>3, WrapType
<1> HIDE DEF p, fits, bytes
<1>7. SlotsOK'
  <2>1. fits => LittleEndian(bytes) \in Words /\ BigEndian(bytes) \in Words
    BY <1>5, EndianType
  <2>2. (IF ~fits THEN 0 ELSE IF Instr.le THEN LittleEndian(bytes) ELSE BigEndian(bytes)) \in Words
    BY <2>1, WrapType
  <2> QED
    BY <1>1, <2>2, WriteOK DEF VmInv
<1>8. CursorOK'
  <2>1. (IF fits THEN p + Instr.n ELSE p) \in Words
    BY <1>3, <1>6
  <2>2. job.stream => (IF fits THEN p + Instr.n ELSE p) <= Len(input)
    BY <1>4 DEF fits
  <2> QED
    BY <1>1, <2>1, <2>2, ByteCursorOK
<1>9. OutputOK' /\ ControlOK'
  BY <1>1, ContinueOK DEF VmInv, OutputOK
<1> QED
  BY <1>2, <1>7, <1>8, <1>9 DEF VmInv

\* A piece of a sequence has its elements.
LEMMA PieceType ==
    ASSUME NEW S, NEW b \in Seq(S), NEW m \in Nat \ {0}, NEW n \in Int, n <= Len(b)
    PROVE  SubSeq(b, m, n) \in Seq(S)
OBVIOUS

\* The bytes that make a slice's value are bytes.
LEMMA SliceBytesType ==
    ASSUME SlotsOK, InputOK, CursorOK
    PROVE  SliceBytes \in Seq(Bytes)
<1> DEFINE end == Aligned + AtMost(SliceLen, WordBits \div ByteBits)
           one == SubSeq(input, Aligned + 1, AtMost(end, Len(input)))
           two == SubSeq(input, 1, AtMost(end - Modulus, Len(input)))
<1>1. /\ Aligned \in Nat /\ SliceLen \in Nat /\ Len(input) \in Nat /\ Modulus \in Nat
      /\ input \in Seq(Bytes)
  BY CursorFacts, SliceFacts, WrapType DEF InputOK
<1>2. WordBits \div ByteBits \in Nat
  BY Widths
<1>3. end \in Int
  BY <1>1, <1>2 DEF AtMost
<1> HIDE DEF end
<1>4. /\ AtMost(end, Len(input)) \in Int /\ AtMost(end, Len(input)) <= Len(input)
      /\ AtMost(end - Modulus, Len(input)) \in Int
      /\ AtMost(end - Modulus, Len(input)) <= Len(input)
  BY <1>1, <1>3 DEF AtMost
<1>5. one \in Seq(Bytes)
  <2>1. Aligned + 1 \in Nat \ {0}
    BY <1>1
  <2> QED
    BY <1>1, <1>4, <2>1, PieceType
<1>6. two \in Seq(Bytes)
  BY <1>1, <1>4, PieceType
<1>7. SliceBytes = one \o two
  BY DEF SliceBytes, end
<1> HIDE DEF one, two
<1> QED
  BY <1>5, <1>6, <1>7

\* A slice read (ReadSlice) leaves the machine in order, its end wrapped or not.
LEMMA ReadSliceKeeps == VmInv /\ ReadSlice => VmInv'
<1> SUFFICES ASSUME VmInv, ReadSlice PROVE VmInv'
  OBVIOUS
<1>1. /\ Executes("slice") /\ Continue /\ loops' = loops /\ emitted' = emitted /\ rests' = rests
      /\ WriteSlot(Instr.slot, BigEndian(SliceBytes))
      /\ Cursor(Wrap(Aligned + SliceLen), 0)
  BY DEF ReadSlice
<1>2. /\ Instr.op = "slice" /\ InputOK' /\ ~(job.stream /\ Short)
  BY <1>1, Executed
<1>3. SlotsOK'
  <2>1. BigEndian(SliceBytes) \in Words
    BY SliceBytesType, EndianType DEF VmInv
  <2> QED
    BY <1>1, <2>1, WriteOK DEF VmInv
<1>4. /\ Aligned \in Nat /\ SliceLen \in Nat /\ Len(input) \in Nat /\ Len(input) < Modulus
      /\ pos \in Nat /\ Modulus \in Nat /\ Words = 0..(Modulus - 1)
  BY CursorFacts, SliceFacts, WrapType DEF VmInv
<1>5. Wrap(Aligned + SliceLen) \in Words
  BY <1>4, WrapType
<1>6. job.stream => Wrap(Aligned + SliceLen) <= Len(input)
  <2> SUFFICES ASSUME job.stream PROVE Wrap(Aligned + SliceLen) <= Len(input)
    OBVIOUS
  <2>1. CASE Instr.len # OpenLen
    <3>1. ~(Wrap(Aligned + SliceLen) > Len(input))
      BY <1>2, <2>1 DEF Short
    <3>2. Wrap(Aligned + SliceLen) \in Nat
      BY <1>4, <1>5
    <3> QED
      BY <1>4, <3>1, <3>2
  <2>2. CASE Instr.len = OpenLen
    <3>1. Aligned + SliceLen <= Len(input)
      BY <2>2, SliceFacts DEF VmInv, CursorOK
    <3>2. Wrap(Aligned + SliceLen) = Aligned + SliceLen
      BY <1>4, <3>1, WrapType
    <3> QED
      BY <3>1, <3>2
  <2> QED
    BY <2>1, <2>2
<1>7. CursorOK'
  BY <1>1, <1>5, <1>6, ByteCursorOK
<1>8. OutputOK' /\ ControlOK'
  BY <1>1, ContinueOK DEF VmInv, OutputOK
<1> QED
  BY <1>2, <1>3, <1>7, <1>8 DEF VmInv

\* A cursor in bits: the byte it is in, and how far.
LEMMA BitSplit ==
    ASSUME NEW q \in Nat, NEW base \in Nat \ {0}
    PROVE  /\ q \div base \in Nat /\ q % base \in Nat /\ q % base < base
           /\ q = (q \div base) * base + (q % base)
OBVIOUS

\* A cursor in bits that is not past the end of the input is not past it in bytes.
LEMMA BitsWithin ==
    ASSUME NEW p \in Nat, NEW b \in Nat, NEW n \in Nat, NEW base \in Nat \ {0},
           p * base + b <= n * base
    PROVE  p <= n /\ (b # 0 => p < n)
<1>1. p > n => p * base >= n * base + base
  <2> SUFFICES ASSUME p > n PROVE p * base >= n * base + base
    OBVIOUS
  <2>1. PICK d \in Nat : p = n + 1 + d
    <3>1. p - n - 1 \in Nat /\ p = n + 1 + (p - n - 1)
      OBVIOUS
    <3> QED
      BY <3>1
  <2>2. p * base = n * base + base + d * base /\ d * base \in Nat
    BY <2>1
  <2> QED
    BY <2>2
<1>2. p * base \in Nat /\ n * base \in Nat
  OBVIOUS
<1>3. p <= n
  BY <1>1, <1>2
<1>4. p = n => b = 0
  BY <1>2
<1> QED
  BY <1>3, <1>4

\* A cursor in bits is in one byte only.
LEMMA BitUnique ==
    ASSUME NEW p \in Nat, NEW b \in Nat, NEW d \in Nat, NEW r \in Nat,
           NEW base \in Nat \ {0}, b < base, r < base, p * base + b = d * base + r
    PROVE  p = d /\ b = r
<1>1. (p - d) * base = r - b
  OBVIOUS
<1>2. p - d >= 1 => (p - d) * base >= base
  OBVIOUS
<1>3. p - d <= -1 => (p - d) * base <= -base
  OBVIOUS
<1>4. p = d
  BY <1>1, <1>2, <1>3
<1> QED
  BY <1>1, <1>4

\* A bit before the end of n bytes is in one of them.
LEMMA BitPlace ==
    ASSUME NEW q \in Nat, NEW n \in Nat, NEW base \in Nat \ {0}, q < n * base
    PROVE  /\ q \div base \in Nat /\ q \div base < n
           /\ q % base \in Nat /\ q % base < base
<1>1. PICK d \in Nat, r \in Nat : d = q \div base /\ r = q % base
  BY BitSplit
<1>2. r < base /\ q = d * base + r
  BY <1>1, BitSplit
<1>3. d * base \in Nat /\ n * base \in Nat
  OBVIOUS
<1>4. d * base + r <= n * base
  BY <1>2
<1>5. d <= n
  BY <1>4, BitsWithin
<1>6. d # n
  BY <1>2, <1>3
<1> QED
  BY <1>1, <1>2, <1>5, <1>6

\* A bit field read (ReadBits) leaves the bit cursor within a byte of the input.
LEMMA ReadBitsKeeps == VmInv /\ ReadBits => VmInv'
<1> SUFFICES ASSUME VmInv, ReadBits PROVE VmInv'
  OBVIOUS
<1> DEFINE q == pos * ByteBits + bit
           n == AtMost(Instr.n, BitsRemaining)
           digits == [i \in 1..n |-> InputBit(q + i - 1)]
<1>1. /\ Executes("bits") /\ Continue /\ loops' = loops /\ emitted' = emitted /\ rests' = rests
      /\ WriteSlot(Instr.slot, Number(digits, 2))
      /\ BitCursor(q + n)
  BY DEF ReadBits
<1>2. /\ Instr.op = "bits" /\ Instr.n \in Nat /\ InputOK' /\ input' = input /\ job' = job
  BY <1>1, Executed DEF WellFormed
<1>3. PICK B \in Nat \ {0} : B = ByteBits
  BY Widths
<1>4. PICK L \in Nat : L = Len(input)
  BY CursorFacts DEF VmInv
<1>5. /\ pos \in Nat /\ bit \in Nat /\ bit < B /\ L < Modulus /\ Modulus \in Nat
      /\ BitsRemaining \in Nat /\ Words = 0..(Modulus - 1) /\ pos \in Words
      /\ pos <= L => BitsRemaining = L * B - (pos * B + bit)
      /\ pos >= L => BitsRemaining = 0
      /\ bit # 0 => pos < L
      /\ job.stream => pos <= L
  BY <1>3, <1>4, CursorFacts, WrapType DEF VmInv, CursorOK
<1>6. n \in Nat /\ n <= BitsRemaining /\ q = pos * B + bit /\ q \in Nat
  <2>1. n \in Nat /\ n <= BitsRemaining
    BY <1>2, <1>5 DEF AtMost
  <2>2. pos * B \in Nat
    BY <1>3, <1>5
  <2> QED
    BY <1>3, <1>5, <2>1, <2>2
<1>7. pos <= L => q + n <= L * B
  BY <1>3, <1>4, <1>5, <1>6
<1>8. ASSUME NEW i \in 1..n PROVE digits[i] \in Int
  <2>1. pos < L
    BY <1>4, <1>5, <1>6, <1>8
  <2> DEFINE k == q + i - 1
  <2>2. k \in Nat /\ k < q + n /\ q + n <= L * B
    BY <1>6, <1>7, <1>8, <2>1, <1>4, <1>5
  <2> HIDE DEF q, n
  <2>3. k < L * B
    <3>1. L * B \in Nat
      BY <1>3, <1>4
    <3> QED
      BY <2>2, <3>1, <1>6
  <2>4. PICK d \in Nat, r \in Nat : d = k \div B /\ r = k % B
    BY <1>3, <1>4, <2>2, <2>3, BitPlace
  <2>5. d < L /\ r < B
    BY <1>3, <1>4, <2>2, <2>3, <2>4, BitPlace
  <2>6. input[d + 1] \in Nat
    <3>1. d + 1 \in 1..Len(input)
      BY <1>4, <2>5
    <3>2. input[d + 1] \in Bytes
      BY <3>1 DEF VmInv, InputOK
    <3>3. Bytes \subseteq Nat
      BY PowType, Widths DEF Bytes
    <3> QED
      BY <3>2, <3>3
  <2>7. ByteBits - 1 - r \in 0..MaxBits
    BY <1>3, <2>5, Widths
  <2>8. BitOf(input[d + 1], ByteBits - 1 - r) \in {0, 1}
    BY <2>6, <2>7, BitType
  <2>9. InputBit(k) = BitOf(input[d + 1], ByteBits - 1 - r)
    BY <1>3, <2>4 DEF InputBit
  <2>10. digits[i] = InputBit(k)
    BY <1>8
  <2> QED
    BY <2>8, <2>9, <2>10
<1>9. SlotsOK'
  <2>1. Len(digits) = n
    BY <1>6
  <2> HIDE DEF digits, n
  <2>2. Number(digits, 2) \in Words
    BY <1>6, <1>8, <2>1, NumberType
  <2> QED
    BY <1>1, <2>2, WriteOK DEF VmInv
<1> HIDE DEF digits, n, q
<1>10. PICK d \in Nat, r \in Nat : /\ pos' = d /\ bit' = r /\ r < B
                                   /\ q + n = d * B + r
  <2>1. q + n \in Nat
    BY <1>6
  <2>2. pos' = (q + n) \div B /\ bit' = (q + n) % B
    BY <1>1, <1>3 DEF BitCursor, Cursor
  <2> QED
    BY <1>3, <2>1, <2>2, BitSplit
<1>11. CursorOK'
  <2>1. CASE pos <= L
    <3>1. d * B + r <= L * B
      BY <1>7, <1>10, <2>1
    <3>2. d <= L /\ (r # 0 => d < L)
      BY <1>3, <1>4, <1>10, <3>1, BitsWithin
    <3>3. d \in Words
      BY <1>5, <1>10, <3>2
    <3> QED
      BY <1>2, <1>3, <1>4, <1>10, <3>2, <3>3 DEF CursorOK
  <2>2. CASE pos > L
    <3>1. BitsRemaining = 0 /\ n = 0 /\ bit = 0
      BY <1>4, <1>5, <1>6, <2>2
    <3>2. q + n = pos * B + bit
      BY <1>6, <3>1
    <3>3. d = pos /\ r = bit
      BY <1>3, <1>5, <1>10, <3>2, BitUnique
    <3>4. pos' \in Words /\ bit' = 0 /\ ~job'.stream /\ bit' \in 0..(ByteBits - 1)
      BY <1>2, <1>4, <1>5, <1>10, <2>2, <3>1, <3>3, Widths
    <3> QED
      BY <3>4 DEF CursorOK
  <2> QED
    BY <1>4, <1>5, <2>1, <2>2
<1>12. OutputOK' /\ ControlOK'
  BY <1>1, ContinueOK DEF VmInv, OutputOK
<1> QED
  BY <1>2, <1>9, <1>11, <1>12 DEF VmInv

-----------------------------------------------------------------------------
(* The other instructions. *)

\* The cursor, the slots and the outputs stay when nothing of them changes.
LEMMA Untouched ==
    ASSUME VmInv, input' = input, job' = job
    PROVE  /\ UNCHANGED <<slots, touched>> => SlotsOK'
           /\ UNCHANGED <<pos, bit>> => CursorOK'
           /\ UNCHANGED <<emitted, rests>> => OutputOK'
BY DEF VmInv, SlotsOK, CursorOK, OutputOK

\* bytes[EOF] (ReadRest) leaves the cursor at the end of what has arrived.
LEMMA ReadRestKeeps == VmInv /\ ReadRest => VmInv'
<1> SUFFICES ASSUME VmInv, ReadRest PROVE VmInv'
  OBVIOUS
<1>1. /\ Executes("rest") /\ Continue /\ loops' = loops /\ emitted' = emitted
      /\ WriteSlot(Instr.slot, Minus(Len(input), Aligned))
      /\ rests' = Append(rests, <<Instr.name, Aligned>>)
      /\ Cursor(Len(input), 0)
  BY DEF ReadRest
<1>2. Instr.op = "rest" /\ Instr.name \in Labels /\ InputOK'
  BY <1>1, Executed DEF WellFormed
<1>3. /\ Aligned \in Words /\ Aligned \in Nat /\ Len(input) \in Nat /\ Len(input) < Modulus
      /\ Words = 0..(Modulus - 1) /\ Modulus \in Nat
  BY CursorFacts, WrapType DEF VmInv
<1>4. Len(input) \in Words /\ Minus(Len(input), Aligned) \in Words
  BY <1>3 DEF Minus, AtLeast
<1>5. SlotsOK'
  BY <1>1, <1>4, WriteOK DEF VmInv
<1>6. CursorOK'
  BY <1>1, <1>3, <1>4, ByteCursorOK
<1>7. OutputOK'
  BY <1>1, <1>2, <1>3 DEF VmInv, OutputOK
<1>8. ControlOK'
  BY <1>1, ContinueOK
<1> QED
  BY <1>2, <1>5, <1>6, <1>7, <1>8 DEF VmInv

\* A validation moves on or ends the run.
LEMMA ValidateKeeps == VmInv /\ Validate => VmInv'
<1> SUFFICES ASSUME VmInv, Validate PROVE VmInv'
  OBVIOUS
<1>1. /\ Executes("validate") /\ UNCHANGED machine
      /\ \/ status' = "constraint" /\ ip' = ip
         \/ Continue
  BY DEF Validate
<1>2. /\ InputOK' /\ input' = input /\ job' = job /\ Program' = Program
      /\ ip \in Nat /\ ip + 1 \in 0..Len(Program) /\ loops \in 0..MaxLoopIterations
      /\ executed' \in 0..(MaxInstructions + 1) /\ need' = 0
  BY <1>1, Executed
<1>3. SlotsOK' /\ CursorOK' /\ OutputOK'
  BY <1>1, <1>2, Untouched DEF machine
<1>4. CASE Continue
  <2>1. ControlOK'
    BY <1>1, <1>4, ContinueOK DEF machine
  <2> QED
    BY <1>2, <1>3, <2>1 DEF VmInv
<1>5. CASE status' = "constraint" /\ ip' = ip
  <2>1. ip' \in 0..Len(Program') /\ loops' \in 0..(MaxLoopIterations + 1)
    BY <1>1, <1>2, <1>5, LimitsAssumption DEF machine, VmInv, ControlOK
  <2>2. ControlOK'
    BY <1>2, <1>5, <2>1 DEF ControlOK
  <2> QED
    BY <1>2, <1>3, <2>2 DEF VmInv
<1> QED
  BY <1>1, <1>4, <1>5

\* An emitted field has a name and a word.
LEMMA EmitFieldKeeps == VmInv /\ EmitField => VmInv'
<1> SUFFICES ASSUME VmInv, EmitField PROVE VmInv'
  OBVIOUS
<1>1. /\ Executes("emit") /\ Continue /\ UNCHANGED <<slots, touched, pos, bit, loops, rests>>
      /\ emitted' = Append(emitted, <<Instr.name, slots[Instr.slot]>>)
  BY DEF EmitField
<1>2. /\ Instr.op = "emit" /\ Instr.name \in Labels /\ Instr.slot \in Slots
      /\ InputOK' /\ input' = input /\ job' = job
  BY <1>1, Executed DEF WellFormed
<1>3. SlotsOK' /\ CursorOK'
  BY <1>1, <1>2, Untouched
<1>4. slots[Instr.slot] \in Words
  BY <1>2 DEF VmInv, SlotsOK
<1>5. OutputOK'
  BY <1>1, <1>2, <1>4 DEF VmInv, OutputOK
<1>6. ControlOK'
  BY <1>1, ContinueOK
<1> QED
  BY <1>2, <1>3, <1>5, <1>6 DEF VmInv

\* A computation writes a word.
LEMMA ComputeKeeps == VmInv /\ Compute => VmInv'
<1> SUFFICES ASSUME VmInv, Compute PROVE VmInv'
  OBVIOUS
<1>1. PICK op \in {"const", "copy", "un", "bin", "offset"} : Executes(op)
  BY DEF Compute
<1>2. /\ WriteSlot(Instr.slot, Result) /\ Continue /\ UNCHANGED <<pos, bit, loops, emitted, rests>>
  BY DEF Compute
<1>3. /\ Instr.op = op /\ WellFormed(Instr, Program)
      /\ InputOK' /\ input' = input /\ job' = job
  BY <1>1, Executed
<1>4. CursorOK' /\ OutputOK'
  BY <1>2, <1>3, Untouched
<1>5. Result \in Words
  <2>1. slots \in [Slots -> Words] /\ pos \in Words
    BY DEF VmInv, SlotsOK, CursorOK
  <2>2. CASE op = "const"
    BY <1>3, <2>2 DEF Result, WellFormed
  <2>3. CASE op = "copy"
    BY <1>3, <2>1, <2>3 DEF Result, WellFormed
  <2>4. CASE op = "un"
    <3>1. slots[Instr.src] \in Words /\ Instr.fn \in UnOps
      BY <1>3, <2>1, <2>4 DEF WellFormed
    <3>2. Result = UnVal(Instr.fn, slots[Instr.src])
      BY <1>3, <2>4 DEF Result
    <3> QED
      BY <3>1, <3>2, OperationType
  <2>5. CASE op = "bin"
    <3>1. slots[Instr.l] \in Words /\ slots[Instr.r] \in Words /\ Instr.fn \in BinOps
      BY <1>3, <2>1, <2>5 DEF WellFormed
    <3>2. Result = BinVal(Instr.fn, slots[Instr.l], slots[Instr.r])
      BY <1>3, <2>5 DEF Result
    <3> QED
      BY <3>1, <3>2, OperationType
  <2>6. CASE op = "offset"
    BY <1>3, <2>1, <2>6 DEF Result
  <2> QED
    BY <1>1, <2>2, <2>3, <2>4, <2>5, <2>6
<1>6. SlotsOK'
  BY <1>2, <1>5, WriteOK DEF VmInv
<1>7. ControlOK'
  BY <1>1, <1>2, ContinueOK
<1> QED
  BY <1>3, <1>4, <1>6, <1>7 DEF VmInv

\* A jump stays in the program.
LEMMA JumpKeeps == VmInv /\ Jump => VmInv'
<1> SUFFICES ASSUME VmInv, Jump PROVE VmInv'
  OBVIOUS
<1>1. Executes("jump") /\ ip' = Instr.to /\ status' = status /\ UNCHANGED machine
  BY DEF Jump
<1>2. /\ Instr.op = "jump" /\ Instr.to \in 0..Len(Program) /\ status = "run"
      /\ InputOK' /\ input' = input /\ job' = job /\ Program' = Program
      /\ loops \in 0..MaxLoopIterations /\ executed' \in 0..(MaxInstructions + 1) /\ need' = 0
  BY <1>1, Executed DEF WellFormed
<1>3. SlotsOK' /\ CursorOK' /\ OutputOK'
  BY <1>1, <1>2, Untouched DEF machine
<1>4. loops' \in 0..MaxLoopIterations /\ loops' \in 0..(MaxLoopIterations + 1)
  BY <1>1, <1>2, LimitsAssumption DEF machine
<1>5. ControlOK'
  BY <1>1, <1>2, <1>4 DEF ControlOK
<1> QED
  BY <1>2, <1>3, <1>5 DEF VmInv

\* A conditional jump stays in the program and counts its iterations to the limit.
LEMMA JumpIfZeroKeeps == VmInv /\ JumpIfZero => VmInv'
<1> SUFFICES ASSUME VmInv, JumpIfZero PROVE VmInv'
  OBVIOUS
<1> DEFINE taken == slots[Instr.slot] = 0
           back  == taken /\ Instr.to < ip
<1>1. /\ Executes("jz") /\ UNCHANGED <<slots, touched, pos, bit, emitted, rests>>
      /\ loops' = IF back THEN loops + 1 ELSE loops
      /\ IF back /\ loops + 1 > MaxLoopIterations
         THEN status' = "limit" /\ ip' = ip
         ELSE ip' = (IF taken THEN Instr.to ELSE ip + 1) /\ status' = status
  BY DEF JumpIfZero
<1>2. /\ Instr.op = "jz" /\ Instr.to \in 0..Len(Program) /\ status = "run"
      /\ ip \in Nat /\ ip + 1 \in 0..Len(Program)
      /\ InputOK' /\ input' = input /\ job' = job /\ Program' = Program
      /\ loops \in 0..MaxLoopIterations /\ executed' \in 0..(MaxInstructions + 1) /\ need' = 0
  BY <1>1, Executed DEF WellFormed
<1> HIDE DEF back, taken
<1>3. SlotsOK' /\ CursorOK' /\ OutputOK'
  BY <1>1, <1>2, Untouched
<1>4. /\ loops' \in 0..(MaxLoopIterations + 1)
      /\ status' = "run" => loops' <= MaxLoopIterations
  BY <1>1, <1>2, LimitsAssumption
<1>5. ip \in 0..Len(Program)
  BY DEF VmInv, ControlOK
<1>6. ip' \in 0..Len(Program) /\ status' \in {"run", "limit"}
  BY <1>1, <1>2, <1>5
<1>7. ControlOK'
  BY <1>2, <1>4, <1>6 DEF ControlOK
<1> QED
  BY <1>2, <1>3, <1>7 DEF VmInv

\* A run that ends leaves everything but its verdict and its price.
LEMMA EndKeeps ==
    ASSUME VmInv, UNCHANGED <<job, flow, machine, ip, need>>, status = "run",
           executed' \in 0..(MaxInstructions + 1),
           status' \in {"done", "constraint", "limit", "panic"}
    PROVE  VmInv'
<1>1. /\ job' = job /\ flow' = flow /\ input' = input /\ ip' = ip /\ need' = need
      /\ loops' = loops
  BY DEF machine
<1>2. InputOK' /\ Program' = Program
  BY <1>1 DEF VmInv, InputOK, Program
<1>3. SlotsOK' /\ CursorOK' /\ OutputOK'
  BY <1>1, Untouched DEF machine
<1>4. need = 0 /\ ip \in 0..Len(Program) /\ loops \in 0..(MaxLoopIterations + 1)
  BY DEF VmInv, ControlOK
<1>5. ControlOK'
  BY <1>1, <1>2, <1>4 DEF ControlOK
<1> QED
  BY <1>2, <1>3, <1>5 DEF VmInv

\* A run that returns, falls off the end, panics or runs out of budget ends in order.
LEMMA EndingsKeep == VmInv /\ (Return \/ FallOffEnd \/ Panic \/ OutOfBudget) => VmInv'
<1> SUFFICES ASSUME VmInv, Return \/ FallOffEnd \/ Panic \/ OutOfBudget PROVE VmInv'
  OBVIOUS
<1>1. executed \in 0..(MaxInstructions + 1)
  BY DEF VmInv, ControlOK
<1>2. CASE Return
  <2>1. /\ Executes("ret") /\ status' = "done" /\ UNCHANGED <<ip, machine>>
    BY <1>2 DEF Return
  <2>2. /\ status = "run" /\ executed' \in 0..(MaxInstructions + 1)
        /\ UNCHANGED <<job, flow, need>>
    BY <2>1, Executed DEF Executes
  <2> QED
    BY <2>1, <2>2, EndKeeps
<1>3. CASE FallOffEnd
  BY <1>1, <1>3, EndKeeps DEF FallOffEnd
<1>4. CASE Panic
  <2>1. executed' \in 0..(MaxInstructions + 1)
    BY <1>1, <1>4, LimitsAssumption DEF Panic, InBudget, Charge
  <2> QED
    BY <1>4, <2>1, EndKeeps DEF Panic
<1>5. CASE OutOfBudget
  BY <1>1, <1>5, EndKeeps DEF OutOfBudget
<1> QED
  BY <1>2, <1>3, <1>4, <1>5

-----------------------------------------------------------------------------
(* Suspending and resuming. *)

\* Rounding up: the least number of groups of base that holds n.
LEMMA RoundUp ==
    ASSUME NEW n \in Nat \ {0}, NEW base \in Nat \ {0}
    PROVE  /\ (n + base - 1) \div base \in Nat \ {0}
           /\ n <= ((n + base - 1) \div base) * base
           /\ n > ((n + base - 1) \div base) * base - base
<1>1. PICK d \in Nat, r \in Nat : d = (n + base - 1) \div base /\ r = (n + base - 1) % base
  <2>1. n + base - 1 \in Nat
    OBVIOUS
  <2> QED
    BY <2>1, BitSplit
<1>2. r < base /\ n + base - 1 = d * base + r
  <2>1. n + base - 1 \in Nat
    OBVIOUS
  <2> QED
    BY <1>1, <2>1, BitSplit
<1>3. d * base \in Nat
  OBVIOUS
<1>4. n <= d * base /\ n > d * base - base
  BY <1>2, <1>3
<1>5. d # 0
  BY <1>4
<1> QED
  BY <1>1, <1>4, <1>5

\* A short read of a stream: what it lacks, exactly.
LEMMA Lacking ==
    ASSUME VmInv, job.stream, Short, ip < Len(Program)
    PROVE  /\ Instr.op \in {"read", "slice", "bits"}
           /\ MissingBytes \in Nat \ {0}
           /\ Instr.op = "read" => MissingBytes = Aligned + Instr.n - Len(input)
           /\ Instr.op = "slice" => /\ Instr.len \in Slots
                                    /\ MissingBytes = Aligned + slots[Instr.len] - Len(input)
           /\ Instr.op = "bits" =>
                 LET q == pos * ByteBits + bit + Instr.n
                 IN /\ q <= (Len(input) + MissingBytes) * ByteBits
                    /\ q > (Len(input) + MissingBytes - 1) * ByteBits
<1>1. PICK A \in Nat : A = Aligned
  BY CursorFacts DEF VmInv
<1>2. PICK N \in Nat : N = Len(input)
  BY CursorFacts DEF VmInv
<1>3. PICK B \in Nat \ {0} : B = ByteBits
  BY Widths
<1>4. pos <= N /\ A <= N /\ N < Modulus /\ Modulus \in Nat
  BY <1>1, <1>2, CursorFacts, WrapType DEF VmInv, CursorOK
<1>5. WellFormed(Instr, Program)
  BY InstrShape DEF VmInv
<1>6. Minus(N, A) = N - A
  BY <1>1, <1>2, <1>4 DEF Minus, AtLeast
<1>7. CASE Instr.op = "read"
  <2>1. Instr.n \in Nat /\ A + Instr.n > N
    BY <1>1, <1>2, <1>5, <1>7 DEF Short, WellFormed
  <2>2. MissingBytes = AtLeast(1, Instr.n - Minus(N, A))
    BY <1>1, <1>2, <1>7 DEF MissingBytes
  <2>3. MissingBytes = A + Instr.n - N
    BY <1>1, <1>2, <1>4, <1>6, <2>1, <2>2 DEF AtLeast
  <2> QED
    BY <1>1, <1>2, <1>7, <2>1, <2>3
<1>8. CASE Instr.op = "slice"
  <2>1. Instr.len # OpenLen /\ Wrap(A + SliceLen) > N
    BY <1>1, <1>2, <1>8 DEF Short
  <2>2. SliceLen \in Words
    BY SliceFacts DEF VmInv
  <2>3. PICK s \in Nat : s = SliceLen /\ s < Modulus
    BY <1>4, <2>2, WrapType
  <2>4. A + s < Modulus
    <3> SUFFICES ASSUME A + s >= Modulus PROVE FALSE
      BY <1>4, <2>3
    <3>1. A + s - Modulus \in Nat /\ A + s - Modulus < Modulus /\ A + s - Modulus < A
      BY <1>4, <2>3
    <3>2. (Modulus + (A + s - Modulus)) % Modulus = A + s - Modulus
      BY <1>4, <3>1, OnceRound
    <3>3. Modulus + (A + s - Modulus) = A + s
      BY <1>4, <2>3
    <3>4. Wrap(A + s) = A + s - Modulus
      BY <3>2, <3>3 DEF Wrap
    <3> QED
      BY <1>4, <2>1, <2>3, <3>1, <3>4
  <2>5. Wrap(A + s) = A + s
    <3>1. A + s \in Words
      BY <1>4, <2>3, <2>4, WrapType
    <3> QED
      BY <3>1, WrapType
  <2>6. A + s > N
    BY <2>1, <2>3, <2>5
  <2>7. Instr.len \in Slots /\ s = slots[Instr.len]
    BY <1>4, <2>1, <2>3, <2>6 DEF SliceLen
  <2>8. MissingBytes = AtLeast(1, Minus(s, Minus(N, A)))
    BY <1>1, <1>2, <1>8, <2>3 DEF MissingBytes
  <2>9. MissingBytes = A + s - N
    BY <1>4, <1>6, <2>3, <2>6, <2>8 DEF AtLeast, Minus
  <2>10. MissingBytes \in Nat \ {0}
    BY <2>3, <2>6, <2>9
  <2> QED
    BY <1>1, <1>2, <1>8, <2>7, <2>9, <2>10
<1>9. CASE Instr.op = "bits"
  <2>1. Instr.n \in Nat /\ BitsRemaining < Instr.n
    BY <1>5, <1>9 DEF Short, WellFormed
  <2>2. /\ BitsRemaining \in Nat /\ pos \in Nat /\ bit \in Nat
        /\ BitsRemaining = N * B - (pos * B + bit)
    BY <1>2, <1>3, <1>4, CursorFacts DEF VmInv
  <2>3. PICK m \in Nat \ {0} : m = Instr.n - BitsRemaining
    BY <2>1, <2>2
  <2>4. PICK k \in Nat \ {0} : k = (m + B - 1) \div B
    BY <1>3, <2>3, RoundUp
  <2>5. m <= k * B /\ m > k * B - B
    BY <1>3, <2>3, <2>4, RoundUp
  <2>6. MissingBytes = k
    <3>1. MissingBytes = AtLeast(1, (m + B - 1) \div B)
      BY <1>3, <1>9, <2>3 DEF MissingBytes
    <3> QED
      BY <2>4, <3>1 DEF AtLeast
  <2>7. pos * B + bit + Instr.n = m + N * B
    <3>1. pos * B \in Nat /\ N * B \in Nat
      BY <1>3, <2>2
    <3> QED
      BY <2>1, <2>2, <2>3, <3>1
  <2>8. (N + k) * B = N * B + k * B /\ (N + k - 1) * B = N * B + k * B - B
    BY <1>3, <1>2, <2>4
  <2>9. N * B \in Nat /\ k * B \in Nat
    BY <1>3, <1>2, <2>4
  <2>10. /\ pos * B + bit + Instr.n <= (N + k) * B
         /\ pos * B + bit + Instr.n > (N + k - 1) * B
    BY <2>5, <2>7, <2>8, <2>9
  <2> QED
    BY <1>2, <1>3, <1>9, <2>6, <2>10
<1> QED
  BY <1>7, <1>8, <1>9 DEF Short

\* A suspended stream is in order: the cursor has not passed what has arrived.
LEMMA SuspendKeeps == VmInv /\ Suspend => VmInv'
<1> SUFFICES ASSUME VmInv, Suspend PROVE VmInv'
  OBVIOUS
<1>1. /\ status = "run" /\ ip < Len(Program) /\ executed <= MaxInstructions
      /\ job.stream /\ Short /\ executed' = executed + 1
      /\ status' = "need" /\ need' = MissingBytes /\ SuspendedCursor
      /\ UNCHANGED <<job, flow, slots, touched, input, loops, emitted, rests, ip>>
  BY DEF Suspend, InBudget, Charge
<1>2. MissingBytes \in Nat
  BY <1>1, Lacking
<1>3. InputOK' /\ Program' = Program
  BY <1>1 DEF VmInv, InputOK, Program
<1>4. SlotsOK' /\ OutputOK'
  BY <1>1, Untouched
<1>5. CursorOK'
  <2>1. CASE Instr.op = "bits"
    BY <1>1, <2>1, Untouched DEF SuspendedCursor, Cursor
  <2>2. CASE Instr.op # "bits"
    <3>1. pos' = Aligned /\ bit' = 0
      BY <1>1, <2>2 DEF SuspendedCursor, Cursor
    <3>2. Aligned \in Words /\ Aligned <= Len(input)
      BY <1>1, CursorFacts DEF VmInv, CursorOK
    <3> QED
      BY <1>1, <3>1, <3>2, Widths DEF CursorOK
  <2> QED
    BY <2>1, <2>2
<1>6. ControlOK'
  BY <1>1, <1>2, <1>3, LimitsAssumption DEF VmInv, ControlOK
<1> QED
  BY <1>3, <1>4, <1>5, <1>6 DEF VmInv

\* A piece of the flow, and what is left of it.
LEMMA Pieces ==
    ASSUME NEW S, NEW f \in Seq(S), NEW k \in 1..Len(f)
    PROVE  /\ SubSeq(f, 1, k) \in Seq(S) /\ Len(SubSeq(f, 1, k)) = k
           /\ SubSeq(f, k + 1, Len(f)) \in Seq(S)
           /\ Len(SubSeq(f, k + 1, Len(f))) = Len(f) - k
           /\ f = SubSeq(f, 1, k) \o SubSeq(f, k + 1, Len(f))
OBVIOUS

\* More bytes leave the cursor within what has arrived.
LEMMA ResumeKeeps == VmInv /\ Resume => VmInv'
<1> SUFFICES ASSUME VmInv, Resume PROVE VmInv'
  OBVIOUS
<1>1. PICK k \in 1..Len(flow) : /\ input' = input \o SubSeq(flow, 1, k)
                                /\ flow' = SubSeq(flow, k + 1, Len(flow))
  BY DEF Resume
<1>2. /\ status = "need" /\ status' = "run" /\ need' = 0
      /\ UNCHANGED <<job, slots, touched, pos, bit, loops, emitted, rests, ip, executed>>
  BY DEF Resume
<1>3. /\ input \in Seq(Bytes) /\ flow \in Seq(Bytes) /\ Len(input) + Len(flow) < Modulus
      /\ job \in Jobs /\ job.stream
  BY <1>2 DEF VmInv, InputOK, ControlOK
<1>4. /\ SubSeq(flow, 1, k) \in Seq(Bytes) /\ Len(SubSeq(flow, 1, k)) = k
      /\ flow' \in Seq(Bytes) /\ Len(flow') = Len(flow) - k
  BY <1>1, <1>3, Pieces
<1>5. input' \in Seq(Bytes) /\ Len(input') = Len(input) + k
  BY <1>1, <1>3, <1>4
<1>6. InputOK'
  <2>1. Len(input') + Len(flow') < Modulus
    BY <1>3, <1>4, <1>5
  <2> QED
    BY <1>2, <1>3, <1>4, <1>5, <2>1 DEF InputOK
<1>7. SlotsOK' /\ OutputOK'
  BY <1>2 DEF VmInv, SlotsOK, OutputOK
<1>8. CursorOK'
  <2>1. /\ pos \in Nat /\ pos <= Len(input) /\ Len(input) \in Nat /\ Len(input) <= Len(input')
    BY <1>3, <1>5, CursorFacts DEF VmInv, CursorOK
  <2>2. pos <= Len(input') /\ (bit # 0 => pos < Len(input'))
    BY <1>5, <2>1 DEF VmInv, CursorOK
  <2> QED
    BY <1>2, <2>2 DEF VmInv, CursorOK
<1>9. ControlOK'
  BY <1>2 DEF VmInv, ControlOK, Program
<1> QED
  BY <1>6, <1>7, <1>8, <1>9 DEF VmInv

-----------------------------------------------------------------------------
(* Types, and the hint of a continuation. *)

\* One step of the interpreter or of its caller keeps the invariant.
LEMMA VmInductive == VmInv /\ [Next]_vmvars => VmInv'
<1> SUFFICES ASSUME VmInv, [Next]_vmvars PROVE VmInv'
  OBVIOUS
<1>1. CASE ReadInt \/ ReadSlice \/ ReadBits \/ ReadRest
  BY <1>1, ReadIntKeeps, ReadSliceKeeps, ReadBitsKeeps, ReadRestKeeps
<1>2. CASE Validate \/ EmitField \/ Compute \/ Jump \/ JumpIfZero
  BY <1>2, ValidateKeeps, EmitFieldKeeps, ComputeKeeps, JumpKeeps, JumpIfZeroKeeps
<1>3. CASE Return \/ FallOffEnd \/ Panic \/ OutOfBudget
  BY <1>3, EndingsKeep
<1>4. CASE Suspend \/ Resume
  BY <1>4, SuspendKeeps, ResumeKeeps
<1>5. CASE UNCHANGED vmvars
  <2>1. UNCHANGED <<job, flow, slots, touched, input, pos, bit, loops, emitted, rests, ip,
                    executed, status, need>>
    BY <1>5 DEF vmvars, machine
  <2> QED
    BY <2>1 DEF VmInv, SlotsOK, InputOK, CursorOK, OutputOK, ControlOK, Program
<1> QED
  BY <1>1, <1>2, <1>3, <1>4, <1>5 DEF Next, Step

\* The interpreter's state, whatever the program, the flow and the pieces it comes in:
\* the bit cursor stays within a byte and within the input, a stream's cursor never
\* passes what has arrived, and the limits are exceeded by one at most.
THEOREM VmInvariant == Spec => []VmInv
<1>1. Init => VmInv
  BY InitVm
<1>2. VmInv /\ [Next]_vmvars => VmInv'
  BY VmInductive
<1> QED
  BY <1>1, <1>2, PTL DEF Spec

\* The type invariant of BytecodeVm.
THEOREM TypeCorrect == Spec => []TypeOK
<1>1. VmInv => TypeOK
  BY DEF VmInv, SlotsOK, InputOK, CursorOK, OutputOK, ControlOK, TypeOK
<1> QED
  BY <1>1, VmInvariant, PTL

\* Every step of the parse in pieces is one of the interpreter or of its caller.
LEMMA ResumeSteps ==
    /\ RInit => Init
    /\ [RNext]_vars => [Next]_vmvars
BY DEF RInit, RNext, RStep, RSuspend, RRest, Next, vars

\* The invariant of the interpreter holds of the parse in pieces.
LEMMA ResumeInvariant == RSpec => []VmInv
<1>1. RInit => VmInv
  BY InitVm, ResumeSteps
<1>2. VmInv /\ [RNext]_vars => VmInv'
  BY VmInductive, ResumeSteps
<1> QED
  BY <1>1, <1>2, PTL DEF RSpec

\* What a suspended read asks for is what it lacks, to the byte.
LEMMA SuspendAsksExactly == VmInv /\ Suspend => HintExact'
<1> SUFFICES ASSUME VmInv, Suspend PROVE HintExact'
  OBVIOUS
<1>1. /\ ip < Len(Program) /\ job.stream /\ Short
      /\ need' = MissingBytes /\ SuspendedCursor
      /\ UNCHANGED <<job, slots, input, ip>>
  BY DEF Suspend
<1>2. Instr' = Instr /\ Len(input)' = Len(input)
  BY <1>1 DEF Instr, Program
<1>3. PICK N \in Nat : N = Len(input)
  BY CursorFacts DEF VmInv
<1>4. PICK A \in Nat : A = Aligned
  BY CursorFacts DEF VmInv
<1>5. PICK k \in Nat \ {0} : k = MissingBytes
  BY <1>1, Lacking
<1>6. N + k \in Nat /\ N + (k - 1) = N + k - 1
  BY <1>3, <1>5
<1>7. CASE Instr.op = "read"
  <2>1. pos' = A /\ k = A + Instr.n - N /\ Instr.n \in Nat
    <3>1. Instr.n \in Nat
      BY <1>1, <1>7, InstrShape DEF VmInv, WellFormed
    <3> QED
      BY <1>1, <1>3, <1>4, <1>5, <1>7, <3>1, Lacking DEF SuspendedCursor, Cursor
  <2>2. A + Instr.n <= N + k /\ ~(A + Instr.n <= N + (k - 1))
    BY <1>3, <1>4, <1>5, <2>1
  <2> QED
    BY <1>1, <1>2, <1>3, <1>5, <1>7, <2>1, <2>2 DEF HintExact, Served
<1>8. CASE Instr.op = "slice"
  <2>1. pos' = A /\ k = A + slots[Instr.len] - N /\ slots[Instr.len] \in Nat
    <3>1. Instr.len \in Slots
      BY <1>1, <1>8, Lacking
    <3>2. slots[Instr.len] \in Nat
      BY <3>1, WrapType DEF VmInv, SlotsOK
    <3> QED
      BY <1>1, <1>3, <1>4, <1>5, <1>8, <3>2, Lacking DEF SuspendedCursor, Cursor
  <2>2. /\ A + slots[Instr.len] <= N + k /\ ~(A + slots[Instr.len] <= N + (k - 1))
    BY <1>3, <1>4, <1>5, <2>1
  <2> QED
    BY <1>1, <1>2, <1>3, <1>5, <1>8, <2>1, <2>2 DEF HintExact, Served
<1>9. CASE Instr.op = "bits"
  <2>1. pos' = pos /\ bit' = bit
    BY <1>1, <1>9 DEF SuspendedCursor, Cursor
  <2> DEFINE q == pos * ByteBits + bit + Instr.n
  <2>2. q <= (N + k) * ByteBits /\ q > (N + k - 1) * ByteBits
    BY <1>1, <1>3, <1>5, <1>9, Lacking
  <2>3. q \in Int /\ (N + k - 1) * ByteBits \in Int
    <3>1. Instr.n \in Nat /\ pos \in Nat /\ bit \in Nat /\ ByteBits \in Nat
      BY <1>1, <1>9, InstrShape, CursorFacts, Widths DEF VmInv, WellFormed
    <3> QED
      BY <1>6, <1>3, <1>5, <3>1
  <2>4. ~(q <= (N + (k - 1)) * ByteBits)
    BY <1>6, <2>2, <2>3
  <2> QED
    BY <1>1, <1>2, <1>3, <1>5, <1>9, <2>1, <2>2, <2>4 DEF HintExact, Served
<1> QED
  BY <1>1, <1>7, <1>8, <1>9, Lacking

\* Only a short read suspends.
LEMMA OthersDoNotSuspend ==
    (Step \/ OutOfBudget \/ Resume) => status' # "need"
<1>1. Executes("read") \/ Executes("slice") \/ Executes("bits") \/ Executes("rest")
         \/ Executes("validate") \/ Executes("emit") \/ Executes("jump") \/ Executes("jz")
         \/ (\E op \in {"const", "copy", "un", "bin", "offset"} : Executes(op))
      => status = "run"
  BY DEF Executes
<1> QED
  BY <1>1 DEF Step, OutOfBudget, Resume, ReadInt, ReadSlice, ReadBits, ReadRest, Validate,
       EmitField, Compute, Jump, JumpIfZero, Return, FallOffEnd, Panic, Continue

\* bytes_needed is exact in every continuation: with that many bytes more the suspended
\* read is served, with one less it is not.
THEOREM HintIsExact == RSpec => []HintExact
<1>1. RInit => HintExact
  BY DEF RInit, Init, HintExact
<1>2. VmInv /\ HintExact /\ [RNext]_vars => HintExact'
  <2> SUFFICES ASSUME VmInv, HintExact, [RNext]_vars PROVE HintExact'
    OBVIOUS
  <2>1. CASE Suspend
    BY <2>1, SuspendAsksExactly
  <2>2. CASE Step \/ OutOfBudget \/ Resume
    BY <2>2, OthersDoNotSuspend DEF HintExact
  <2>3. CASE UNCHANGED vmvars
    <3>1. UNCHANGED <<job, slots, input, pos, bit, ip, status, need>>
      BY <2>3 DEF vmvars, machine
    <3> QED
      BY <3>1 DEF HintExact, Served, Instr, Program
  <2> QED
    BY <2>1, <2>2, <2>3, ResumeSteps DEF Next
<1> QED
  BY <1>1, <1>2, ResumeInvariant, PTL DEF RSpec

-----------------------------------------------------------------------------
(* Resume-equivalence: what a read that waits remembers. *)

HeldTyped == held.on \in BOOLEAN /\ held.pos \in Nat /\ held.bit \in Nat /\ retries \in Nat

\* The cursor that the snapshot keeps of the one before the read.
HeldCursor ==
    IF Instr.op = "bits" THEN pos = held.pos /\ bit = held.bit
    ELSE pos = (IF held.bit # 0 THEN held.pos + 1 ELSE held.pos) /\ bit = 0

\* Only a read of a stream waits, at its instruction and with what it needs in order.
HeldRead ==
    held.on =>
        /\ status \in {"run", "need", "limit"} /\ retries > 0
        /\ loops <= MaxLoopIterations
        /\ job.stream /\ ip < Len(Program) /\ Instr.op \in {"read", "slice", "bits"}
        /\ Instr.op = "slice" => Instr.len # OpenLen
        /\ ~Faults /\ HeldCursor

HeldInv == HeldTyped /\ HeldRead /\ (status = "need" /\ flow # <<>> => held.on)

\* Nothing waits at the start.
LEMMA InitHeld == RInit => HeldInv
BY DEF RInit, Init, HeldInv, HeldTyped, HeldRead, NotHeld

\* The panics of a read that waits do not depend on how much has arrived.
LEMMA WaitingFaults ==
    ASSUME VmInv, Suspend
    PROVE  ~Faults'
<1>1. /\ ip < Len(Program) /\ job.stream /\ Short /\ ~Faults /\ SuspendedCursor
      /\ UNCHANGED <<job, slots, input, ip>>
  BY DEF Suspend
<1>2. Instr' = Instr
  BY <1>1 DEF Instr, Program
<1>3. Instr.op # "bits" => Aligned' = Aligned
  BY <1>1 DEF SuspendedCursor, Cursor, Aligned
<1>4. Instr.op \in {"read", "slice", "bits"} /\ (Instr.op = "slice" => Instr.len # OpenLen)
  BY <1>1, Lacking DEF Short
<1>5. Instr.op = "slice" => SliceLen' = SliceLen
  BY <1>1, <1>2, <1>4 DEF SliceLen
<1> QED
  BY <1>1, <1>2, <1>3, <1>4, <1>5 DEF Faults

\* What waits is remembered as it was before it first waited.
LEMMA HeldInductive == VmInv /\ HeldInv /\ [RNext]_vars => HeldInv'
<1> SUFFICES ASSUME VmInv, HeldInv, [RNext]_vars PROVE HeldInv'
  OBVIOUS
<1>1. CASE RStep
  <2>1. held' = NotHeld /\ retries' = retries /\ Step
    BY <1>1 DEF RStep
  <2>2. status' # "need"
    BY <2>1, OthersDoNotSuspend
  <2> QED
    BY <2>1, <2>2 DEF HeldInv, HeldTyped, HeldRead, NotHeld
<1>2. CASE RSuspend /\ flow = <<>>
  <2>1. held' = NotHeld /\ retries' = retries /\ flow' = flow
    BY <1>2 DEF RSuspend, Suspend
  <2> QED
    BY <1>2, <2>1 DEF HeldInv, HeldTyped, HeldRead, NotHeld
<1>3. CASE RSuspend /\ flow # <<>>
  <2>1. /\ held' = IF held.on THEN held ELSE [on |-> TRUE, pos |-> pos, bit |-> bit]
        /\ retries' = retries + 1 /\ Suspend
    BY <1>3 DEF RSuspend
  <2>2. /\ status = "run" /\ ip < Len(Program) /\ job.stream /\ Short /\ SuspendedCursor
        /\ status' = "need" /\ UNCHANGED <<job, slots, input, ip, loops>>
    BY <2>1 DEF Suspend
  <2>3. Instr' = Instr /\ Program' = Program
    BY <2>2 DEF Instr, Program
  <2>4. Instr.op \in {"read", "slice", "bits"} /\ (Instr.op = "slice" => Instr.len # OpenLen)
    BY <2>2, Lacking DEF Short
  <2>5. pos \in Nat /\ bit \in Nat
    BY CursorFacts DEF VmInv
  <2>6. held'.on = TRUE /\ HeldTyped'
    <3>1. retries' \in Nat
      BY <2>1 DEF HeldInv, HeldTyped
    <3>2. held.on = TRUE \/ held.on = FALSE
      BY DEF HeldInv, HeldTyped
    <3>3. CASE held.on = TRUE
      <4>1. held' = held
        BY <2>1, <3>3
      <4> QED
        BY <3>1, <3>3, <4>1 DEF HeldInv, HeldTyped
    <3>4. CASE held.on = FALSE
      <4>1. held' = [on |-> TRUE, pos |-> pos, bit |-> bit]
        BY <2>1, <3>4
      <4> QED
        BY <2>5, <3>1, <4>1 DEF HeldTyped
    <3> QED
      BY <3>2, <3>3, <3>4
  <2>7. HeldCursor'
    <3>1. CASE held.on
      <4>1. held' = held /\ HeldCursor
        BY <2>1, <3>1 DEF HeldInv, HeldRead
      <4>2. CASE Instr.op = "bits"
        BY <2>2, <2>3, <4>1, <4>2 DEF HeldCursor, SuspendedCursor, Cursor
      <4>3. CASE Instr.op # "bits"
        BY <2>2, <2>3, <4>1, <4>3 DEF HeldCursor, SuspendedCursor, Cursor, Aligned
      <4> QED
        BY <4>2, <4>3
    <3>2. CASE ~held.on
      <4>1. held'.pos = pos /\ held'.bit = bit
        BY <2>1, <3>2
      <4> QED
        BY <2>2, <2>3, <4>1 DEF HeldCursor, SuspendedCursor, Cursor, Aligned
    <3> QED
      BY <3>1, <3>2
  <2>8. retries' > 0 /\ loops' <= MaxLoopIterations
    BY <2>1, <2>2 DEF HeldInv, HeldTyped, VmInv, ControlOK
  <2> QED
    BY <2>1, <2>2, <2>3, <2>4, <2>6, <2>7, <2>8, WaitingFaults DEF HeldInv, HeldRead
<1>4. CASE OutOfBudget /\ UNCHANGED <<held, retries>>
  <2>1. /\ status' = "limit" /\ UNCHANGED <<job, slots, input, pos, bit, loops, ip>>
    BY <1>4 DEF OutOfBudget, machine
  <2> QED
    BY <1>4, <2>1 DEF HeldInv, HeldTyped, HeldRead, HeldCursor, Instr, Program, Faults,
                      Aligned, SliceLen
<1>5. CASE Resume /\ UNCHANGED <<held, retries>>
  <2>1. /\ status = "need" /\ status' = "run"
        /\ UNCHANGED <<job, slots, pos, bit, loops, ip>>
    BY <1>5 DEF Resume
  <2>2. Instr' = Instr /\ Program' = Program /\ Aligned' = Aligned
    BY <2>1 DEF Instr, Program, Aligned
  <2>3. held.on => ~Faults'
    <3> SUFFICES ASSUME held.on PROVE ~Faults'
      OBVIOUS
    <3>1. ~Faults /\ Instr.op \in {"read", "slice", "bits"}
      BY DEF HeldInv, HeldRead
    <3>2. CASE Instr.op = "slice"
      <4>1. Instr.len # OpenLen
        BY <3>2 DEF HeldInv, HeldRead
      <4> QED
        BY <2>1, <2>2, <3>1, <3>2, <4>1 DEF Faults, SliceLen
    <3> QED
      BY <2>1, <2>2, <3>1, <3>2 DEF Faults
  <2> QED
    BY <1>5, <2>1, <2>2, <2>3 DEF HeldInv, HeldTyped, HeldRead, HeldCursor
<1>6. CASE UNCHANGED vars
  <2>1. UNCHANGED <<job, flow, slots, touched, input, pos, bit, loops, emitted, rests, ip,
                    executed, status, need, held, retries>>
    BY <1>6 DEF vars, vmvars, machine
  <2> QED
    BY <2>1 DEF HeldInv, HeldTyped, HeldRead, HeldCursor, Instr, Program, Faults,
                Aligned, SliceLen
<1> QED
  BY <1>1, <1>2, <1>3, <1>4, <1>5, <1>6 DEF RNext, RRest

-----------------------------------------------------------------------------
(* The parse of the whole flow: its operators and its view of the state. *)

\* Words are the same in both parses.
LEMMA SameWords ==
    /\ Whole!Pow = Pow /\ Whole!Modulus = Modulus
    /\ \A n : Whole!Wrap(n) = Wrap(n)
    /\ \A d, b : Whole!Number(d, b) = Number(d, b)
    /\ \A b : Whole!BigEndian(b) = BigEndian(b) /\ Whole!LittleEndian(b) = LittleEndian(b)
    /\ \A n, i : Whole!BitOf(n, i) = BitOf(n, i)
    /\ \A op, l, r : Whole!BinVal(op, l, r) = BinVal(op, l, r)
    /\ \A op, l, r : Whole!Traps(op, l, r) = Traps(op, l, r)
    /\ \A op, v : Whole!UnVal(op, v) = UnVal(op, v)
<1>1. Whole!Pow = Pow
  BY DEF Whole!Pow, Pow, Whole!AtLeast, AtLeast
<1>2. Whole!Modulus = Modulus
  BY <1>1 DEF Whole!Modulus, Modulus
<1>3. \A n : Whole!Wrap(n) = Wrap(n)
  BY <1>2 DEF Whole!Wrap, Wrap
<1>4. ASSUME NEW d, NEW b PROVE Whole!Number(d, b) = Number(d, b)
  BY <1>1 DEF Whole!Number, Number, Whole!Wrap, Wrap, Whole!Modulus, Modulus
<1>5. ASSUME NEW b PROVE Whole!BigEndian(b) = BigEndian(b)
  BY <1>1, <1>4 DEF Whole!BigEndian, BigEndian
<1>6. ASSUME NEW b PROVE Whole!LittleEndian(b) = LittleEndian(b)
  BY <1>5 DEF Whole!LittleEndian, LittleEndian
<1>7. \A n, i : Whole!BitOf(n, i) = BitOf(n, i)
  BY <1>1 DEF Whole!BitOf, BitOf
<1>8. ASSUME NEW l, NEW r
      PROVE  /\ Whole!Bitwise(Whole!BothBits, l, r) = Bitwise(BothBits, l, r)
             /\ Whole!Bitwise(Whole!EitherBit, l, r) = Bitwise(EitherBit, l, r)
             /\ Whole!Bitwise(Whole!OneBit, l, r) = Bitwise(OneBit, l, r)
  BY <1>1, <1>4 DEF Whole!Bitwise, Bitwise, Whole!BothBits, BothBits, Whole!EitherBit,
     EitherBit, Whole!OneBit, OneBit, Whole!BitOf, BitOf, Whole!AtLeast, AtLeast
<1>9. ASSUME NEW op, NEW l, NEW r PROVE Whole!BinVal(op, l, r) = BinVal(op, l, r)
  BY <1>1, <1>3, <1>8 DEF Whole!BinVal, BinVal, Whole!Minus, Minus, Whole!AtLeast, AtLeast,
     Whole!Flag, Flag
<1>10. \A op, l, r : Whole!Traps(op, l, r) = Traps(op, l, r)
  BY <1>1, <1>2 DEF Whole!Traps, Traps, Whole!ShiftCount, ShiftCount
<1>11. ASSUME NEW op, NEW v PROVE Whole!UnVal(op, v) = UnVal(op, v)
  BY <1>2, <1>3 DEF Whole!UnVal, UnVal, Whole!Flag, Flag
<1> QED
  BY <1>1, <1>2, <1>3, <1>4, <1>5, <1>6, <1>7, <1>9, <1>10, <1>11

WPos == IF held.on THEN held.pos ELSE pos
WBit == IF held.on THEN held.bit ELSE bit

\* The compiler of a stream's program knows the length of what it reads.
ClosedStreams ==
    \A j \in Jobs : j.stream =>
        \A i \in 1..Len(j.code) : /\ j.code[i].op # "rest"
                                  /\ j.code[i].op = "slice" => j.code[i].len # OpenLen

\* A piece of the first of two sequences is that piece of both.
LEMMA StartOf ==
    ASSUME NEW S, NEW a \in Seq(S), NEW b \in Seq(S), NEW m \in Nat \ {0}, NEW n \in Int,
           n <= Len(a)
    PROVE  SubSeq(a \o b, m, n) = SubSeq(a, m, n)
OBVIOUS

\* What has arrived is the start of the whole flow.
LEMMA Arrived ==
    ASSUME VmInv
    PROVE  /\ Len(input) \in Nat /\ Len(input \o flow) = Len(input) + Len(flow)
           /\ Len(flow) \in Nat
           /\ flow = <<>> => input \o flow = input
           /\ \A i \in 1..Len(input) : (input \o flow)[i] = input[i]
           /\ \A m \in Nat \ {0}, n \in Int :
                 n <= Len(input) => SubSeq(input \o flow, m, n) = SubSeq(input, m, n)
<1>1. input \in Seq(Bytes) /\ flow \in Seq(Bytes)
  BY DEF VmInv, InputOK
<1>2. Len(input) \in Nat /\ Len(flow) \in Nat
  BY <1>1
<1>3. Len(input \o flow) = Len(input) + Len(flow)
  BY <1>1
<1>4. flow = <<>> => input \o flow = input
  BY <1>1
<1>5. \A i \in 1..Len(input) : (input \o flow)[i] = input[i]
  BY <1>1
<1>6. ASSUME NEW m \in Nat \ {0}, NEW n \in Int, n <= Len(input)
      PROVE  SubSeq(input \o flow, m, n) = SubSeq(input, m, n)
  BY <1>1, <1>6, StartOf
<1> QED
  BY <1>2, <1>3, <1>4, <1>5, <1>6

\* A read that waits starts from the same byte as the one of the whole flow.
LEMMA SameCursor ==
    ASSUME VmInv, HeldInv
    PROVE  /\ Whole!Program = Program /\ Whole!Instr = Instr
           /\ Whole!Aligned = Aligned /\ WPos \in Nat /\ WBit \in Nat
           /\ Instr.op \notin {"read", "slice"} => WPos = pos /\ WBit = bit
           /\ ~job.stream => ~held.on /\ flow = <<>>
<1>1. Whole!Program = Program /\ Whole!Instr = Instr
  BY DEF Whole!Program, Program, Whole!Instr, Instr
<1>2. pos \in Nat /\ bit \in Nat
  BY CursorFacts DEF VmInv
<1>3. ~job.stream => ~held.on /\ flow = <<>>
  BY DEF VmInv, InputOK, HeldInv, HeldRead
<1>4. Whole!Aligned = IF WBit # 0 THEN WPos + 1 ELSE WPos
  BY DEF Whole!Aligned, WBit, WPos
<1>5. CASE ~held.on
  BY <1>1, <1>2, <1>3, <1>4, <1>5 DEF WPos, WBit, Aligned
<1>6. CASE held.on
  <2>1. /\ Instr.op \in {"read", "slice", "bits"} /\ HeldCursor
        /\ held.pos \in Nat /\ held.bit \in Nat /\ WPos = held.pos /\ WBit = held.bit
    BY <1>6 DEF HeldInv, HeldRead, HeldTyped, WPos, WBit
  <2> QED
    BY <1>1, <1>3, <1>4, <2>1 DEF HeldCursor, Aligned
<1> QED
  BY <1>5, <1>6

\* A stream that does not wait and a datagram are as the whole flow sees them.
LEMMA SameReads ==
    ASSUME VmInv, HeldInv, ClosedStreams, ip < Len(Program)
    PROVE  /\ job.stream => /\ Instr.op # "rest"
                            /\ Instr.op = "slice" => Instr.len # OpenLen
           /\ Instr.op = "slice" => Whole!SliceLen = SliceLen
           /\ Whole!Faults = Faults
<1>1. job.stream => /\ Instr.op # "rest"
                    /\ Instr.op = "slice" => Instr.len # OpenLen
  <2>1. ip + 1 \in 1..Len(job.code) /\ job \in Jobs
    <3>1. ip + 1 \in 0..Len(Program) /\ ip \in Nat
      BY InstrShape DEF VmInv
    <3> QED
      BY <3>1 DEF Program, VmInv, InputOK
  <2> QED
    BY <2>1 DEF ClosedStreams, Instr, Program
<1>2. Instr.op = "slice" => Whole!SliceLen = SliceLen
  <2>1. CASE job.stream
    BY <1>1, <2>1, SameCursor DEF Whole!SliceLen, SliceLen, Whole!OpenLen, OpenLen
  <2>2. CASE ~job.stream
    <3>1. input \o flow = input
      BY <2>2, SameCursor, Arrived
    <3> QED
      BY <3>1, SameCursor, SameWords
         DEF Whole!SliceLen, SliceLen, Whole!OpenLen, OpenLen, Whole!AtMost, AtMost
  <2> QED
    BY <2>1, <2>2
<1>3. ~job.stream => input \o flow = input
  BY SameCursor, Arrived
<1>4. Whole!Faults = Faults
  <2>1. CASE job.stream
    BY <1>1, <1>2, <2>1, SameCursor, SameWords
       DEF Whole!Faults, Faults, Whole!OpenLen, OpenLen
  <2>2. CASE ~job.stream
    BY <1>2, <1>3, <2>2, SameCursor, SameWords
       DEF Whole!Faults, Faults, Whole!OpenLen, OpenLen
  <2> QED
    BY <2>1, <2>2
<1> QED
  BY <1>1, <1>2, <1>4

\* How the parse of the whole flow stands.
WStatus == IF \/ held.on /\ status = "need"
              \/ status = "limit" /\ retries > 0 /\ loops <= MaxLoopIterations
           THEN "run" ELSE status

\* What can be read of what has arrived can be read of the whole flow.
LEMMA SameShort ==
    ASSUME VmInv, HeldInv, ClosedStreams, ip < Len(Program), ~(job.stream /\ Short)
    PROVE  ~(job.stream /\ Whole!Short)
<1> SUFFICES ASSUME job.stream, ~Short PROVE ~Whole!Short
  OBVIOUS
<1>1. PICK N \in Nat, M \in Nat : N = Len(input) /\ M = Len(input \o flow) /\ N <= M
  BY Arrived
<1>2. PICK A \in Nat : A = Aligned /\ Whole!Aligned = A
  BY CursorFacts, SameCursor DEF VmInv
<1>3. Whole!Instr = Instr /\ WellFormed(Instr, Program)
  BY SameCursor, InstrShape DEF VmInv
<1>4. Instr.op = "read" => ~(A + Instr.n > M)
  <2>1. Instr.op = "read" => Instr.n \in Nat /\ ~(A + Instr.n > N)
    BY <1>1, <1>2, <1>3 DEF Short, WellFormed
  <2> QED
    BY <1>1, <1>2, <2>1
<1>5. Instr.op = "slice" => ~(Wrap(A + SliceLen) > M)
  <2>1. Instr.op = "slice" => ~(Wrap(A + SliceLen) > N)
    BY <1>1, <1>2, SameReads DEF Short
  <2>2. A + SliceLen \in Int
    BY <1>2, SliceFacts, WrapType DEF VmInv
  <2>3. Wrap(A + SliceLen) \in Nat
    BY <2>2, WrapType
  <2> QED
    BY <1>1, <2>1, <2>3
<1>6. Instr.op = "bits" => ~(Whole!BitsRemaining < Instr.n)
  <2> SUFFICES ASSUME Instr.op = "bits" PROVE ~(Whole!BitsRemaining < Instr.n)
    OBVIOUS
  <2>1. Instr.n \in Nat /\ ~(BitsRemaining < Instr.n)
    BY <1>3 DEF Short, WellFormed
  <2>2. PICK B \in Nat \ {0} : B = ByteBits
    BY Widths
  <2>3. WPos = pos /\ WBit = bit
    BY SameCursor
  <2>4. Whole!BitsRemaining = IF WPos >= M THEN 0 ELSE (M - WPos) * B - WBit
    BY <1>1, <2>2 DEF Whole!BitsRemaining, WPos, WBit
  <2>5. BitsRemaining = IF pos >= N THEN 0 ELSE (N - pos) * B - bit
    BY <1>1, <2>2 DEF BitsRemaining
  <2>6. pos \in Nat /\ bit \in Nat /\ pos <= N /\ (bit # 0 => pos < N)
    BY <1>1, CursorFacts DEF VmInv, CursorOK
  <2>7. (M - pos) * B >= (N - pos) * B
    <3>1. PICK d \in Nat : M = N + d
      <4>1. M - N \in Nat /\ M = N + (M - N)
        BY <1>1
      <4> QED
        BY <4>1
    <3>2. (M - pos) * B = (N - pos) * B + d * B /\ d * B \in Nat /\ (N - pos) * B \in Int
      BY <1>1, <2>2, <2>6, <3>1
    <3> QED
      BY <3>2
  <2>8. (M - pos) * B \in Nat /\ (N - pos) * B \in Nat
    BY <1>1, <2>2, <2>6
  <2>9. Whole!BitsRemaining \in Int /\ BitsRemaining \in Int /\ Whole!BitsRemaining >= BitsRemaining
    <3>1. CASE pos >= M
      BY <1>1, <2>3, <2>4, <2>5, <2>6, <3>1
    <3>2. CASE pos < M /\ pos >= N
      <4>1. bit = 0
        BY <1>1, <2>6, <3>2
      <4> QED
        BY <1>1, <2>3, <2>4, <2>5, <2>6, <2>8, <3>2, <4>1
    <3>3. CASE pos < N
      BY <1>1, <2>3, <2>4, <2>5, <2>6, <2>7, <2>8, <3>3
    <3> QED
      BY <1>1, <2>6, <3>1, <3>2, <3>3
  <2> QED
    BY <2>1, <2>9
<1>7. Whole!SliceLen = SliceLen \/ Instr.op # "slice"
  BY SameReads
<1> QED
  BY <1>1, <1>2, <1>3, <1>4, <1>5, <1>6, <1>7, SameWords
     DEF Whole!Short, Whole!OpenLen, OpenLen

\* What the parse in pieces executes, the parse of the whole executes.
LEMMA SameExecution ==
    ASSUME VmInv, HeldInv, ClosedStreams, NEW op, Executes(op),
           held' = NotHeld, retries' = retries
    PROVE  /\ Whole!Executes(op) /\ Instr.op = op /\ Whole!Instr = Instr
           /\ WStatus = "run" /\ WStatus' = IF status' = "limit" THEN WStatus' ELSE status'
           /\ WPos' = pos' /\ WBit' = bit'
<1>1. /\ status = "run" /\ ip < Len(Program) /\ executed <= MaxInstructions /\ Instr.op = op
      /\ ~Faults /\ ~(job.stream /\ Short) /\ executed' = executed + 1
      /\ job' = job /\ flow' = flow /\ input' = input /\ need' = need /\ need = 0
  BY DEF Executes, InBudget, Charge, VmInv, ControlOK
<1>2. executed \in Nat /\ retries \in Nat
  BY LimitsAssumption DEF VmInv, ControlOK, HeldInv, HeldTyped
<1>3. executed - retries <= MaxInstructions /\ executed' - retries' = executed - retries + 1
  BY <1>1, <1>2, LimitsAssumption
<1>4. held'.on = FALSE
  BY DEF NotHeld
<1>5. Whole!InBudget /\ Whole!Charge
  BY <1>3 DEF Whole!InBudget, Whole!Charge
<1>6. WStatus = "run"
  BY <1>1 DEF WStatus
<1>7. Whole!Program = Program /\ Whole!Instr = Instr /\ Whole!Faults = Faults
  BY <1>1, SameCursor, SameReads
<1>8. ~(job.stream /\ Whole!Short)
  BY <1>1, SameShort
<1>9. Whole!Executes(op)
  BY <1>1, <1>4, <1>5, <1>6, <1>7, <1>8 DEF Whole!Executes, WStatus
<1> QED
  BY <1>1, <1>4, <1>6, <1>7, <1>9 DEF WStatus, WPos, WBit

\* An instruction that moves on does so in both parses.
LEMMA SameMoves ==
    ASSUME VmInv, HeldInv, ClosedStreams, NEW op, Executes(op),
           held' = NotHeld, retries' = retries
    PROVE  /\ Continue => Whole!Continue
           /\ \A s, v : WriteSlot(s, v) => Whole!WriteSlot(s, v)
           /\ \A p, b : Cursor(p, b) => Whole!Cursor(p, b)
<1>1. WStatus = "run" /\ WPos' = pos' /\ WBit' = bit' /\ status = "run"
  BY SameExecution, Executed
<1>2. Continue => Whole!Continue
  <2>1. Continue => status' = "run" /\ WStatus' = "run"
    BY <1>1 DEF Continue, WStatus
  <2> QED
    BY <1>1, <2>1 DEF Continue, Whole!Continue, WStatus
<1>3. \A s, v : WriteSlot(s, v) => Whole!WriteSlot(s, v)
  BY DEF WriteSlot, Whole!WriteSlot
<1>4. \A p, b : Cursor(p, b) => Whole!Cursor(p, b)
  BY <1>1 DEF Cursor, Whole!Cursor, WPos, WBit
<1> QED
  BY <1>2, <1>3, <1>4

\* A fixed-width read finds the same bytes.
LEMMA SameReadInt ==
    ASSUME VmInv, HeldInv, ClosedStreams, ReadInt, held' = NotHeld, retries' = retries
    PROVE  Whole!ReadInt
<1> DEFINE p     == Aligned
           fits  == p + Instr.n <= Len(input)
           bytes == SubSeq(input, p + 1, p + Instr.n)
           wfits  == p + Instr.n <= Len(input \o flow)
           wbytes == SubSeq(input \o flow, p + 1, p + Instr.n)
<1>1. /\ Executes("read") /\ Continue /\ loops' = loops /\ emitted' = emitted /\ rests' = rests
      /\ WriteSlot(Instr.slot, IF ~fits THEN 0
                               ELSE IF Instr.le THEN LittleEndian(bytes) ELSE BigEndian(bytes))
      /\ Cursor(IF fits THEN p + Instr.n ELSE p, 0)
  BY DEF ReadInt
<1>2. /\ Whole!Executes("read") /\ Whole!Continue /\ Whole!Instr = Instr /\ Whole!Aligned = p
  BY <1>1, SameExecution, SameMoves, SameCursor
<1>3. p \in Nat /\ Instr.n \in Nat
  BY <1>1, Executed, CursorFacts DEF WellFormed, VmInv
<1>4. fits = wfits
  <2>1. CASE job.stream
    <3>1. fits
      BY <1>1, <1>3, <2>1, Executed, Arrived DEF Short
    <3> QED
      BY <1>3, <3>1, Arrived
  <2>2. CASE ~job.stream
    BY <2>2, SameCursor, Arrived
  <2> QED
    BY <2>1, <2>2
<1>5. fits => wbytes = bytes
  <2>1. p + 1 \in Nat \ {0} /\ p + Instr.n \in Int
    BY <1>3
  <2> QED
    BY <2>1, Arrived
<1> HIDE DEF p, fits, bytes, wfits, wbytes
<1>6. Whole!WriteSlot(Instr.slot, IF ~wfits THEN 0
                                  ELSE IF Instr.le THEN Whole!LittleEndian(wbytes)
                                  ELSE Whole!BigEndian(wbytes))
  <2>1. WriteSlot(Instr.slot, IF ~wfits THEN 0
                              ELSE IF Instr.le THEN Whole!LittleEndian(wbytes)
                              ELSE Whole!BigEndian(wbytes))
    BY <1>1, <1>4, <1>5, SameWords
  <2> QED
    BY <1>1, <2>1, SameMoves
<1>7. Whole!Cursor(IF wfits THEN p + Instr.n ELSE p, 0)
  BY <1>1, <1>4, SameMoves
<1> QED
  BY <1>1, <1>2, <1>6, <1>7 DEF Whole!ReadInt, wfits, wbytes

\* A slice whose end does not wrap (in a build without overflow checks).
SlicesFit ==
    /\ status = "run" /\ ip < Len(Program) /\ Instr.op = "slice"
    /\ job.stream /\ ~job.checks
    => Aligned + SliceLen < Modulus

\* The bytes of a slice are the same.
LEMMA SameSliceBytes ==
    ASSUME VmInv, HeldInv, ClosedStreams, SlicesFit, Executes("slice")
    PROVE  Whole!SliceBytes = SliceBytes
<1> DEFINE size == AtMost(SliceLen, WordBits \div ByteBits)
           end  == Aligned + size
<1>1. /\ Whole!Aligned = Aligned /\ Whole!SliceLen = SliceLen /\ Whole!Modulus = Modulus
  BY Executed, SameCursor, SameReads, SameWords DEF Executes
<1>2. Whole!SliceBytes =
         SubSeq(input \o flow, Aligned + 1, AtMost(end, Len(input \o flow)))
            \o SubSeq(input \o flow, 1, AtMost(end - Modulus, Len(input \o flow)))
  BY <1>1 DEF Whole!SliceBytes, Whole!AtMost, AtMost
<1>3. CASE ~job.stream
  BY <1>2, <1>3, SameCursor, Arrived DEF SliceBytes
<1>4. CASE job.stream
  <2>1. PICK A \in Nat, N \in Nat : A = Aligned /\ N = Len(input) /\ N < Modulus
    BY CursorFacts DEF VmInv
  <2>2. PICK s \in Nat : s = SliceLen /\ s < Modulus
    BY SliceFacts, WrapType DEF VmInv
  <2>3. /\ status = "run" /\ ip < Len(Program) /\ Instr.op = "slice" /\ ~Faults /\ ~Short
        /\ Instr.len # OpenLen
    BY <1>4, SameReads DEF Executes
  <2>4. A + s < Modulus
    BY <1>4, <2>1, <2>2, <2>3, WrapType DEF SlicesFit, Faults
  <2>5. A + s <= N
    <3>1. Wrap(A + s) = A + s
      BY <2>4, WrapType
    <3> QED
      BY <2>1, <2>2, <2>3, <3>1 DEF Short
  <2>6. size \in Nat /\ size <= s
    BY <2>2, Widths DEF AtMost
  <2> HIDE DEF size
  <2>7. end \in Nat /\ end <= N /\ end - Modulus <= 0 /\ end - Modulus \in Int
    <3>1. end = A + size /\ Modulus \in Nat
      BY <2>1, WrapType
    <3> HIDE DEF end
    <3> QED
      BY <2>1, <2>2, <2>4, <2>5, <2>6, <3>1
  <2> HIDE DEF end
  <2>8. PICK M \in Nat : M = Len(input \o flow) /\ N <= M
    BY <2>1, Arrived
  <2>9. /\ AtMost(end, M) = end /\ AtMost(end, N) = end
        /\ AtMost(end - Modulus, M) = end - Modulus /\ AtMost(end - Modulus, N) = end - Modulus
    BY <2>1, <2>7, <2>8 DEF AtMost
  <2>10. /\ SubSeq(input \o flow, A + 1, end) = SubSeq(input, A + 1, end)
         /\ SubSeq(input \o flow, 1, end - Modulus) = SubSeq(input, 1, end - Modulus)
    <3>1. A + 1 \in Nat \ {0} /\ end \in Int /\ end <= Len(input) /\ end - Modulus <= Len(input)
      BY <2>1, <2>7
    <3> QED
      BY <2>7, <3>1, Arrived
  <2>11. SliceBytes = SubSeq(input, A + 1, end) \o SubSeq(input, 1, end - Modulus)
    BY <2>1, <2>9 DEF SliceBytes, end, size
  <2> QED
    BY <1>2, <2>1, <2>8, <2>9, <2>10, <2>11
<1> QED
  BY <1>3, <1>4

\* A slice has the same value and ends at the same byte.
LEMMA SameReadSlice ==
    ASSUME VmInv, HeldInv, ClosedStreams, SlicesFit, ReadSlice,
           held' = NotHeld, retries' = retries
    PROVE  Whole!ReadSlice
<1>1. /\ Executes("slice") /\ Continue /\ loops' = loops /\ emitted' = emitted /\ rests' = rests
      /\ WriteSlot(Instr.slot, BigEndian(SliceBytes))
      /\ Cursor(Wrap(Aligned + SliceLen), 0)
  BY DEF ReadSlice
<1>2. /\ Whole!Executes("slice") /\ Whole!Continue /\ Whole!Instr = Instr
      /\ Whole!Aligned = Aligned /\ Whole!SliceLen = SliceLen
      /\ Whole!SliceBytes = SliceBytes
  BY <1>1, SameExecution, SameMoves, SameCursor, SameReads, SameSliceBytes DEF Executes
<1>3. Whole!WriteSlot(Instr.slot, Whole!BigEndian(SliceBytes))
  BY <1>1, SameMoves, SameWords
<1>4. Whole!Cursor(Whole!Wrap(Aligned + SliceLen), 0)
  BY <1>1, SameMoves, SameWords
<1> QED
  BY <1>1, <1>2, <1>3, <1>4 DEF Whole!ReadSlice

\* The bits of the whole flow after the cursor are counted by a number.
LEMMA WholeRemaining ==
    ASSUME VmInv, HeldInv
    PROVE  Whole!BitsRemaining \in Int
<1>1. /\ WPos \in Nat /\ WBit \in Nat /\ Len(input \o flow) \in Nat /\ ByteBits \in Nat
  BY SameCursor, Arrived, Widths
<1>2. (Len(input \o flow) - WPos) * ByteBits - WBit \in Int
  BY <1>1
<1> QED
  BY <1>2 DEF Whole!BitsRemaining, WPos, WBit

\* A bit field has the same bits.
LEMMA SameReadBits ==
    ASSUME VmInv, HeldInv, ClosedStreams, ReadBits, held' = NotHeld, retries' = retries
    PROVE  Whole!ReadBits
<1> DEFINE q      == pos * ByteBits + bit
           n      == AtMost(Instr.n, BitsRemaining)
           wn     == AtMost(Instr.n, Whole!BitsRemaining)
           digits == [i \in 1..n |-> InputBit(q + i - 1)]
           wdigits == [i \in 1..wn |-> Whole!InputBit(q + i - 1)]
<1>1. /\ Executes("bits") /\ Continue /\ loops' = loops /\ emitted' = emitted /\ rests' = rests
      /\ WriteSlot(Instr.slot, Number(digits, 2))
      /\ BitCursor(q + n)
  BY DEF ReadBits
<1>2. /\ Whole!Executes("bits") /\ Whole!Continue /\ Whole!Instr = Instr
      /\ WPos = pos /\ WBit = bit
  BY <1>1, SameExecution, SameMoves, SameCursor
<1>3. Instr.n \in Nat /\ BitsRemaining \in Nat /\ Instr.op = "bits" /\ ip < Len(Program)
  BY <1>1, Executed, CursorFacts DEF WellFormed, VmInv, Executes
<1>4. CASE ~job.stream
  <2>1. input \o flow = input
    BY <1>4, SameCursor, Arrived
  <2>2. Whole!BitsRemaining = BitsRemaining
    BY <1>2, <2>1 DEF Whole!BitsRemaining, BitsRemaining, WPos, WBit
  <2>3. \A k : Whole!InputBit(k) = InputBit(k)
    BY <2>1, SameWords DEF Whole!InputBit, InputBit
  <2>4. wn = n /\ wdigits = digits
    BY <2>2, <2>3
  <2> HIDE DEF n, wn, digits, wdigits
  <2>5. Whole!WriteSlot(Instr.slot, Whole!Number(wdigits, 2))
    BY <1>1, <2>4, SameMoves, SameWords
  <2>6. Whole!BitCursor(q + wn)
    BY <1>1, <2>4, SameMoves DEF BitCursor, Whole!BitCursor
  <2> QED
    BY <1>1, <1>2, <2>5, <2>6
       DEF Whole!ReadBits, Whole!AtMost, AtMost, WPos, WBit, wn, wdigits, q
<1>5. CASE job.stream
  <2>1. n = Instr.n
    BY <1>1, <1>3, <1>5, Executed DEF Short, AtMost
  <2>2. wn = Instr.n
    <3>1. ~Whole!Short
      BY <1>1, <1>3, <1>5, SameShort, Executed
    <3>2. ~(Whole!BitsRemaining < Instr.n)
      BY <1>2, <1>3, <3>1 DEF Whole!Short
    <3> QED
      BY <1>3, <3>2, WholeRemaining DEF AtMost
  <2>3. ASSUME NEW i \in 1..n PROVE Whole!InputBit(q + i - 1) = InputBit(q + i - 1)
    <3>1. PICK B \in Nat \ {0}, N \in Nat : B = ByteBits /\ N = Len(input)
      BY Widths, Arrived
    <3>2. /\ pos \in Nat /\ bit \in Nat /\ pos <= N
          /\ BitsRemaining = N * B - (pos * B + bit)
      BY <1>5, <3>1, CursorFacts DEF VmInv, CursorOK
    <3>3. n <= BitsRemaining /\ n \in Nat
      BY <1>3 DEF AtMost
    <3>4. pos * B \in Nat /\ N * B \in Nat /\ q = pos * B + bit
      BY <3>1, <3>2
    <3> DEFINE k == q + i - 1
    <3>5. k \in Nat /\ k < N * B
      <4> HIDE DEF q, n
      <4> QED
        BY <2>3, <3>2, <3>3, <3>4
    <3> HIDE DEF q, n, k
    <3>6. PICK d \in Nat : d = k \div B /\ d < N
      BY <3>1, <3>5, BitPlace
    <3>7. (input \o flow)[d + 1] = input[d + 1]
      <4>1. d + 1 \in 1..Len(input)
        BY <3>1, <3>6
      <4> QED
        BY <4>1, Arrived
    <3>8. Whole!InputBit(k) = InputBit(k)
      BY <3>1, <3>6, <3>7, SameWords DEF Whole!InputBit, InputBit
    <3> QED
      BY <3>8 DEF k
  <2>4. wdigits = digits
    <3>1. wn = n
      BY <2>1, <2>2
    <3> HIDE DEF wn, n, q
    <3> QED
      BY <2>3, <3>1
  <2>5. wn = n
    BY <2>1, <2>2
  <2> HIDE DEF n, wn, digits, wdigits
  <2>6. Whole!WriteSlot(Instr.slot, Whole!Number(wdigits, 2))
    BY <1>1, <2>4, SameMoves, SameWords
  <2>7. Whole!BitCursor(q + wn)
    BY <1>1, <2>5, SameMoves DEF BitCursor, Whole!BitCursor
  <2> QED
    BY <1>1, <1>2, <2>6, <2>7
       DEF Whole!ReadBits, Whole!AtMost, AtMost, WPos, WBit, wn, wdigits, q
<1> QED
  BY <1>4, <1>5

\* What the other instructions find and leave is the same in both parses.
LEMMA SameState ==
    ASSUME VmInv, HeldInv, ClosedStreams, NEW op, Executes(op), op \notin {"read", "slice"},
           held' = NotHeld, retries' = retries
    PROVE  /\ WPos = pos /\ WBit = bit /\ WPos' = pos' /\ WBit' = bit'
           /\ UNCHANGED <<pos, bit>> => UNCHANGED <<WPos, WBit>>
           /\ UNCHANGED machine => UNCHANGED Whole!machine
<1>1. WPos' = pos' /\ WBit' = bit' /\ Instr.op = op /\ flow' = flow /\ input' = input
  BY SameExecution DEF Executes
<1>2. WPos = pos /\ WBit = bit
  BY <1>1, SameCursor
<1> QED
  BY <1>1, <1>2 DEF machine, Whole!machine, WPos, WBit

\* A datagram's rest is the same; a stream has none.
LEMMA SameReadRest ==
    ASSUME VmInv, HeldInv, ClosedStreams, ReadRest, held' = NotHeld, retries' = retries
    PROVE  Whole!ReadRest
<1>1. /\ Executes("rest") /\ Continue /\ loops' = loops /\ emitted' = emitted
      /\ WriteSlot(Instr.slot, Minus(Len(input), Aligned))
      /\ rests' = Append(rests, <<Instr.name, Aligned>>)
      /\ Cursor(Len(input), 0)
  BY DEF ReadRest
<1>2. /\ Whole!Executes("rest") /\ Whole!Continue /\ Whole!Instr = Instr
      /\ Whole!Aligned = Aligned /\ Instr.op = "rest" /\ ip < Len(Program)
  BY <1>1, SameExecution, SameMoves, SameCursor DEF Executes
<1>3. input \o flow = input
  BY <1>2, SameReads, SameCursor, Arrived
<1>4. Whole!WriteSlot(Instr.slot, Whole!Minus(Len(input), Aligned))
  BY <1>1, SameMoves DEF Minus, Whole!Minus, AtLeast, Whole!AtLeast
<1>5. Whole!Cursor(Len(input), 0)
  BY <1>1, SameMoves
<1> QED
  BY <1>1, <1>2, <1>3, <1>4, <1>5 DEF Whole!ReadRest

\* A validation has the same verdict.
LEMMA SameValidate ==
    ASSUME VmInv, HeldInv, ClosedStreams, Validate, held' = NotHeld, retries' = retries
    PROVE  Whole!Validate
<1>1. /\ Executes("validate") /\ UNCHANGED machine
      /\ IF slots[Instr.slot] = 0 THEN status' = "constraint" /\ ip' = ip ELSE Continue
  BY DEF Validate
<1>2. /\ Whole!Executes("validate") /\ (Continue => Whole!Continue) /\ Whole!Instr = Instr
      /\ UNCHANGED Whole!machine /\ held'.on = FALSE
  BY <1>1, SameExecution, SameMoves, SameState DEF NotHeld
<1>3. status' = "constraint" => WStatus' = "constraint"
  BY <1>2 DEF WStatus
<1> QED
  BY <1>1, <1>2, <1>3 DEF Whole!Validate, WStatus

\* A field is emitted with the same value.
LEMMA SameEmitField ==
    ASSUME VmInv, HeldInv, ClosedStreams, EmitField, held' = NotHeld, retries' = retries
    PROVE  Whole!EmitField
<1>1. /\ Executes("emit") /\ Continue /\ UNCHANGED <<slots, touched, pos, bit, loops, rests>>
      /\ emitted' = Append(emitted, <<Instr.name, slots[Instr.slot]>>)
  BY DEF EmitField
<1>2. /\ Whole!Executes("emit") /\ Whole!Continue /\ Whole!Instr = Instr
      /\ UNCHANGED <<WPos, WBit>>
  BY <1>1, SameExecution, SameMoves, SameState
<1> QED
  BY <1>1, <1>2 DEF Whole!EmitField, WPos, WBit

\* A computation has the same result.
LEMMA SameCompute ==
    ASSUME VmInv, HeldInv, ClosedStreams, Compute, held' = NotHeld, retries' = retries
    PROVE  Whole!Compute
<1>1. PICK op \in {"const", "copy", "un", "bin", "offset"} : Executes(op)
  BY DEF Compute
<1>2. /\ WriteSlot(Instr.slot, Result) /\ Continue /\ UNCHANGED <<pos, bit, loops, emitted, rests>>
  BY DEF Compute
<1>3. /\ Whole!Executes(op) /\ Whole!Continue /\ Whole!Instr = Instr
      /\ UNCHANGED <<WPos, WBit>> /\ WPos = pos /\ Instr.op = op
  BY <1>1, <1>2, SameExecution, SameMoves, SameState
<1>4. Whole!Result = Result
  BY <1>1, <1>3, SameWords DEF Whole!Result, Result, WPos
<1>5. Whole!WriteSlot(Instr.slot, Result)
  BY <1>1, <1>2, SameMoves
<1> QED
  BY <1>2, <1>3, <1>4, <1>5 DEF Whole!Compute, WPos, WBit

\* A jump goes to the same place.
LEMMA SameJump ==
    ASSUME VmInv, HeldInv, ClosedStreams, Jump, held' = NotHeld, retries' = retries
    PROVE  Whole!Jump
<1>1. Executes("jump") /\ ip' = Instr.to /\ status' = status /\ UNCHANGED machine
  BY DEF Jump
<1>2. /\ Whole!Executes("jump") /\ Whole!Instr = Instr /\ UNCHANGED Whole!machine
      /\ status = "run" /\ WStatus = "run"
  BY <1>1, SameExecution, SameState, Executed
<1>3. WStatus' = "run"
  BY <1>1, <1>2 DEF WStatus
<1> QED
  BY <1>1, <1>2, <1>3 DEF Whole!Jump, WStatus

\* A conditional jump goes to the same place, and exceeds the iterations with the whole.
LEMMA SameJumpIfZero ==
    ASSUME VmInv, HeldInv, ClosedStreams, JumpIfZero, held' = NotHeld, retries' = retries
    PROVE  Whole!JumpIfZero
<1> DEFINE taken == slots[Instr.slot] = 0
           back  == taken /\ Instr.to < ip
<1>1. /\ Executes("jz") /\ UNCHANGED <<slots, touched, pos, bit, emitted, rests>>
      /\ loops' = IF back THEN loops + 1 ELSE loops
      /\ IF back /\ loops + 1 > MaxLoopIterations
         THEN status' = "limit" /\ ip' = ip
         ELSE ip' = (IF taken THEN Instr.to ELSE ip + 1) /\ status' = status
  BY DEF JumpIfZero
<1>2. /\ Whole!Executes("jz") /\ Whole!Instr = Instr /\ UNCHANGED <<WPos, WBit>>
      /\ status = "run" /\ WStatus = "run" /\ held'.on = FALSE
  BY <1>1, SameExecution, SameState, Executed DEF NotHeld
<1>3. loops \in Nat /\ MaxLoopIterations \in Nat
  BY LimitsAssumption DEF VmInv, ControlOK
<1>4. CASE back /\ loops + 1 > MaxLoopIterations
  <2>1. WStatus' = "limit"
    BY <1>1, <1>2, <1>3, <1>4 DEF WStatus
  <2> QED
    BY <1>1, <1>2, <1>4, <2>1 DEF Whole!JumpIfZero, WStatus, WPos, WBit
<1>5. CASE ~(back /\ loops + 1 > MaxLoopIterations)
  <2>1. WStatus' = "run"
    BY <1>1, <1>2, <1>5 DEF WStatus
  <2> QED
    BY <1>1, <1>2, <1>5, <2>1 DEF Whole!JumpIfZero, WStatus, WPos, WBit
<1> QED
  BY <1>4, <1>5

\* Pieces can be put together in any order of joining.
LEMMA Associative ==
    ASSUME NEW S, NEW a \in Seq(S), NEW b \in Seq(S), NEW c \in Seq(S)
    PROVE  (a \o b) \o c = a \o (b \o c)
OBVIOUS

\* A program that returns, falls off its end or panics does so for the whole flow.
LEMMA SameEndings ==
    ASSUME VmInv, HeldInv, ClosedStreams, Return \/ FallOffEnd \/ Panic,
           held' = NotHeld, retries' = retries
    PROVE  Whole!Return \/ Whole!FallOffEnd \/ Whole!Panic
<1>1. held'.on = FALSE
  BY DEF NotHeld
<1>2. CASE Return
  <2>1. Executes("ret") /\ status' = "done" /\ UNCHANGED <<ip, machine>>
    BY <1>2 DEF Return
  <2>2. Whole!Executes("ret") /\ UNCHANGED Whole!machine
    BY <2>1, SameExecution, SameState
  <2>3. WStatus' = "done"
    BY <1>1, <2>1 DEF WStatus
  <2> QED
    BY <2>1, <2>2, <2>3 DEF Whole!Return, WStatus
<1>3. CASE FallOffEnd
  <2>1. /\ status = "run" /\ ip >= Len(Program) /\ status' = "done"
        /\ UNCHANGED <<job, flow, machine, ip, executed, need>>
    BY <1>3 DEF FallOffEnd
  <2>2. ~held.on
    <3>1. Len(Program) \in Nat /\ ip \in Nat
      BY JobAssumption DEF VmInv, InputOK, ControlOK, Program
    <3> QED
      BY <2>1, <3>1 DEF HeldInv, HeldRead
  <2>3. WStatus = "run" /\ WStatus' = "done" /\ UNCHANGED Whole!machine /\ Whole!Program = Program
    BY <1>1, <2>1, <2>2, SameCursor DEF WStatus, machine, Whole!machine
  <2> QED
    BY <1>1, <2>1, <2>2, <2>3 DEF Whole!FallOffEnd, WStatus
<1>4. CASE Panic
  <2>1. /\ status = "run" /\ ip < Len(Program) /\ executed <= MaxInstructions /\ Faults
        /\ executed' = executed + 1 /\ status' = "panic"
        /\ UNCHANGED <<job, flow, machine, ip, need>>
    BY <1>4 DEF Panic, InBudget, Charge
  <2>2. ~held.on
    BY <2>1 DEF HeldInv, HeldRead
  <2>3. executed - retries <= MaxInstructions /\ executed' - retries' = executed - retries + 1
    BY <2>1, LimitsAssumption DEF HeldInv, HeldTyped, VmInv, ControlOK
  <2>4. Whole!InBudget /\ Whole!Charge
    BY <2>3 DEF Whole!InBudget, Whole!Charge
  <2>5. /\ WStatus = "run" /\ WStatus' = "panic" /\ UNCHANGED Whole!machine
        /\ Whole!Program = Program /\ Whole!Faults
    BY <1>1, <2>1, <2>2, SameCursor, SameReads DEF WStatus, machine, Whole!machine
  <2> QED
    BY <1>1, <2>1, <2>2, <2>4, <2>5 DEF Whole!Panic, WStatus
<1> QED
  BY <1>2, <1>3, <1>4

\* Every step of the interpreter is one of the parse of the whole flow.
LEMMA SameStep ==
    ASSUME VmInv, HeldInv, ClosedStreams, SlicesFit, RStep
    PROVE  Whole!Step
<1>1. Step /\ held' = NotHeld /\ retries' = retries
  BY DEF RStep
<1>2. CASE ReadInt \/ ReadSlice \/ ReadBits \/ ReadRest
  BY <1>1, <1>2, SameReadInt, SameReadSlice, SameReadBits, SameReadRest DEF Whole!Step
<1>3. CASE Validate \/ EmitField \/ Compute \/ Jump \/ JumpIfZero
  BY <1>1, <1>3, SameValidate, SameEmitField, SameCompute, SameJump, SameJumpIfZero
     DEF Whole!Step
<1>4. CASE Return \/ FallOffEnd \/ Panic
  BY <1>1, <1>4, SameEndings DEF Whole!Step
<1> QED
  BY <1>1, <1>2, <1>3, <1>4 DEF Step

\* A read that lacks bytes which are still to come is not a step of the whole.
LEMMA WaitIsStutter ==
    ASSUME VmInv, HeldInv, RSuspend, flow # <<>>
    PROVE  UNCHANGED Whole!vmvars
<1>1. /\ held' = IF held.on THEN held ELSE [on |-> TRUE, pos |-> pos, bit |-> bit]
      /\ retries' = retries + 1 /\ Suspend
  BY DEF RSuspend
<1>2. /\ status = "run" /\ status' = "need" /\ executed' = executed + 1
      /\ UNCHANGED <<job, flow, slots, touched, input, loops, emitted, rests, ip>>
      /\ need = 0
  BY <1>1 DEF Suspend, Charge, VmInv, ControlOK
<1>3. held'.on = TRUE /\ UNCHANGED <<WPos, WBit>>
  <2>1. held.on = TRUE \/ held.on = FALSE
    BY DEF HeldInv, HeldTyped
  <2>2. CASE held.on = TRUE
    BY <1>1, <2>2 DEF WPos, WBit
  <2>3. CASE held.on = FALSE
    <3>1. held' = [on |-> TRUE, pos |-> pos, bit |-> bit]
      BY <1>1, <2>3
    <3> QED
      BY <2>3, <3>1 DEF WPos, WBit
  <2> QED
    BY <2>1, <2>2, <2>3
<1>4. executed' - retries' = executed - retries
  BY <1>1, <1>2, LimitsAssumption DEF HeldInv, HeldTyped, VmInv, ControlOK
<1>5. WStatus = "run" /\ WStatus' = "run"
  BY <1>2, <1>3 DEF WStatus
<1> QED
  BY <1>2, <1>3, <1>4, <1>5 DEF Whole!vmvars, Whole!machine, WPos, WBit, WStatus

\* The caller's next piece is not a step of the whole.
LEMMA ResumeIsStutter ==
    ASSUME VmInv, HeldInv, Resume, UNCHANGED <<held, retries>>
    PROVE  UNCHANGED Whole!vmvars
<1>1. PICK k \in 1..Len(flow) : /\ input' = input \o SubSeq(flow, 1, k)
                                /\ flow' = SubSeq(flow, k + 1, Len(flow))
  BY DEF Resume
<1>2. /\ status = "need" /\ status' = "run" /\ need' = 0 /\ flow # <<>>
      /\ UNCHANGED <<job, slots, touched, pos, bit, loops, emitted, rests, ip, executed>>
  BY DEF Resume
<1>3. held.on /\ held'.on
  BY <1>2 DEF HeldInv
<1>4. input' \o flow' = input \o flow
  <2> DEFINE a == SubSeq(flow, 1, k)
             b == SubSeq(flow, k + 1, Len(flow))
  <2>1. input \in Seq(Bytes) /\ flow \in Seq(Bytes)
    BY DEF VmInv, InputOK
  <2>2. a \in Seq(Bytes) /\ b \in Seq(Bytes) /\ flow = a \o b
    BY <2>1, Pieces
  <2>3. input' = input \o a /\ flow' = b
    BY <1>1
  <2> HIDE DEF a, b
  <2>4. (input \o a) \o b = input \o (a \o b)
    BY <2>1, <2>2, Associative
  <2> QED
    BY <2>2, <2>3, <2>4
<1>5. WStatus = "run" /\ WStatus' = "run"
  BY <1>2, <1>3 DEF WStatus
<1> QED
  BY <1>2, <1>3, <1>4, <1>5 DEF Whole!vmvars, Whole!machine, WStatus

\* A read that lacks bytes which never come suspends the whole parse as well.
LEMMA SameSuspend ==
    ASSUME VmInv, HeldInv, ClosedStreams, RSuspend, flow = <<>>
    PROVE  Whole!Suspend
<1>1. Suspend /\ held'.on = FALSE /\ retries' = retries
  BY DEF RSuspend, NotHeld
<1>2. /\ status = "run" /\ ip < Len(Program) /\ executed <= MaxInstructions
      /\ ~Faults /\ job.stream /\ Short /\ executed' = executed + 1
      /\ status' = "need" /\ need' = MissingBytes /\ SuspendedCursor
      /\ UNCHANGED <<job, flow, slots, touched, input, loops, emitted, rests, ip>>
  BY <1>1 DEF Suspend, InBudget, Charge
<1>3. /\ input \o flow = input /\ Whole!Program = Program /\ Whole!Instr = Instr
      /\ Whole!Aligned = Aligned /\ ~Whole!Faults
      /\ Instr.op = "slice" => Whole!SliceLen = SliceLen
      /\ Instr.op \in {"read", "slice", "bits"}
  BY <1>2, Arrived, SameCursor, SameReads, Lacking
<1>4. Instr.op = "bits" => WPos = pos /\ WBit = bit /\ Whole!BitsRemaining = BitsRemaining
  BY <1>3, SameCursor DEF Whole!BitsRemaining, BitsRemaining, WPos, WBit
<1>5. Whole!Short
  BY <1>2, <1>3, <1>4, SameWords DEF Whole!Short, Short, Whole!OpenLen, OpenLen
<1>6. Whole!MissingBytes = MissingBytes
  BY <1>3, <1>4 DEF Whole!MissingBytes, MissingBytes, Whole!Minus, Minus, Whole!AtLeast, AtLeast
<1>7. executed - retries <= MaxInstructions /\ executed' - retries' = executed - retries + 1
  BY <1>1, <1>2, LimitsAssumption DEF HeldInv, HeldTyped, VmInv, ControlOK
<1>8. Whole!InBudget /\ Whole!Charge
  BY <1>7 DEF Whole!InBudget, Whole!Charge
<1>9. WPos' = pos' /\ WBit' = bit' /\ WStatus = "run" /\ WStatus' = "need"
  BY <1>1, <1>2 DEF WPos, WBit, WStatus
<1>10. Whole!SuspendedCursor
  BY <1>2, <1>3, <1>4, <1>9
     DEF Whole!SuspendedCursor, SuspendedCursor, Whole!Cursor, Cursor, WPos, WBit
<1> QED
  BY <1>1, <1>2, <1>3, <1>5, <1>6, <1>8, <1>9, <1>10 DEF Whole!Suspend, WStatus

\* The instruction budget ends the whole parse too, unless reads in vain have used it up.
LEMMA SameBudget ==
    ASSUME VmInv, HeldInv, OutOfBudget, UNCHANGED <<held, retries>>
    PROVE  Whole!OutOfBudget \/ UNCHANGED Whole!vmvars
<1>1. /\ status = "run" /\ ip < Len(Program) /\ executed > MaxInstructions
      /\ status' = "limit" /\ UNCHANGED <<job, flow, machine, ip, executed, need>>
      /\ need = 0 /\ loops <= MaxLoopIterations
  BY LimitsAssumption DEF OutOfBudget, InBudget, VmInv, ControlOK
<1>2. /\ UNCHANGED <<WPos, WBit>> /\ UNCHANGED Whole!machine /\ loops' = loops
      /\ WStatus = "run" /\ Whole!Program = Program /\ retries \in Nat
  BY <1>1, SameCursor
     DEF machine, Whole!machine, WPos, WBit, WStatus, HeldInv, HeldTyped
<1>3. CASE retries = 0
  <2>1. ~held.on /\ ~held'.on
    BY <1>3 DEF HeldInv, HeldRead
  <2>2. WStatus' = "limit"
    BY <1>1, <1>3, <2>1 DEF WStatus
  <2>3. ~Whole!InBudget
    BY <1>1, <1>3, LimitsAssumption DEF Whole!InBudget, VmInv, ControlOK
  <2> QED
    BY <1>1, <1>2, <2>1, <2>2, <2>3 DEF Whole!OutOfBudget, WStatus
<1>4. CASE retries > 0
  <2>1. WStatus' = "run"
    BY <1>1, <1>2, <1>4 DEF WStatus
  <2> QED
    BY <1>1, <1>2, <2>1 DEF Whole!vmvars, WStatus, machine, Whole!machine
<1> QED
  BY <1>2, <1>3, <1>4

\* The parse of the whole flow starts with all of it.
LEMMA SameStart == RInit => Whole!Init
<1> SUFFICES ASSUME RInit PROVE Whole!Init
  OBVIOUS
<1>1. held.on = FALSE /\ retries = 0 /\ Init
  BY DEF RInit, NotHeld
<1>2. PICK d \in Flows[job.prog] : \E k \in 0..Len(d) :
         input = SubSeq(d, 1, k) /\ flow = SubSeq(d, k + 1, Len(d))
  BY <1>1 DEF Init
<1>3. PICK k \in 0..Len(d) : input = SubSeq(d, 1, k) /\ flow = SubSeq(d, k + 1, Len(d))
  BY <1>2
<1>4. d \in Seq(Bytes) /\ job \in Jobs
  BY <1>1, <1>2, JobAssumption DEF Init
<1>5. input \o flow = d
  <2>1. Len(d) \in Nat
    BY <1>4
  <2>2. CASE k = 0
    BY <1>3, <1>4, <2>2
  <2>3. CASE k \in 1..Len(d)
    BY <1>3, <1>4, <2>3, Pieces
  <2> QED
    BY <2>1, <2>2, <2>3
<1>6. /\ Len(d) \in 0..Len(d) /\ SubSeq(d, 1, Len(d)) = d
      /\ SubSeq(d, Len(d) + 1, Len(d)) = <<>>
  BY <1>4
<1>7. /\ WPos = 0 /\ WBit = 0 /\ WStatus = "run" /\ executed - retries = 0
      /\ (IF held.on THEN 0 ELSE need) = 0
      /\ slots = [s \in Slots |-> 0] /\ touched = {} /\ loops = 0 /\ emitted = <<>>
      /\ rests = <<>> /\ ip = 0
  BY <1>1 DEF Init, WPos, WBit, WStatus
<1>8. \E e \in Flows[job.prog] : \E j \in 0..Len(e) :
         /\ ~job.stream => j = Len(e)
         /\ input \o flow = SubSeq(e, 1, j) /\ <<>> = SubSeq(e, j + 1, Len(e))
  BY <1>2, <1>5, <1>6
<1> QED
  BY <1>4, <1>7, <1>8 DEF Whole!Init, WPos, WBit, WStatus

\* Every step of the parse in pieces is a step of the parse of the whole, or none.
LEMMA StepOfWhole ==
    ClosedStreams /\ VmInv /\ HeldInv /\ SlicesFit /\ [RNext]_vars => [Whole!Next]_Whole!vmvars
<1> SUFFICES ASSUME ClosedStreams, VmInv, HeldInv, SlicesFit, [RNext]_vars
             PROVE  [Whole!Next]_Whole!vmvars
  OBVIOUS
<1>1. CASE RStep
  BY <1>1, SameStep DEF Whole!Next
<1>2. CASE RSuspend /\ flow # <<>>
  BY <1>2, WaitIsStutter
<1>3. CASE RSuspend /\ flow = <<>>
  BY <1>3, SameSuspend DEF Whole!Next
<1>4. CASE OutOfBudget /\ UNCHANGED <<held, retries>>
  BY <1>4, SameBudget DEF Whole!Next
<1>5. CASE Resume /\ UNCHANGED <<held, retries>>
  BY <1>5, ResumeIsStutter
<1>6. CASE UNCHANGED vars
  <2>1. UNCHANGED <<job, flow, slots, touched, input, pos, bit, loops, emitted, rests, ip,
                    executed, status, need, held, retries>>
    BY <1>6 DEF vars, vmvars, machine
  <2> QED
    BY <2>1 DEF Whole!vmvars, Whole!machine
<1> QED
  BY <1>1, <1>2, <1>3, <1>4, <1>5, <1>6 DEF RNext, RRest

\* Resume-equivalence (docs/spec/08, section 5.4): however a flow is cut into pieces,
\* run_stream and resume take the steps of one run over the whole flow, and so end with
\* its fields, offsets and verdict.  A stream's program declares the lengths it reads,
\* and in a build without overflow checks no slice's end wraps.
THEOREM PiecesParseAsWhole ==
    ASSUME ClosedStreams
    PROVE  RSpec /\ []SlicesFit => ResumeEquivalent
<1>1. RInit => Whole!Init /\ HeldInv
  BY SameStart, InitHeld
<1>2. VmInv /\ HeldInv /\ [RNext]_vars => HeldInv'
  BY HeldInductive
<1>3. VmInv /\ HeldInv /\ SlicesFit /\ [RNext]_vars => [Whole!Next]_Whole!vmvars
  BY StepOfWhole
<1> QED
  BY <1>1, <1>2, <1>3, ResumeInvariant, PTL DEF RSpec, ResumeEquivalent, Whole!Spec
=============================================================================
