------------------------------ MODULE BytecodeVm ------------------------------
(***************************************************************************)
(* The N-FDL bytecode interpreter: BytecodeVm::run, run_stream and resume  *)
(* over one flow, whose bytes reach the machine in pieces.                 *)
(*                                                                         *)
(* Source: crates/nfdl-bytecode/src/lib.rs.                                *)
(*                                                                         *)
(* Abstractions.                                                           *)
(*  - A byte has ByteBits bits (8 in the code) and a word WordBits (64);   *)
(*    words and usize wrap at the same width.                              *)
(*  - The two build profiles differ in what arithmetic overflow does: it   *)
(*    panics with overflow checks and wraps without them.                  *)
(*  - Field names and messages are labels.                                 *)
(***************************************************************************)
EXTENDS Integers, Sequences

CONSTANTS
    Jobs,               \* what may be run: [prog, code, stream, checks]
    Flows,              \* the byte sequences a program's flow may carry
    Labels,             \* names of fields
    Slots,              \* slot numbers (a prefix of Nat)
    ByteBits, WordBits,
    SliceCap,           \* how much a slice of unknown length takes (16)
    MaxInstructions, MaxLoopIterations    \* Limits

AtLeast(a, b) == IF a < b THEN b ELSE a
AtMost(a, b)  == IF a < b THEN a ELSE b

\* The powers of two that a word or a byte needs.
Pow[n \in 0..AtLeast(ByteBits, WordBits)] == IF n = 0 THEN 1 ELSE 2 * Pow[n - 1]

Modulus == Pow[WordBits]
Bytes   == 0..(Pow[ByteBits] - 1)
Words   == 0..(Modulus - 1)
OpenLen == -1           \* len_slot = u16::MAX

UnOps  == {"Not", "BitNot", "Neg"}
BinOps == {"Add", "Sub", "Mul", "Div", "Mod", "Eq", "Ne", "Gt", "Lt", "Ge", "Le", "And",
           "Or", "BitAnd", "BitOr", "BitXor", "Shl", "Shr"}

\* What the compiler makes: a slot that is read exists, a jump stays in the program.
\* The slot that a result or a length names need not exist.
WellFormed(i, code) ==
    /\ i.op \in {"read", "slice", "bits", "rest", "validate", "emit", "const", "copy", "un",
                "bin", "offset", "jump", "jz", "ret"}
    /\ i.op = "read" => i.n \in Nat \ {0} /\ i.le \in BOOLEAN
    /\ i.op = "bits" => i.n \in Nat
    /\ i.op \in {"rest", "emit"} => i.name \in Labels
    /\ i.op \in {"validate", "emit", "jz"} => i.slot \in Slots
    /\ i.op = "const" => i.v \in Words
    /\ i.op \in {"copy", "un"} => i.src \in Slots
    /\ i.op = "un" => i.fn \in UnOps
    /\ i.op = "bin" => i.fn \in BinOps /\ i.l \in Slots /\ i.r \in Slots
    /\ i.op \in {"jump", "jz"} => i.to \in 0..Len(code)

ASSUME WidthAssumption == ByteBits \in Nat \ {0} /\ WordBits \in Nat \ {0}
ASSUME LimitsAssumption ==
    MaxInstructions \in Nat /\ MaxLoopIterations \in Nat /\ SliceCap \in Nat
ASSUME SlotsAssumption == Slots \subseteq Nat
ASSUME JobAssumption ==
    \A j \in Jobs : /\ j.stream \in BOOLEAN /\ j.checks \in BOOLEAN
                    /\ DOMAIN j.code = 1..Len(j.code) /\ Len(j.code) \in Nat
                    /\ \A i \in DOMAIN j.code : WellFormed(j.code[i], j.code)
                    /\ \A d \in Flows[j.prog] : d \in Seq(Bytes) /\ Len(d) < Modulus

VARIABLES
    job,          \* the program, its mode and the build, fixed for the run
    flow,         \* bytes of the flow the caller has not handed over yet
    slots, touched, input, pos, bit, loops, emitted, rests,    \* BytecodeVm
    ip, executed,
    status,       \* "run", "need" (suspended), or how the run ended
    need          \* VmContinuation::bytes_needed

machine == <<slots, touched, input, pos, bit, loops, emitted, rests>>
vmvars  == <<job, flow, machine, ip, executed, status, need>>

-----------------------------------------------------------------------------
(* Words *)

Wrap(n) == n % Modulus
Flag(b) == IF b THEN 1 ELSE 0
Minus(a, b)   == AtLeast(0, a - b)                  \* saturating_sub

\* The word with these digits, the most significant first.
Number(digits, base) ==
    LET f[i \in 0..Len(digits)] ==
            IF i = 0 THEN 0 ELSE Wrap(f[i - 1] * base + digits[i])
    IN f[Len(digits)]

BigEndian(b)    == Number(b, Pow[ByteBits])
LittleEndian(b) == BigEndian([i \in 1..Len(b) |-> b[Len(b) + 1 - i]])

BitOf(n, i) == (n \div Pow[i]) % 2

Bitwise(Op(_, _), l, r) ==
    Number([i \in 1..WordBits |-> Op(BitOf(l, WordBits - i), BitOf(r, WordBits - i))], 2)

BothBits(x, y)   == x * y
EitherBit(x, y)  == AtLeast(x, y)
OneBit(x, y)     == (x + y) % 2

BinVal(op, l, r) ==
    CASE op = "Add" -> Wrap(l + r)
      [] op = "Sub" -> Minus(l, r)
      [] op = "Mul" -> Wrap(l * r)
      [] op = "Div" -> IF r = 0 THEN 0 ELSE l \div r
      [] op = "Mod" -> IF r = 0 THEN 0 ELSE l % r
      [] op = "Eq"  -> Flag(l = r)
      [] op = "Ne"  -> Flag(l # r)
      [] op = "Gt"  -> Flag(l > r)
      [] op = "Lt"  -> Flag(l < r)
      [] op = "Ge"  -> Flag(l >= r)
      [] op = "Le"  -> Flag(l <= r)
      [] op = "And" -> Flag(l # 0 /\ r # 0)
      [] op = "Or"  -> Flag(l # 0 \/ r # 0)
      [] op = "BitAnd" -> Bitwise(BothBits, l, r)
      [] op = "BitOr"  -> Bitwise(EitherBit, l, r)
      [] op = "BitXor" -> Bitwise(OneBit, l, r)
      [] op = "Shl" -> Wrap(l * Pow[r % WordBits])
      [] op = "Shr" -> l \div Pow[r % WordBits]

\* A shift count is `r as u32`: the low half of the word.
ShiftCount(r) == r % Pow[WordBits \div 2]

\* What a build with overflow checks refuses to compute.
Traps(op, l, r) ==
    \/ op = "Add" /\ l + r >= Modulus
    \/ op = "Mul" /\ l * r >= Modulus
    \/ op \in {"Shl", "Shr"} /\ ShiftCount(r) >= WordBits

UnVal(op, v) ==
    CASE op = "Not"    -> Flag(v = 0)
      [] op = "BitNot" -> Modulus - 1 - v
      [] op = "Neg"    -> Wrap(Modulus - v)

-----------------------------------------------------------------------------
(* The cursor and what a read needs. *)

Program == job.code
Instr   == Program[ip + 1]

\* align_to_byte
Aligned == IF bit # 0 THEN pos + 1 ELSE pos

\* bits_remaining
BitsRemaining == IF pos >= Len(input) THEN 0 ELSE (Len(input) - pos) * ByteBits - bit

\* The length of a slice read: of a known slot, or what is left up to a cap.
SliceLen ==
    IF Instr.len = OpenLen THEN AtMost(Wrap(Modulus + Len(input) - Aligned), SliceCap)
    ELSE IF Instr.len \in Slots THEN slots[Instr.len] ELSE 0

\* A read of a stream that the bytes so far cannot serve.
Short ==
    \/ Instr.op = "read" /\ Aligned + Instr.n > Len(input)
    \/ /\ Instr.op = "slice" /\ Instr.len # OpenLen
       /\ Wrap(Aligned + SliceLen) > Len(input)
    \/ Instr.op = "bits" /\ BitsRemaining < Instr.n

\* slip: a partial byte is not asked for
MissingBytes_Floor ==
    CASE Instr.op = "read"  -> AtLeast(1, Instr.n - Minus(Len(input), Aligned))
      [] Instr.op = "slice" -> AtLeast(1, Minus(SliceLen, Minus(Len(input), Aligned)))
      [] Instr.op = "bits"  -> AtLeast(1, (Instr.n - BitsRemaining) \div ByteBits)

\* The hint a suspended read leaves in its continuation.
MissingBytes ==
    CASE Instr.op = "read"  -> AtLeast(1, Instr.n - Minus(Len(input), Aligned))
      [] Instr.op = "slice" -> AtLeast(1, Minus(SliceLen, Minus(Len(input), Aligned)))
      [] Instr.op = "bits"  ->
            AtLeast(1, (Instr.n - BitsRemaining + ByteBits - 1) \div ByteBits)

\* Reads and arithmetic that end in a panic instead of a result: an index range
\* whose end wrapped before its start in either build, and in a checked build
\* whatever overflows.
Faults ==
    \/ Instr.op = "read" /\ Instr.n > 1 /\ Aligned + Instr.n >= Modulus
    \/ /\ job.checks
       /\ \/ Instr.op = "bin" /\ Traps(Instr.fn, slots[Instr.l], slots[Instr.r])
          \/ Instr.op = "slice" /\ Instr.len = OpenLen /\ Aligned > Len(input)
          \/ Instr.op = "slice" /\ Aligned + SliceLen >= Modulus

-----------------------------------------------------------------------------
(* BytecodeVm::interpret, one instruction at a time. *)

InBudget == executed <= MaxInstructions

\* slip: jumps cost nothing
Charge_Jumps == executed' = IF Instr.op = "jump" THEN executed ELSE executed + 1
Charge == executed' = executed + 1

\* The next instruction is op, is paid for and has all it needs.
Executes(op) ==
    /\ status = "run" /\ ip < Len(Program) /\ InBudget
    /\ Instr.op = op
    /\ ~Faults /\ ~(job.stream /\ Short)
    /\ Charge
    /\ UNCHANGED <<job, flow, input, need>>

\* write_slot
WriteSlot(s, v) ==
    /\ slots' = IF s \in Slots THEN [slots EXCEPT ![s] = v] ELSE slots
    /\ touched' = touched \cup ({s} \cap Slots)

Continue == ip' = ip + 1 /\ UNCHANGED status

Cursor(p, b) == pos' = p /\ bit' = b

\* ReadU8 .. ReadU32; a datagram read past the end stores 0 and stays.
ReadInt ==
    /\ Executes("read")
    /\ LET p     == Aligned
           fits  == p + Instr.n <= Len(input)
           bytes == SubSeq(input, p + 1, p + Instr.n)
       IN /\ WriteSlot(Instr.slot, IF ~fits THEN 0
                                   ELSE IF Instr.le THEN LittleEndian(bytes)
                                   ELSE BigEndian(bytes))
          /\ Cursor(IF fits THEN p + Instr.n ELSE p, 0)
    /\ Continue /\ UNCHANGED <<loops, emitted, rests>>

\* The bytes of a slice that make its value: a word's worth at most, of those that
\* are there; an index that wraps finds the first bytes again.
SliceBytes ==
    LET end == Aligned + AtMost(SliceLen, WordBits \div ByteBits)
    IN SubSeq(input, Aligned + 1, AtMost(end, Len(input)))
          \o SubSeq(input, 1, AtMost(end - Modulus, Len(input)))

ReadSlice ==
    /\ Executes("slice")
    /\ WriteSlot(Instr.slot, BigEndian(SliceBytes))
    /\ Cursor(Wrap(Aligned + SliceLen), 0)
    /\ Continue /\ UNCHANGED <<loops, emitted, rests>>

\* The bits of the input are counted from the most significant of its first byte.
InputBit(i) == BitOf(input[i \div ByteBits + 1], ByteBits - 1 - (i % ByteBits))

BitCursor(q) == Cursor(q \div ByteBits, q % ByteBits)

\* Most significant bit first, across byte boundaries.
ReadBits ==
    /\ Executes("bits")
    /\ LET q == pos * ByteBits + bit
           n == AtMost(Instr.n, BitsRemaining)
       IN /\ WriteSlot(Instr.slot, Number([i \in 1..n |-> InputBit(q + i - 1)], 2))
          /\ BitCursor(q + n)
    /\ Continue /\ UNCHANGED <<loops, emitted, rests>>

\* bytes[EOF], bytes[..], bytes[stream]: whatever has arrived.
ReadRest ==
    /\ Executes("rest")
    /\ WriteSlot(Instr.slot, Minus(Len(input), Aligned))
    /\ rests' = Append(rests, <<Instr.name, Aligned>>)
    /\ Cursor(Len(input), 0)
    /\ Continue /\ UNCHANGED <<loops, emitted>>

Validate ==
    /\ Executes("validate")
    /\ IF slots[Instr.slot] = 0 THEN status' = "constraint" /\ UNCHANGED ip ELSE Continue
    /\ UNCHANGED machine

EmitField ==
    /\ Executes("emit")
    /\ emitted' = Append(emitted, <<Instr.name, slots[Instr.slot]>>)
    /\ Continue /\ UNCHANGED <<slots, touched, pos, bit, loops, rests>>

\* LoadConst, CopySlot, UnaryOp, BinOp and UpdateOffset compute into a slot.
Result ==
    CASE Instr.op = "const"  -> Instr.v
      [] Instr.op = "copy"   -> slots[Instr.src]
      [] Instr.op = "un"     -> UnVal(Instr.fn, slots[Instr.src])
      [] Instr.op = "bin"    -> BinVal(Instr.fn, slots[Instr.l], slots[Instr.r])
      [] Instr.op = "offset" -> pos

Compute ==
    /\ \E op \in {"const", "copy", "un", "bin", "offset"} : Executes(op)
    /\ WriteSlot(Instr.slot, Result)
    /\ Continue /\ UNCHANGED <<pos, bit, loops, emitted, rests>>

Jump ==
    /\ Executes("jump")
    /\ ip' = Instr.to /\ UNCHANGED <<status, machine>>

\* Only a conditional jump backwards counts as an iteration.
JumpIfZero ==
    /\ Executes("jz")
    /\ LET taken == slots[Instr.slot] = 0
           back  == taken /\ Instr.to < ip
       IN /\ loops' = IF back THEN loops + 1 ELSE loops
          /\ IF back /\ loops + 1 > MaxLoopIterations
             THEN status' = "limit" /\ UNCHANGED ip
             ELSE ip' = (IF taken THEN Instr.to ELSE ip + 1) /\ UNCHANGED status
    /\ UNCHANGED <<slots, touched, pos, bit, emitted, rests>>

Return ==
    /\ Executes("ret")
    /\ status' = "done" /\ UNCHANGED <<ip, machine>>

FallOffEnd ==
    /\ status = "run" /\ ip >= Len(Program)
    /\ status' = "done" /\ UNCHANGED <<job, flow, machine, ip, executed, need>>

Panic ==
    /\ status = "run" /\ ip < Len(Program) /\ InBudget /\ Faults
    /\ Charge /\ status' = "panic"
    /\ UNCHANGED <<job, flow, machine, ip, need>>

OutOfBudget ==
    /\ status = "run" /\ ip < Len(Program) /\ ~InBudget
    /\ status' = "limit" /\ UNCHANGED <<job, flow, machine, ip, executed, need>>

\* The alignment of a short read survives in the snapshot, except for bit reads.
SuspendedCursor_Rewound == Cursor(pos, 0)            \* slip: bit_offset not saved
SuspendedCursor == IF Instr.op = "bits" THEN Cursor(pos, bit) ELSE Cursor(Aligned, 0)

\* A short read of a stream leaves a continuation (snapshot) at this instruction.
Suspend ==
    /\ status = "run" /\ ip < Len(Program) /\ InBudget
    /\ ~Faults /\ job.stream /\ Short
    /\ Charge
    /\ status' = "need" /\ need' = MissingBytes
    /\ SuspendedCursor
    /\ UNCHANGED <<job, flow, slots, touched, input, loops, emitted, rests, ip>>

\* BytecodeVm::resume: more bytes, same instruction.
Resume ==
    /\ status = "need" /\ flow # <<>>
    /\ \E k \in 1..Len(flow) :
          /\ input' = input \o SubSeq(flow, 1, k)
          /\ flow' = SubSeq(flow, k + 1, Len(flow))
    /\ status' = "run" /\ need' = 0
    /\ UNCHANGED <<job, slots, touched, pos, bit, loops, emitted, rests, ip, executed>>

-----------------------------------------------------------------------------
\* A datagram is complete; a stream starts with any part of its bytes.
Init ==
    /\ job \in Jobs
    /\ \E d \in Flows[job.prog] : \E k \in 0..Len(d) :
          /\ ~job.stream => k = Len(d)
          /\ input = SubSeq(d, 1, k) /\ flow = SubSeq(d, k + 1, Len(d))
    /\ slots = [s \in Slots |-> 0] /\ touched = {}
    /\ pos = 0 /\ bit = 0 /\ loops = 0 /\ emitted = <<>> /\ rests = <<>>
    /\ ip = 0 /\ executed = 0 /\ status = "run" /\ need = 0

Step == \/ ReadInt \/ ReadSlice \/ ReadBits \/ ReadRest \/ Validate \/ EmitField
        \/ Compute \/ Jump \/ JumpIfZero \/ Return \/ FallOffEnd \/ Panic

Next == Step \/ OutOfBudget \/ Suspend \/ Resume

Spec == Init /\ [][Next]_vmvars

\* interpret is a loop in one thread: it runs until it returns.
Interpret == Step \/ OutOfBudget \/ Suspend
FairSpec  == Spec /\ WF_vmvars(Interpret)

-----------------------------------------------------------------------------
(* The state of BytecodeVm: slots hold words, the bit cursor stays within a byte and
   only inside the input, and no run spends more than one instruction beyond its limit. *)
TypeOK ==
    /\ job \in Jobs
    /\ slots \in [Slots -> Words] /\ touched \subseteq Slots
    /\ \A s \in Slots \ touched : slots[s] = 0
    /\ flow \in Seq(Bytes) /\ input \in Seq(Bytes)
    /\ pos \in Words /\ bit \in 0..(ByteBits - 1) /\ (bit # 0 => pos < Len(input))
    /\ loops \in 0..(MaxLoopIterations + 1)
    /\ emitted \in Seq(Labels \X Words) /\ rests \in Seq(Labels \X Words)
    /\ ip \in 0..Len(Program) /\ executed \in 0..(MaxInstructions + 1)
    /\ status \in {"run", "need", "done", "constraint", "limit", "panic"}
    /\ need \in Nat /\ (need # 0 => status = "need")
=============================================================================
