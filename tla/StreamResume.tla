----------------------------- MODULE StreamResume -----------------------------
(***************************************************************************)
(* Resume-equivalence of stream parses (docs/spec/08, section 5.4): a flow *)
(* that reaches the interpreter in pieces is parsed like the whole flow.   *)
(*                                                                         *)
(* Source: crates/nfdl-bytecode/src/lib.rs (resume) as it is driven by     *)
(* crates/nfdl-runtime/src/continuation.rs.                                *)
(*                                                                         *)
(* Two history variables relate the parse in pieces to the parse of the    *)
(* whole: the cursor before a read that was suspended for bytes that do    *)
(* come, and how often a read was tried in vain.                           *)
(***************************************************************************)
EXTENDS BytecodeVm

VARIABLES
    held,        \* [on, pos, bit]
    retries

vars == <<vmvars, held, retries>>

NotHeld == [on |-> FALSE, pos |-> 0, bit |-> 0]

RInit == Init /\ held = NotHeld /\ retries = 0

RStep == Step /\ held' = NotHeld /\ UNCHANGED retries

RSuspend ==
    /\ Suspend
    /\ held' = IF flow = <<>> THEN NotHeld
               ELSE IF held.on THEN held
               ELSE [on |-> TRUE, pos |-> pos, bit |-> bit]
    /\ retries' = IF flow = <<>> THEN retries ELSE retries + 1

RRest == (OutOfBudget \/ Resume) /\ UNCHANGED <<held, retries>>

RNext == RStep \/ RSuspend \/ RRest

RSpec == RInit /\ [][RNext]_vars

\* The interpreter is a loop in the caller's thread; bytes may never come.
RFairSpec == RSpec /\ WF_vars(RNext /\ Interpret)

-----------------------------------------------------------------------------
\* The parse of the whole flow that a parse in pieces stands for.
Whole == INSTANCE BytecodeVm WITH
    input    <- input \o flow,
    flow     <- <<>>,
    pos      <- IF held.on THEN held.pos ELSE pos,
    bit      <- IF held.on THEN held.bit ELSE bit,
    executed <- executed - retries,
    need     <- IF held.on THEN 0 ELSE need,
    status   <- IF (held.on /\ status = "need")
                     \/ (status = "limit" /\ retries > 0 /\ loops <= MaxLoopIterations)
                THEN "run" ELSE status

(* Resume-equivalence: whatever pieces a flow arrives in, run_stream and resume
   take the steps that one run over the whole flow takes, and so end with the same
   fields, offsets and verdict.  The one exception the code makes: a suspended read
   counts as an instruction, so a parse in pieces may hit max_instructions first. *)
ResumeEquivalent == Whole!Spec

(* A continuation's bytes_needed is exact: with that many bytes more the suspended
   read is served, with one less it is not, so a caller that waits for the hint
   neither waits for bytes the message does not have nor resumes in vain. *)
Served(n) ==
    LET have == Len(input) + n
    IN CASE Instr.op = "read"  -> pos + Instr.n <= have
         [] Instr.op = "slice" -> pos + slots[Instr.len] <= have
         [] Instr.op = "bits"  -> pos * ByteBits + bit + Instr.n <= have * ByteBits

HintExact ==
    status = "need" => need >= 1 /\ Served(need) /\ ~Served(need - 1)

(* Every call of run, run_stream or resume returns: the program ends, fails, hits a
   limit or suspends, whatever its jumps. *)
Returns == []<>(status # "run")
=============================================================================
