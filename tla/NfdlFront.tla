------------------------------ MODULE NfdlFront ------------------------------
(* The N-FDL front end as its tools drive it: an author writes a file of       *)
(* protocols, slips here and there, a check of the file parses it with         *)
(* recovery and reports every error, the formatter parses it fail-fast and     *)
(* either refuses or overwrites it, and the result is read again.              *)
EXTENDS NfdlFormat

CONSTANTS
    Files,         \* the files an author means to write, sequences of protocols
    Fragile,       \* those of them in which the author may slip
    MaxSlips       \* statements got wrong in one file

VARIABLES
    meant,     \* the protocols the author means
    draft,     \* the same with the statements got wrong
    stage,     \* how far the file has come
    text,      \* the lexemes on disk
    checked,   \* the protocol and the errors a check reported
    found      \* the protocols read back from the formatted file

vars == << meant, draft, stage, text, checked, found >>

Unmarked(marked) == SelectSeq(marked, LAMBDA l : l.x # "mark")
NotChecked == [proto |-> EmptyProtocol, errs |-> << >>]

Init ==
    /\ meant \in Files /\ draft = meant /\ stage = "writing"
    /\ text = Unmarked(FileText(draft, "author"))
    /\ checked = NotChecked /\ found = << >>

(* ---- The author's slips ---- *)

\* A missing `;` or a stray sign before it is an error only behind an
\* unconditional field of a message or an arm.
SlipKinds(f, inLoop) == IF inLoop \/ f.cond # NoExpr THEN Lossy ELSE Lossy \cup {"open", "stray"}
RECURSIVE Slips(_, _)
SlipsAt(body, j, inLoop) ==
    LET x == body[j] IN
    CASE x.it = "field" -> {[body EXCEPT ![j] = Faulty(k, x)] : k \in SlipKinds(x, inLoop)}
      [] x.it = "loop"  -> {[body EXCEPT ![j].body = b] : b \in Slips(x.body, TRUE)}
      [] x.it = "match" -> UNION {{[body EXCEPT ![j].arms[a].body = b] : b \in Slips(x.arms[a].body, FALSE)} :
                                  a \in DOMAIN x.arms}
      [] OTHER -> {}
\* The bodies with one more field got wrong.
Slips(body, inLoop) == UNION {SlipsAt(body, j, inLoop) : j \in DOMAIN body}

Faults(marked) == Cardinality({i \in DOMAIN marked : marked[i] = Mark("from")[1]})
slip(p, m) ==
    /\ stage = "writing" /\ meant \in Fragile /\ Faults(FileText(draft, "author")) < MaxSlips
    /\ \E b \in Slips(draft[p].messages[m].body, FALSE) :
         /\ draft' = [draft EXCEPT ![p].messages[m].body = b]
         /\ text' = Unmarked(FileText(draft', "author"))
    /\ UNCHANGED << meant, stage, checked, found >>

(* ---- The tools ---- *)
check ==
    /\ stage = "writing"
    /\ LET r == parse_protocol_with_diagnostics(Lexed(text))
       IN  checked' = [proto |-> r.proto, errs |-> r.errs]
    /\ stage' = "checked"
    /\ UNCHANGED << meant, draft, text, found >>

format ==
    /\ stage = "checked"
    /\ LET r == format_nfdl_source(Lexed(text))
       IN  IF r.ok THEN text' = r.text /\ stage' = "formatted" ELSE text' = text /\ stage' = "refused"
    /\ UNCHANGED << meant, draft, checked, found >>

ProtocolsOf(parses) == [i \in DOMAIN parses |-> parses[i].proto]
reread ==
    /\ stage = "formatted"
    /\ found' = ProtocolsOf(ChunkParses(Lexed(text))) /\ stage' = "reread"
    /\ UNCHANGED << meant, draft, text, checked >>

Next ==
    \/ \E p \in DOMAIN draft : \E m \in DOMAIN draft[p].messages : slip(p, m)
    \/ check
    \/ format
    \/ reread

Spec == Init /\ [][Next]_vars

(* ---- Properties ---- *)

\* What is left of a body when its faulty statements are gone: the field of a
\* statement that is only badly ended stays.
RECURSIVE Recovered(_)
RecoveredItem(x) ==
    CASE x.it = "loop"  -> << [x EXCEPT !.body = Recovered(@)] >>
      [] x.it = "match" -> << [x EXCEPT !.arms = [a \in DOMAIN @ |-> [@[a] EXCEPT !.body = Recovered(@)]]] >>
      [] x.it = "faulty" -> IF x.kind \in Lossy THEN << >> ELSE << x.field >>
      [] OTHER -> << x >>
Recovered(body) == Flat([i \in DOMAIN body |-> RecoveredItem(body[i])])
Sound(proto) ==
    [proto EXCEPT !.messages = [m \in DOMAIN @ |-> [@[m] EXCEPT !.body = Recovered(@)]]]

\* The tokens of a faulty statement, from its first to the one behind its last,
\* and whether it is silent: a missing `;` is forgiven before a closing brace
\* and before a keyword.
MarksAt(marked, w) == SelectSeq([i \in DOMAIN marked |-> i], LAMBDA i : marked[i] = Mark(w)[1])
TokenAt(marked, i) == Len(Lexed(Unmarked(SubSeq(marked, 1, i))))
NextLexeme(marked, i) == LET rest == Unmarked(SubSeq(marked, i, Len(marked))) IN rest[1]
Forgiven(marked, to) ==
    /\ marked[to - 1] # Sym(";")
    /\ NextLexeme(marked, to) \in {Sym("}"), Word("validate")}
FaultSpans(marked) ==
    LET fs == MarksAt(marked, "from") ts == MarksAt(marked, "to")
        loud == SelectSeq([k \in DOMAIN fs |-> k], LAMBDA k : ~Forgiven(marked, ts[k]))
    IN  [k \in DOMAIN loud |-> << TokenAt(marked, fs[loud[k]]), TokenAt(marked, ts[loud[k]]) >>]

\* A check of a file reads the protocol in it as its author means it, whatever
\* the spelling, and recovery loses faulty statements and nothing else: each is
\* reported, once and in order, at one of its own tokens or at the one behind it,
\* and every sound statement before, between and behind them is read.
RecoveryLosesOnlyFaults ==
    stage # "writing" /\ Len(meant) = 1 =>
        LET spans == FaultSpans(FileText(draft, "author"))
        IN  /\ Len(checked.errs) = Len(spans)
            /\ \A k \in DOMAIN spans : checked.errs[k] \in spans[k][1]..spans[k][2]
            /\ checked.proto = Sound(draft[1])

\* The formatter rewrites a file only when a check of it is clean, and what it
\* writes is read as the protocols of the file, each with all its declarations.
FormatRoundTrips ==
    /\ stage \in {"formatted", "reread"} => checked.errs = << >>
    /\ stage = "refused" => checked.errs # << >>
    /\ stage = "reread" => found = [i \in DOMAIN draft |-> Sound(draft[i])]
=============================================================================
