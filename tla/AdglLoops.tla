------------------------------- MODULE AdglLoops -------------------------------
(* The shapes of loop the verifier and the topology oracle are built from: a   *)
(* walk over a set in ascending order, and the pieces a loop over a sequence   *)
(* keeps or appends.                                                           *)
EXTENDS Integers, Sequences, FiniteSets

SE == INSTANCE SequencesExt

MaxOf(S) == CHOOSE x \in S : \A y \in S : y <= x

\* The state after step[<< x, state >>] for every x of S, the least first.
InOrder(S, init, step) ==
    SE!MapThenFoldSet(LAMBDA x, state : step[<< x, state >>], init, LAMBDA x : x, MaxOf, S)

\* The parts one after the other, and those elements of s whose index is in at.
Concat(parts) == SE!FlattenSeq(parts)
Picked(s, at) == Concat([i \in DOMAIN s |-> IF i \in at THEN << s[i] >> ELSE << >>])
=============================================================================
