---------------------------- MODULE AdglFrontProofs ----------------------------
(***************************************************************************)
(* Proofs about the ADGL front end, for every catalog, every family of     *)
(* rulesets and every network that satisfy the assumptions of AdglFront:   *)
(* what the verifier promises the engine of a ruleset it accepts, and that *)
(* the topology oracle's answers are right.                                *)
(***************************************************************************)
EXTENDS AdglFront, SetInduction, FiniteSetTheorems, TLAPS

-----------------------------------------------------------------------------
(* Finite sets of integers and walks over them. *)

\* A finite set with one member less; the empty set is the one of no members.
LEMMA OneLess ==
    ASSUME NEW S, IsFiniteSet(S), NEW x \in S
    PROVE  /\ IsFiniteSet(S \ {x}) /\ Cardinality(S \ {x}) = Cardinality(S) - 1
           /\ Cardinality(S) \in Nat /\ Cardinality(S) > 0
<1>1. Cardinality(S) \in Nat /\ Cardinality(S) # 0
  BY FS_CardinalityType, FS_EmptySet, Zenon
<1>2. IsFiniteSet(S \ {x}) /\ Cardinality(S \ {x}) = Cardinality(S) - 1
  BY FS_RemoveElement, Zenon
<1> QED
  BY <1>1, <1>2

\* A finite set of at most no members is empty.
LEMMA NoMembers ==
    ASSUME NEW S, IsFiniteSet(S), Cardinality(S) <= 0
    PROVE  S = {}
<1>1. Cardinality(S) \in Nat
  BY FS_CardinalityType, Zenon
<1>2. Cardinality(S) = 0
  BY <1>1
<1> QED
  BY <1>2, FS_EmptySet, Zenon

\* A non-empty finite set of integers has a greatest member.
LEMMA MaxOfIsMax ==
    ASSUME NEW S \in SUBSET Int, IsFiniteSet(S), S # {}
    PROVE  MaxOf(S) \in S /\ \A y \in S : y <= MaxOf(S)
<1> DEFINE Has(T) == \E x \in T : \A y \in T : y <= x
           N == {k \in Nat : \A T \in SUBSET S : T # {} /\ Cardinality(T) <= k => Has(T)}
<1>1. \A T \in SUBSET S : IsFiniteSet(T) /\ Cardinality(T) \in Nat
  BY FS_Subset, FS_CardinalityType
<1>2. 0 \in N
  <2> QED
    BY <1>1, NoMembers
<1>3. ASSUME NEW k \in Nat, k \in N PROVE k + 1 \in N
  <2> SUFFICES ASSUME NEW T \in SUBSET S, T # {}, Cardinality(T) <= k + 1 PROVE Has(T)
    OBVIOUS
  <2>1. PICK t \in T : TRUE
    OBVIOUS
  <2>2. T \ {t} \in SUBSET S /\ Cardinality(T \ {t}) <= k
    BY <1>1, <2>1, OneLess
  <2>3. CASE T \ {t} = {}
    <3>1. T = {t} /\ t \in Int
      BY <2>1, <2>3
    <3> QED
      BY <3>1
  <2>4. CASE T \ {t} # {}
    <3>1. PICK x \in T \ {t} : \A y \in T \ {t} : y <= x
      BY <1>3, <2>2, <2>4
    <3>2. x \in Int /\ t \in Int
      BY <2>1, <3>1
    <3>3. \E z \in {x, t} : \A y \in T : y <= z
      BY <3>1, <3>2
    <3> QED
      BY <2>1, <3>1, <3>3
  <2> QED
    BY <2>3, <2>4
<1>4. \A k \in Nat : k \in N
  BY <1>2, <1>3, AllNaturals
<1>5. Has(S)
  BY <1>1, <1>4
<1> QED
  BY <1>5 DEF MaxOf

\* What a walk does to its state, one member at a time from the least: a set P of
\* << members walked, state >> that every step stays in holds the whole walk.
LEMMA WalkReaches ==
    ASSUME NEW S \in SUBSET Int, IsFiniteSet(S), NEW init, NEW step, NEW P,
           << {}, init >> \in P,
           \A T \in SUBSET S, x \in S : \A q :
              << T, q >> \in P /\ x \notin T /\ (\A y \in T : y < x)
                 => << T \cup {x}, step[<< x, q >>] >> \in P
    PROVE  << S, InOrder(S, init, step) >> \in P
<1> DEFINE Small(k) == {s \in SUBSET S : Cardinality(s) <= k}
           Next1(f, s) == IF s = {} THEN init ELSE step[<< MaxOf(s), f[s \ {MaxOf(s)}] >>]
           Table(f, k) == f = [s \in Small(k) |-> Next1(f, s)]
           N == {k \in Nat : \E f : Table(f, k)}
<1>1. \A s \in SUBSET S : IsFiniteSet(s) /\ Cardinality(s) \in Nat
  BY FS_Subset, FS_CardinalityType
<1>2. ASSUME NEW s \in SUBSET S, s # {}
      PROVE  /\ MaxOf(s) \in s /\ \A y \in s \ {MaxOf(s)} : y < MaxOf(s)
             /\ s \ {MaxOf(s)} \in SUBSET S /\ s = (s \ {MaxOf(s)}) \cup {MaxOf(s)}
             /\ Cardinality(s \ {MaxOf(s)}) = Cardinality(s) - 1 /\ Cardinality(s) > 0
  <2>1. MaxOf(s) \in s /\ \A y \in s : y <= MaxOf(s)
    BY <1>1, <1>2, MaxOfIsMax
  <2>2. s \subseteq Int
    OBVIOUS
  <2> HIDE DEF Small, Table, Next1
  <2>3. ASSUME NEW y \in s \ {MaxOf(s)} PROVE y < MaxOf(s)
    <3>1. y \in Int /\ MaxOf(s) \in Int /\ y <= MaxOf(s) /\ y # MaxOf(s)
      BY <2>1, <2>2, Zenon
    <3> QED
      BY <3>1
  <2>4. Cardinality(s \ {MaxOf(s)}) = Cardinality(s) - 1 /\ Cardinality(s) > 0
    BY <1>1, <2>1, OneLess
  <2> QED
    BY <2>1, <2>3, <2>4
<1>3. 0 \in N
  <2> DEFINE f == [s \in Small(0) |-> init]
  <2>1. \A s \in Small(0) : s = {}
    BY <1>1, NoMembers
  <2>2. f = [s \in Small(0) |-> Next1(f, s)]
    BY <2>1
  <2> QED
    BY <2>2
<1>4. ASSUME NEW k \in Nat, k \in N PROVE k + 1 \in N
  <2>1. PICK f : Table(f, k)
    BY <1>4
  <2> DEFINE g == [s \in Small(k + 1) |-> Next1(f, s)]
  <2>2. ASSUME NEW s \in Small(k + 1), s # {}
        PROVE  s \ {MaxOf(s)} \in Small(k) /\ s \ {MaxOf(s)} \in Small(k + 1)
    <3>1. s \in SUBSET S /\ Cardinality(s) <= k + 1
      OBVIOUS
    <3>2. s \ {MaxOf(s)} \in SUBSET S /\ Cardinality(s \ {MaxOf(s)}) = Cardinality(s) - 1
      BY <1>2, <2>2, <3>1
    <3> QED
      BY <1>1, <3>1, <3>2
  <2>3. \A s \in Small(k) : s \in Small(k + 1) /\ f[s] = Next1(f, s)
    <3>1. \A s \in Small(k) : f[s] = Next1(f, s)
      BY <2>1, Zenon
    <3> HIDE DEF Next1, Table, g
    <3>2. \A s \in Small(k) : s \in Small(k + 1)
      BY <1>1
    <3> QED
      BY <3>1, <3>2, Zenon
  <2> HIDE DEF Small
  <2>4. ASSUME NEW s \in Small(k + 1) PROVE Next1(f, s) = Next1(g, s)
    <3>1. CASE s = {}
      BY <3>1
    <3>2. CASE s # {}
      <4>1. g[s \ {MaxOf(s)}] = f[s \ {MaxOf(s)}]
        BY <2>2, <2>3, <3>2, Zenon
      <4> QED
        BY <4>1, Zenon
    <3> QED
      BY <3>1, <3>2
  <2>5. Table(g, k + 1)
    BY <2>4, Zenon
  <2> HIDE DEF g, Table
  <2>6. \E h : Table(h, k + 1)
    BY <2>5
  <2> QED
    BY <2>6
<1>5. Cardinality(S) \in N
  <2>1. \A k \in Nat : k \in N
    BY <1>3, <1>4, AllNaturals
  <2> QED
    BY <1>1, <2>1
<1> DEFINE iter == CHOOSE f : f = [s \in SUBSET S |-> Next1(f, s)]
<1>6. Small(Cardinality(S)) = SUBSET S
  BY FS_Subset
<1>7. iter = [s \in SUBSET S |-> Next1(iter, s)]
  <2>1. \E f : f = [s \in SUBSET S |-> Next1(f, s)]
    BY <1>5, <1>6
  <2> QED
    BY <2>1, Zenon
<1>8. InOrder(S, init, step) = iter[S]
  BY Zenon DEF InOrder, SE!MapThenFoldSet
<1> HIDE DEF iter
<1> DEFINE M == {k \in Nat : \A s \in SUBSET S : Cardinality(s) <= k => << s, iter[s] >> \in P}
<1>9. 0 \in M
  <2>1. \A s \in SUBSET S : Cardinality(s) <= 0 => s = {}
    BY <1>1, NoMembers
  <2>2. iter[{}] = init
    BY <1>7, Zenon
  <2> QED
    BY <2>1, <2>2
<1>10. ASSUME NEW k \in Nat, k \in M PROVE k + 1 \in M
  <2> SUFFICES ASSUME NEW s \in SUBSET S, Cardinality(s) <= k + 1 PROVE << s, iter[s] >> \in P
    OBVIOUS
  <2>1. CASE s = {}
    <3>1. Cardinality(s) <= 0
      BY <2>1, FS_EmptySet
    <3> QED
      BY <3>1, <1>9
  <2>2. CASE s # {}
    <3> DEFINE x == MaxOf(s)
               T == s \ {x}
    <3>1. /\ x \in S /\ T \in SUBSET S /\ x \notin T /\ s = T \cup {x}
          /\ Cardinality(T) = Cardinality(s) - 1 /\ \A y \in T : y < x
      BY <1>2, <2>2
    <3>2. << T, iter[T] >> \in P
      BY <1>1, <1>10, <3>1
    <3>3. iter[s] = step[<< x, iter[T] >>]
      BY <1>7, <2>2, Zenon
    <3> HIDE DEF x, T
    <3> QED
      BY <3>1, <3>2, <3>3
  <2> QED
    BY <2>1, <2>2
<1>11. Cardinality(S) \in M
  <2>1. \A k \in Nat : k \in M
    BY <1>9, <1>10, AllNaturals
  <2> QED
    BY <1>1, <2>1
<1> QED
  BY <1>1, <1>8, <1>11

-----------------------------------------------------------------------------
(* Sequences put together from parts. *)

\* A function on 1..n is a sequence of that length.
LEMMA FunctionIsSeq ==
    ASSUME NEW n \in Nat, NEW V, NEW f \in [1..n -> V]
    PROVE  f \in Seq(V) /\ Len(f) = n /\ DOMAIN f = 1..n
OBVIOUS

\* Every sequence is one of its own elements.
LEMMA SeqOfElems ==
    ASSUME NEW V, NEW s \in Seq(V)
    PROVE  s \in Seq(Elems(s)) /\ Elems(s) \subseteq V /\ DOMAIN s = 1..Len(s) /\ Len(s) \in Nat
<1>1. DOMAIN s = 1..Len(s) /\ Len(s) \in Nat /\ s \in [1..Len(s) -> V]
  OBVIOUS
<1>2. s \in [1..Len(s) -> Elems(s)]
  BY <1>1 DEF Elems
<1>3. s \in Seq(Elems(s))
  BY <1>1, <1>2, FunctionIsSeq
<1> QED
  BY <1>1, <1>3 DEF Elems

\* The running concatenation behind Concat.
Running(f, V, n, parts) ==
    /\ f \in [1..n -> Seq(V)] /\ f[1] = parts[1] /\ f[n] = Concat(parts)
    /\ \A k \in 1..(n - 1) : f[k + 1] = f[k] \o parts[k + 1]
LEMMA ConcatDef ==
    ASSUME NEW V, NEW n \in Nat, n # 0, NEW parts \in [1..n -> Seq(V)]
    PROVE  \E f : Running(f, V, n, parts)
<1> DEFINE Turn(f, i) == IF i = 1 THEN parts[i] ELSE f[i - 1] \o parts[i]
           Table(f, k) == f \in [1..k -> Seq(V)] /\ f = [i \in 1..k |-> Turn(f, i)]
           S == {k \in Nat : k = 0 \/ \E f : Table(f, k)}
<1>1. n \in Nat /\ n >= 1 /\ \A i \in 1..n : parts[i] \in Seq(V)
  OBVIOUS
<1>9. Len(parts) = n
  BY <1>1, FunctionIsSeq
<1>2. \A k \in 0..n : k \in S
  <2>1. 0 \in S
    OBVIOUS
  <2>2. ASSUME NEW k \in 0..(n - 1), k \in S PROVE k + 1 \in S
    <3>1. CASE k = 0
      <4> DEFINE g == [i \in 1..1 |-> parts[1]]
      <4>1. g \in [1..1 -> Seq(V)]
        BY <1>1
      <4>2. g = [i \in 1..1 |-> Turn(g, i)]
        OBVIOUS
      <4>3. Table(g, 1)
        BY <4>1, <4>2, Zenon
      <4> HIDE DEF g, Table
      <4>4. \E f : Table(f, k + 1)
        BY <3>1, <4>3
      <4> QED
        BY <4>4
    <3>2. CASE k # 0
      <4>1. PICK f : Table(f, k)
        BY <2>2, <3>2
      <4> DEFINE g == [i \in 1..(k + 1) |-> IF i = k + 1 THEN f[k] \o parts[i] ELSE f[i]]
      <4>2. k \in 1..k /\ k + 1 \in 1..n /\ k + 1 # 1
        BY <1>1, <3>2
      <4>3. f \in [1..k -> Seq(V)] /\ \A i \in 1..k : f[i] = Turn(f, i)
        BY <4>1, Zenon
      <4>4. g \in [1..(k + 1) -> Seq(V)]
        BY <1>1, <4>2, <4>3
      <4>5. ASSUME NEW i \in 1..(k + 1) PROVE g[i] = Turn(g, i)
        <5>1. CASE i = k + 1
          <6>1. i - 1 = k /\ i # 1 /\ k \in 1..(k + 1) /\ k # k + 1
            BY <4>2, <5>1
          <6>2. g[i] = f[k] \o parts[i] /\ g[k] = f[k]
            BY <5>1, <6>1
          <6> QED
            BY <6>1, <6>2
        <5>2. CASE i # k + 1
          <6>1. i \in 1..k /\ (i # 1 => i - 1 \in 1..k)
            BY <5>2
          <6>2. g[i] = f[i] /\ (i # 1 => g[i - 1] = f[i - 1])
            BY <6>1
          <6> QED
            BY <4>3, <6>1, <6>2
        <5> QED
          BY <5>1, <5>2
      <4>6. g = [i \in 1..(k + 1) |-> Turn(g, i)]
        BY <4>5
      <4> HIDE DEF g, Turn
      <4>8. Table(g, k + 1)
        BY <4>4, <4>6
      <4> HIDE DEF Table
      <4>7. \E h : Table(h, k + 1)
        BY <4>8
      <4> QED
        BY <4>7
    <3> QED
      BY <3>1, <3>2
  <2> HIDE DEF S
  <2> QED
    BY <1>1, <2>1, <2>2, UpTo
<1>3. PICK f : Table(f, n)
  <2> HIDE DEF Table
  <2>1. n \in 0..n /\ n # 0
    BY <1>1
  <2>2. n \in S
    BY <1>2, <2>1, Zenon
  <2> QED
    BY <2>1, <2>2, Zenon
<1> DEFINE flat == CHOOSE g : g = [i \in 1..n |-> Turn(g, i)]
<1>4. flat = [i \in 1..n |-> Turn(flat, i)]
  BY <1>3
<1>5. Concat(parts) = flat[n]
  BY <1>1, <1>9 DEF Concat, SE!FlattenSeq
<1> HIDE DEF flat
<1> DEFINE E == {k \in Nat : k = 0 \/ flat[k] = f[k]}
<1>6. \A k \in 0..n : k \in E
  <2>1. 0 \in E
    OBVIOUS
  <2>2. ASSUME NEW k \in 0..(n - 1), k \in E PROVE k + 1 \in E
    <3>1. k + 1 \in 1..n /\ (k + 1 # 1 => k # 0)
      BY <1>1
    <3>2. flat[k + 1] = Turn(flat, k + 1) /\ f[k + 1] = Turn(f, k + 1)
      BY <1>3, <1>4, <3>1, Zenon
    <3>3. Turn(flat, k + 1) = Turn(f, k + 1)
      BY <2>2, <3>1
    <3> QED
      BY <3>2, <3>3
  <2> HIDE DEF E
  <2> QED
    BY <1>1, <2>1, <2>2, UpTo
<1>7. f \in [1..n -> Seq(V)] /\ f[1] = parts[1] /\ f[n] = Concat(parts)
  <2>1. \A i \in 1..n : f[i] = Turn(f, i)
    BY <1>3, Zenon
  <2>2. n \in 0..n /\ n # 0 /\ 1 \in 1..n
    BY <1>1
  <2>3. flat[n] = f[n]
    BY <1>6, <2>2
  <2> QED
    BY <1>3, <1>5, <2>1, <2>2, <2>3
<1>8. ASSUME NEW k \in 1..(n - 1) PROVE f[k + 1] = f[k] \o parts[k + 1]
  <2>1. k + 1 \in 1..n /\ k + 1 # 1 /\ (k + 1) - 1 = k
    BY <1>1
  <2>2. f[k + 1] = Turn(f, k + 1)
    BY <1>3, <2>1, Zenon
  <2> QED
    BY <2>1, <2>2
<1> HIDE DEF Turn, Table
<1>10. Running(f, V, n, parts)
  BY <1>7, <1>8 DEF Running
<1> QED
  BY <1>10, Zenon

\* Nothing is put together from nothing.
LEMMA ConcatOfNone ==
    ASSUME NEW V, NEW parts \in [1..0 -> V]
    PROVE  Concat(parts) = << >> /\ parts = << >>
<1>1. parts \in Seq(V) /\ Len(parts) = 0
  BY FunctionIsSeq
<1>2. parts = << >>
  BY <1>1
<1> QED
  BY <1>1, <1>2 DEF Concat, SE!FlattenSeq

\* What is put together from sequences over V is one.
LEMMA ConcatType ==
    ASSUME NEW V, NEW n \in Nat, NEW parts \in [1..n -> Seq(V)]
    PROVE  Concat(parts) \in Seq(V)
<1>1. CASE n = 0
  <2>1. Concat(parts) = << >>
    BY <1>1, ConcatOfNone
  <2> QED
    BY <2>1
<1>2. CASE n # 0
  <2>1. n \in Nat \ {0} /\ n \in 1..n
    BY <1>2
  <2>2. PICK f : Running(f, V, n, parts)
    BY <1>2, ConcatDef, Zenon
  <2> QED
    BY <2>1, <2>2 DEF Running
<1> QED
  BY <1>1, <1>2

\* The elements of two sequences, one after the other.
LEMMA JoinIndex ==
    ASSUME NEW V, NEW a \in Seq(V), NEW b \in Seq(V)
    PROVE  /\ a \o b \in Seq(V) /\ Len(a \o b) = Len(a) + Len(b)
           /\ Len(a) \in Nat /\ Len(b) \in Nat
           /\ \A j \in 1..Len(a) : (a \o b)[j] = a[j]
           /\ \A j \in 1..(Len(a) + Len(b)) : j > Len(a) => (a \o b)[j] = b[j - Len(a)]
OBVIOUS

\* Parts of one element each come out as they are.
LEMMA ConcatOfOnes ==
    ASSUME NEW V, NEW n \in Nat, NEW v \in [1..n -> V],
           NEW parts, parts = [i \in 1..n |-> << v[i] >>]
    PROVE  Concat(parts) = v
<1>1. parts \in [1..n -> Seq(V)] /\ \A i \in 1..n : parts[i] = << v[i] >> /\ << v[i] >> \in Seq(V)
  OBVIOUS
<1>2. CASE n = 0
  <2>1. Concat(parts) = << >> /\ v = << >>
    BY <1>1, <1>2, ConcatOfNone
  <2> QED
    BY <2>1
<1>3. CASE n # 0
  <2>0. PICK f : Running(f, V, n, parts)
    BY <1>1, <1>3, ConcatDef, Zenon
  <2>1. /\ f \in [1..n -> Seq(V)] /\ f[1] = parts[1] /\ f[n] = Concat(parts)
        /\ \A k \in 1..(n - 1) : f[k + 1] = f[k] \o parts[k + 1]
    BY <2>0, Zenon DEF Running
  <2> DEFINE Is(a, k) == Len(a) = k /\ \A i \in 1..k : a[i] = v[i]
             E == {k \in Nat : k = 0 \/ Is(f[k], k)}
  <2>2. ASSUME NEW k \in Nat, NEW a \in Seq(V), k + 1 \in 1..n, Is(a, k)
        PROVE  Is(a \o << v[k + 1] >>, k + 1)
    <3> DEFINE b == << v[k + 1] >>
    <3>1. b \in Seq(V) /\ Len(b) = 1 /\ b[1] = v[k + 1]
      BY <2>2
    <3> HIDE DEF b
    <3>2. /\ Len(a \o b) = Len(a) + Len(b)
          /\ \A j \in 1..Len(a) : (a \o b)[j] = a[j]
          /\ \A j \in 1..(Len(a) + Len(b)) : j > Len(a) => (a \o b)[j] = b[j - Len(a)]
      BY <3>1, JoinIndex, Zenon
    <3>3. ASSUME NEW i \in 1..(k + 1) PROVE (a \o b)[i] = v[i]
      <4>1. CASE i <= k
        <5>1. i \in 1..Len(a) /\ a[i] = v[i]
          BY <2>2, <4>1
        <5> QED
          BY <3>2, <5>1
      <4>2. CASE i = k + 1
        <5>1. i \in 1..(Len(a) + Len(b)) /\ i > Len(a) /\ i - Len(a) = 1
          BY <2>2, <3>1, <4>2
        <5> QED
          BY <3>1, <3>2, <4>2, <5>1
      <4>3. i <= k \/ i = k + 1
        OBVIOUS
      <4> QED
        BY <4>1, <4>2, <4>3
    <3>4. Len(a \o b) = k + 1
      BY <2>2, <3>1, <3>2
    <3> QED
      BY <3>3, <3>4 DEF b
  <2>3. Is(f[1], 1)
    <3>1. 1 \in 1..n /\ f[1] = << v[1] >>
      BY <1>1, <1>3, <2>1
    <3> QED
      BY <3>1
  <2>4. \A k \in 0..n : k \in E
    <3>1. 0 \in E
      OBVIOUS
    <3> HIDE DEF Is
    <3>2. ASSUME NEW k \in 0..(n - 1), k \in E PROVE k + 1 \in E
      <4>1. CASE k = 0
        BY <2>3, <4>1
      <4>2. CASE k # 0
        <5>1. k \in 1..(n - 1) /\ k \in 1..n /\ k + 1 \in 1..n /\ Is(f[k], k)
          BY <3>2, <4>2
        <5>2. f[k + 1] = f[k] \o << v[k + 1] >> /\ f[k] \in Seq(V)
          BY <1>1, <2>1, <5>1
        <5>3. Is(f[k + 1], k + 1)
          BY <2>2, <5>1, <5>2
        <5> QED
          BY <5>3
      <4> QED
        BY <4>1, <4>2
    <3> HIDE DEF E
    <3> QED
      BY <3>1, <3>2, UpTo
  <2>5. n \in 0..n /\ n \in 1..n
    BY <1>3
  <2>6. Is(f[n], n) /\ f[n] \in Seq(V)
    BY <1>3, <2>1, <2>4, <2>5
  <2>7. f[n] \in [1..n -> V]
    BY <2>6
  <2> QED
    BY <2>1, <2>6, <2>7
<1> QED
  BY <1>2, <1>3

\* Sequences of the same length whose elements correspond.
Corresponds(a, b, R) == Len(a) = Len(b) /\ \A j \in 1..Len(a) : << a[j], b[j] >> \in R

\* Joined, corresponding sequences correspond.
LEMMA JoinCorresponds ==
    ASSUME NEW V, NEW W, NEW R, NEW a \in Seq(V), NEW b \in Seq(W), NEW c \in Seq(V), NEW d \in Seq(W),
           Corresponds(a, b, R), Corresponds(c, d, R)
    PROVE  Corresponds(a \o c, b \o d, R)
<1>1. /\ Len(a \o c) = Len(a) + Len(c) /\ Len(a) \in Nat /\ Len(c) \in Nat
      /\ \A j \in 1..Len(a) : (a \o c)[j] = a[j]
      /\ \A j \in 1..(Len(a) + Len(c)) : j > Len(a) => (a \o c)[j] = c[j - Len(a)]
  BY JoinIndex, Zenon
<1>2. /\ Len(b \o d) = Len(b) + Len(d)
      /\ \A j \in 1..Len(b) : (b \o d)[j] = b[j]
      /\ \A j \in 1..(Len(b) + Len(d)) : j > Len(b) => (b \o d)[j] = d[j - Len(b)]
  BY JoinIndex, Zenon
<1>3. Len(a) = Len(b) /\ Len(c) = Len(d)
  BY DEF Corresponds
<1>4. ASSUME NEW j \in 1..(Len(a) + Len(c)) PROVE << (a \o c)[j], (b \o d)[j] >> \in R
  <2>1. CASE j <= Len(a)
    <3>1. j \in 1..Len(a) /\ << a[j], b[j] >> \in R
      BY <1>1, <2>1 DEF Corresponds
    <3> QED
      BY <1>1, <1>2, <1>3, <3>1
  <2>2. CASE j > Len(a)
    <3>1. j - Len(a) \in 1..Len(c) /\ << c[j - Len(a)], d[j - Len(a)] >> \in R
      BY <1>1, <2>2 DEF Corresponds
    <3> QED
      BY <1>1, <1>2, <1>3, <2>2, <3>1
  <2>3. j <= Len(a) \/ j > Len(a)
    BY <1>1
  <2> QED
    BY <2>1, <2>2, <2>3
<1> QED
  BY <1>1, <1>2, <1>3, <1>4 DEF Corresponds

\* Put together from corresponding parts, sequences correspond.
LEMMA ConcatCorresponds ==
    ASSUME NEW V, NEW W, NEW R, NEW n \in Nat,
           NEW as \in [1..n -> Seq(V)], NEW bs \in [1..n -> Seq(W)],
           \A i \in 1..n : Corresponds(as[i], bs[i], R)
    PROVE  Corresponds(Concat(as), Concat(bs), R)
<1>1. CASE n = 0
  <2>1. Concat(as) = << >> /\ Concat(bs) = << >>
    BY <1>1, ConcatOfNone
  <2> QED
    BY <2>1 DEF Corresponds
<1>2. CASE n # 0
  <2>1. PICK f : Running(f, V, n, as)
    BY <1>2, ConcatDef, Zenon
  <2>2. PICK g : Running(g, W, n, bs)
    BY <1>2, ConcatDef, Zenon
  <2> DEFINE E == {k \in Nat : k = 0 \/ Corresponds(f[k], g[k], R)}
  <2>3. \A k \in 0..n : k \in E
    <3>1. 0 \in E
      OBVIOUS
    <3>2. ASSUME NEW k \in 0..(n - 1), k \in E PROVE k + 1 \in E
      <4>1. CASE k = 0
        <5>1. k + 1 = 1 /\ 1 \in 1..n /\ f[1] = as[1] /\ g[1] = bs[1]
          BY <1>2, <2>1, <2>2, <4>1 DEF Running
        <5>2. Corresponds(f[k + 1], g[k + 1], R)
          BY <5>1
        <5> QED
          BY <5>2
      <4>2. CASE k # 0
        <5>1. k \in 1..(n - 1) /\ k \in 1..n /\ k + 1 \in 1..n
          BY <4>2
        <5>2. /\ f[k + 1] = f[k] \o as[k + 1] /\ f[k] \in Seq(V) /\ as[k + 1] \in Seq(V)
              /\ g[k + 1] = g[k] \o bs[k + 1] /\ g[k] \in Seq(W) /\ bs[k + 1] \in Seq(W)
          BY <2>1, <2>2, <5>1 DEF Running
        <5>3. Corresponds(f[k], g[k], R) /\ Corresponds(as[k + 1], bs[k + 1], R)
          BY <3>2, <4>2, <5>1
        <5>4. Corresponds(f[k + 1], g[k + 1], R)
          BY <5>2, <5>3, JoinCorresponds, Zenon
        <5> QED
          BY <5>4
      <4> QED
        BY <4>1, <4>2
    <3> HIDE DEF E
    <3> QED
      BY <3>1, <3>2, UpTo
  <2>4. n \in 0..n
    OBVIOUS
  <2>5. Corresponds(f[n], g[n], R)
    BY <1>2, <2>3, <2>4
  <2> QED
    BY <2>1, <2>2, <2>5, Zenon DEF Running
<1> QED
  BY <1>1, <1>2

\* The elements of a sequence a loop keeps are elements of the sequence.
LEMMA PickedType ==
    ASSUME NEW V, NEW s \in Seq(V), NEW at
    PROVE  Picked(s, at) \in Seq(Elems(s))
<1> DEFINE part(i) == IF i \in at THEN << s[i] >> ELSE << >>
           parts == [i \in DOMAIN s |-> part(i)]
<1>1. DOMAIN s = 1..Len(s) /\ Len(s) \in Nat
  OBVIOUS
<1>2. \A i \in DOMAIN s : part(i) \in Seq(Elems(s))
  <2>1. \A i \in DOMAIN s : s[i] \in Elems(s)
    BY DEF Elems
  <2> QED
    BY <2>1
<1>3. parts \in [1..Len(s) -> Seq(Elems(s))]
  BY <1>1, <1>2
<1>4. Concat(parts) \in Seq(Elems(s))
  BY <1>1, <1>3, ConcatType, Zenon
<1> QED
  BY <1>4 DEF Picked

-----------------------------------------------------------------------------
(* What an accepted ruleset is. *)

\* What a run knows of its stage: an accepted text was verified without an error,
\* and the image is what the verifier made of it.
FrontInv ==
    /\ meant \in Rulesets
    /\ stage = "accepted" => /\ verify_with_config(ast).errs = {}
                             /\ image = verify_with_config(ast).image

\* The engine only ever holds the image of an accepted text (verify_with_config).
LEMMA FrontInvariant == Spec => []FrontInv
<1>1. Init => FrontInv
  BY DEF Init, FrontInv
<1>2. ASSUME FrontInv, [Next]_vars PROVE FrontInv'
  <2> USE <1>2 DEF FrontInv
  <2>1. ASSUME NEW m, NEW j, mistype(m, j) PROVE FrontInv'
    BY <2>1 DEF mistype
  <2>2. CASE parse
    BY <2>2 DEF parse, ReadAs
  <2>3. CASE format
    BY <2>3 DEF format
  <2>4. CASE verify
    BY <2>4 DEF verify
  <2>5. ASSUME NEW i, match_anchors(i) PROVE FrontInv'
    BY <2>5 DEF match_anchors
  <2>6. ASSUME NEW i, run_rule(i) PROVE FrontInv'
    BY <2>6 DEF run_rule
  <2>7. ASSUME NEW i, NEW k, correlate(i, k) PROVE FrontInv'
    BY <2>7 DEF correlate
  <2>8. CASE UNCHANGED vars
    BY <2>8 DEF vars
  <2> QED
    BY <2>1, <2>2, <2>3, <2>4, <2>5, <2>6, <2>7, <2>8, Zenon DEF Next
<1> QED
  BY <1>1, <1>2, PTL DEF Spec

\* A ruleset of the family that the verifier accepts.
Accepted(rs) == rs \in Rulesets /\ verify_with_config(rs).errs = {}

\* No phase and no part of the lowering reports anything about an accepted ruleset.
LEMMA NothingReported ==
    ASSUME NEW rs, Accepted(rs)
    PROVE  /\ PhaseErrs(rs) = {} /\ AllErrs(lower_to_image(rs)) = {}
           /\ verify_with_config(rs).image = Kept(lower_to_image(rs))
<1>1. verify_with_config(rs) = AfterPhases(rs, PhaseErrs(rs))
  BY Zenon DEF verify_with_config
<1>2. PhaseErrs(rs) = {}
  BY <1>1 DEF Accepted, AfterPhases, Verified
<1>3. verify_with_config(rs) = Verified({}, lower_to_image(rs))
  BY <1>1, <1>2, Zenon DEF AfterPhases
<1>4. AllErrs(lower_to_image(rs)) = {}
  BY <1>3 DEF Accepted, Verified
<1> QED
  BY <1>2, <1>3, <1>4 DEF Verified

\* The parts of a rule as lowering takes them.
LoweredCorr(r) == [i \in DOMAIN r.corr |-> lower_correlate(r.corr[i], r)]
Lower(r, stmts, pii) == LowerBody(stmts, RuleEnv(r), pii)

\* A rule of an accepted ruleset has the parser's shape.
LEMMA Shapes ==
    ASSUME NEW rs, Accepted(rs)
    PROVE  /\ DOMAIN rs.rules = 1..Len(rs.rules) /\ Len(rs.rules) \in Nat
           /\ \A r \in Elems(rs.rules) : RuleShape(r) /\ DOMAIN r.corr = 1..Len(r.corr) /\ Len(r.corr) \in Nat
<1>1. rs \in Rulesets /\ Listed(rs.rules) /\ \A r \in Elems(rs.rules) : RuleShape(r)
  BY RulesetAssumption, Zenon DEF Accepted
<1>2. \A s : Listed(s) => DOMAIN s = 1..Len(s) /\ Len(s) \in Nat
  BY SeqOfElems, Zenon DEF Listed
<1>3. \A r \in Elems(rs.rules) : Listed(r.corr)
  BY <1>1, Zenon DEF RuleShape
<1> QED
  BY <1>1, <1>2, <1>3, Zenon

\* What the phases make sure of in each rule of an accepted ruleset.
LEMMA PhasesPassed ==
    ASSUME NEW rs, Accepted(rs), NEW r \in Elems(rs.rules)
    PROVE  /\ UnknownKind(r.anchor.src, r.anchor.kind) = {}
           /\ \A c \in Elems(r.corr) :
                 /\ UnknownKind(c.src, c.kind) = {} /\ TopoErrs(c, RuleEnv(r)) = {}
                 /\ WindowErrs(r, c, MaxLookback - ruleset_max_forward_window_ms(rs)) = {}
           /\ \A s \in Elems(gather_rule_statements(r)) : validate_stmt_catalog(s, RuleEnv(r)) = {}
           /\ \A e \in StmtExprs(r) : TypeOf(e, RuleEnv(r)).errs = {}
           /\ ~has_cycle(Edges(rs))
<1>1. /\ phase01_catalog_resolution(rs) = {} /\ phase02_name_and_typecheck(rs) = {}
      /\ phase06_temporal(rs) = {} /\ phase07_topology_signatures(rs) = {}
      /\ phase08_acyclicity(rs) = {}
  BY NothingReported DEF PhaseErrs
<1>2. /\ UnknownKind(r.anchor.src, r.anchor.kind) = {}
      /\ \A c \in Elems(r.corr) : UnknownKind(c.src, c.kind) = {}
      /\ \A s \in Elems(gather_rule_statements(r)) : validate_stmt_catalog(s, RuleEnv(r)) = {}
  <2> DEFINE found(q) ==
               UnknownKind(q.anchor.src, q.anchor.kind)
                 \cup (UNION {UnknownKind(c.src, c.kind) : c \in Elems(q.corr)})
                 \cup (UNION {validate_stmt_catalog(s, RuleEnv(q)) : s \in Elems(gather_rule_statements(q))})
  <2>1. phase01_catalog_resolution(rs) = UNION {found(q) : q \in Elems(rs.rules)}
    BY Zenon DEF phase01_catalog_resolution
  <2>2. found(r) = {}
    <3> HIDE DEF found
    <3> QED
      BY <1>1, <2>1
  <2> QED
    BY <2>2, Zenon
<1>3. ASSUME NEW e \in StmtExprs(r) PROVE TypeOf(e, RuleEnv(r)).errs = {}
  <2> DEFINE found(q) ==
               (UNION {TypeOf(x, RuleEnv(q)).errs :
                         x \in PureExprs(q) \cup Probes(q) \cup TopoArgs(q) \cup StmtExprs(q)})
                 \cup (UNION {StmtTypeErrs(s, RuleEnv(q)) : s \in Elems(gather_rule_statements(q))})
  <2>1. phase02_name_and_typecheck(rs) = UNION {found(q) : q \in Elems(rs.rules)}
    BY Zenon DEF phase02_name_and_typecheck
  <2>2. found(r) = {}
    <3> HIDE DEF found
    <3> QED
      BY <1>1, <2>1
  <2> QED
    BY <2>2, Zenon
<1>4. \A c \in Elems(r.corr) : WindowErrs(r, c, MaxLookback - ruleset_max_forward_window_ms(rs)) = {}
  BY <1>1 DEF phase06_temporal
<1>5. \A c \in Elems(r.corr) : TopoErrs(c, RuleEnv(r)) = {}
  BY <1>1 DEF phase07_topology_signatures
<1>6. ~has_cycle(Edges(rs))
  BY <1>1 DEF phase08_acyclicity, ErrIf
<1> QED
  BY <1>2, <1>3, <1>4, <1>5, <1>6

\* A path the topology phase accepts: <binding>.<field>, with exactly one scope.
LEMMA TopoPaths ==
    ASSUME NEW e, NEW env, infer_target_scope_expr(e, env) # {}
    PROVE  /\ e.k = "field" /\ e.base.k = "ident" /\ e.base.n \in DOMAIN env
           /\ metric_path_from_expr(e) = {<< e.base.n, e.f >>}
<1>1. e.k = "field" /\ e.base.k = "ident" /\ e.base.n \in DOMAIN env
  BY DEF infer_target_scope_expr
<1> QED
  BY <1>1 DEF metric_path_from_expr

\* The arguments of a correlate's topology clause in an accepted ruleset.
LEMMA TopoAccepted ==
    ASSUME NEW c, NEW env, Listed(c.topo.args), TopoErrs(c, env) = {}
    PROVE  /\ c.topo.fn \in DOMAIN TOPO_FUNCTIONS
           /\ DOMAIN c.topo.args = 1..TopoArity
           /\ \A i \in DOMAIN c.topo.args : infer_target_scope_expr(c.topo.args[i], env) # {}
<1>1. c.topo.fn \in DOMAIN TOPO_FUNCTIONS
  BY DEF TopoErrs
<1>2. /\ Len(c.topo.args) = TopoArity
      /\ \A i \in DOMAIN c.topo.args : infer_target_scope_expr(c.topo.args[i], env) # {}
  BY <1>1 DEF TopoErrs, ErrIf
<1>3. DOMAIN c.topo.args = 1..Len(c.topo.args)
  BY SeqOfElems, Zenon DEF Listed
<1> QED
  BY <1>1, <1>2, <1>3

\* A correlate lowering keeps.
LowersTo(c, r, x) ==
    /\ lower_correlate(c, r) = Lowered(x)
    /\ x.bind = c.bind /\ x.src = c.src /\ x.kind = c.kind
    /\ x.window = calculable_window(r.anchor.bind, c.time)
    /\ x.topo = << TOPO_FUNCTIONS[c.topo.fn], [i \in DOMAIN c.topo.args |-> metric_path_from_expr(c.topo.args[i])] >>

\* Lowering drops a correlate the phases accepted only with an error.
LEMMA CorrelateLowered ==
    ASSUME NEW c, NEW r, Listed(c.topo.args), TopoErrs(c, RuleEnv(r)) = {}
    PROVE  lower_correlate(c, r).errs # {} \/ \E x : LowersTo(c, r, x)
<1> DEFINE paths == [i \in DOMAIN c.topo.args |-> metric_path_from_expr(c.topo.args[i])]
<1>1. c.topo.fn \in DOMAIN TOPO_FUNCTIONS /\ \A i \in DOMAIN paths : paths[i] # {}
  <2>1. /\ c.topo.fn \in DOMAIN TOPO_FUNCTIONS
        /\ \A i \in DOMAIN c.topo.args : infer_target_scope_expr(c.topo.args[i], RuleEnv(r)) # {}
    BY TopoAccepted, Zenon
  <2>2. ASSUME NEW i \in DOMAIN c.topo.args PROVE metric_path_from_expr(c.topo.args[i]) # {}
    BY <2>1, TopoPaths
  <2> QED
    BY <2>1, <2>2
<1> HIDE DEF paths
<1>2. CASE 0 \in c.min \/ \E n \in c.min : n > MaxMinMatch
  <2>1. lower_correlate(c, r) \in {Dropped({"ADGL0504"}), Dropped({"ADGL0505"})}
    BY <1>1, <1>2, Zenon DEF lower_correlate, paths
  <2> QED
    BY <2>1 DEF Dropped
<1>3. CASE ~(0 \in c.min) /\ ~\E n \in c.min : n > MaxMinMatch
  <2> DEFINE x == [bind |-> c.bind, src |-> c.src, kind |-> c.kind,
                   topo |-> << TOPO_FUNCTIONS[c.topo.fn], paths >>,
                   min |-> IF c.min = {} THEN 1 ELSE Only(c.min),
                   window |-> calculable_window(r.anchor.bind, c.time)]
  <2>1. lower_correlate(c, r) = Lowered(x)
    BY <1>1, <1>3, Zenon DEF lower_correlate, paths
  <2>2. LowersTo(c, r, x)
    BY <2>1 DEF LowersTo, paths
  <2> QED
    BY <2>2, Zenon
<1> QED
  BY <1>2, <1>3

\* The bodies of a rule, empty when it has no branch.
ThenOf(r) == IF HasBranch(r) THEN r.if_else.then ELSE << >>
ElseBody(r) == IF HasBranch(r) THEN ElseOf(r) ELSE << >>

\* What lowering makes of a rule: what it carries over, and how it puts together
\* correlates, windows and bodies.
RuleLowersTo(r, pii, x) ==
    /\ lower_rule(r, pii).val = {x}
    /\ x.src = r.anchor.src /\ x.on = r.anchor.kind /\ x.bind = r.anchor.bind
    /\ x.corr = [i \in DOMAIN r.corr |-> Only(LoweredCorr(r)[i].val)]
    /\ x.maxBack = MaxWindow(x.corr, 1) /\ x.maxForward = MaxWindow(x.corr, 2)
    /\ x.body = Intents(Lower(r, r.body, pii)) /\ AllErrs(Lower(r, r.body, pii)) = {}
    /\ x.then = Intents(Lower(r, ThenOf(r), pii)) /\ AllErrs(Lower(r, ThenOf(r), pii)) = {}
    /\ x.else = Intents(Lower(r, ElseBody(r), pii)) /\ AllErrs(Lower(r, ElseBody(r), pii)) = {}

\* A rule lowered without an error keeps every correlate and body (lower_rule).
LEMMA RuleLowered ==
    ASSUME NEW rs, Accepted(rs), NEW r \in Elems(rs.rules), NEW pii, lower_rule(r, pii).errs = {}
    PROVE  /\ \A i \in DOMAIN r.corr : \E x : LowersTo(r.corr[i], r, x)
           /\ \E x : RuleLowersTo(r, pii, x)
<1> DEFINE corr == LoweredCorr(r)
           env  == RuleEnv(r)
           pred == IF r.anchor.pred = None THEN always_true ELSE Compiled(r.anchor.pred, env)
           body == LowerBody(r.body, env, pii)
           cond == IF HasBranch(r) THEN Compiled(r.if_else.cond, env) ELSE always_true
           then == IF HasBranch(r) THEN LowerBody(r.if_else.then, env, pii) ELSE << >>
           else == IF HasBranch(r) THEN LowerBody(ElseOf(r), env, pii) ELSE << >>
           kept == [i \in DOMAIN corr |-> Only(corr[i].val)]
           x == [name |-> r.name, kind |-> r.kind, scope |-> r.scope,
                 src |-> r.anchor.src, on |-> r.anchor.kind, bind |-> r.anchor.bind,
                 pred |-> pred, corr |-> kept,
                 maxBack |-> MaxWindow(kept, 1), maxForward |-> MaxWindow(kept, 2),
                 branch |-> HasBranch(r), cond |-> cond, body |-> Intents(body),
                 then |-> Intents(then), else |-> Intents(else),
                 unknown |-> IF HasBranch(r) /\ Occurs(r.if_else.cond, {"present", "absent"})
                             THEN << EmitActionI("request_topology", "none", {}) >> ELSE << >>]
           errs == pred.errs \cup AllErrs(body) \cup cond.errs \cup AllErrs(then) \cup AllErrs(else)
<1>1. lower_rule(r, pii) = IF ~All(corr) THEN Dropped(AllErrs(corr) \cup pred.errs)
                           ELSE [val |-> {x}, errs |-> errs]
  BY Zenon DEF lower_rule, LoweredCorr
<1>2. AllErrs(corr) = {}
  <2>1. CASE All(corr)
    <3>1. \A i \in DOMAIN corr : corr[i].errs = {}
      <4>1. \A i \in DOMAIN r.corr : r.corr[i] \in Elems(r.corr)
        BY DEF Elems
      <4>2. \A c \in Elems(r.corr) : Listed(c.topo.args) /\ TopoErrs(c, RuleEnv(r)) = {}
        BY Shapes, PhasesPassed, Zenon DEF RuleShape
      <4>3. ASSUME NEW i \in DOMAIN r.corr PROVE lower_correlate(r.corr[i], r).errs = {}
        <5>1. lower_correlate(r.corr[i], r).val # {}
          BY <2>1 DEF All, LoweredCorr
        <5> QED
          BY <5>1 DEF lower_correlate, Dropped, Lowered
      <4> QED
        BY <4>3 DEF LoweredCorr
    <3> QED
      BY <3>1 DEF AllErrs
  <2>2. CASE ~All(corr)
    <3> HIDE DEF corr, pred, x, errs
    <3> QED
      BY <1>1, <2>2 DEF Dropped
  <2> QED
    BY <2>1, <2>2
<1>3. \A i \in DOMAIN r.corr : \E y : LowersTo(r.corr[i], r, y)
  <2> SUFFICES ASSUME NEW i \in DOMAIN r.corr PROVE \E y : LowersTo(r.corr[i], r, y)
    OBVIOUS
  <2>1. r.corr[i] \in Elems(r.corr)
    BY DEF Elems
  <2>2. Listed(r.corr[i].topo.args) /\ TopoErrs(r.corr[i], RuleEnv(r)) = {}
    BY <2>1, Shapes, PhasesPassed, Zenon DEF RuleShape
  <2>3. lower_correlate(r.corr[i], r).errs = {}
    BY <1>2 DEF AllErrs, LoweredCorr
  <2> QED
    BY <2>2, <2>3, CorrelateLowered, Zenon
<1>4. All(corr)
  <2>1. ASSUME NEW i \in DOMAIN r.corr PROVE corr[i].val # {}
    <3>1. PICK y : LowersTo(r.corr[i], r, y)
      BY <1>3
    <3>2. lower_correlate(r.corr[i], r).val = {y}
      BY <3>1 DEF LowersTo, Lowered
    <3>3. corr[i] = lower_correlate(r.corr[i], r)
      BY DEF LoweredCorr
    <3> HIDE DEF corr
    <3> QED
      BY <3>2, <3>3
  <2> QED
    BY <2>1 DEF All, LoweredCorr
<1>5. lower_rule(r, pii).val = {x} /\ errs = {}
  <2> HIDE DEF corr, x, errs, pred
  <2> QED
    BY <1>1, <1>4
<1>6. then = Lower(r, ThenOf(r), pii) /\ else = Lower(r, ElseBody(r), pii) /\ body = Lower(r, r.body, pii)
  <2>1. \A e : LowerBody(<< >>, e, pii) = << >>
    BY DEF LowerBody
  <2> QED
    BY <2>1, Zenon DEF Lower, ThenOf, ElseBody
<1>7. AllErrs(body) = {} /\ AllErrs(then) = {} /\ AllErrs(else) = {}
  <2> HIDE DEF body, then, else, pred, cond
  <2> QED
    BY <1>5
<1>8. kept = [i \in DOMAIN r.corr |-> Only(LoweredCorr(r)[i].val)]
  <2>1. DOMAIN corr = DOMAIN r.corr
    BY DEF LoweredCorr
  <2> QED
    BY <2>1, Zenon
<1>9. RuleLowersTo(r, pii, x)
  <2>1. /\ x.src = r.anchor.src /\ x.on = r.anchor.kind /\ x.bind = r.anchor.bind /\ x.corr = kept
        /\ x.maxBack = MaxWindow(kept, 1) /\ x.maxForward = MaxWindow(kept, 2)
        /\ x.body = Intents(body) /\ x.then = Intents(then) /\ x.else = Intents(else)
    <3> HIDE DEF kept, body, then, else, pred, cond
    <3> QED
      OBVIOUS
  <2> HIDE DEF x, kept, body, then, else
  <2> QED
    BY <1>5, <1>6, <1>7, <1>8, <2>1 DEF RuleLowersTo
<1> QED
  BY <1>3, <1>9, Zenon

\* Every rule of an accepted ruleset is in its image, in its place.
LEMMA RulesKept ==
    ASSUME NEW rs, Accepted(rs)
    PROVE  LET pii == phase12_privacy_annotations(rs)
               image1 == verify_with_config(rs).image
           IN  /\ DOMAIN image1 = DOMAIN rs.rules /\ Len(image1) = Len(rs.rules)
               /\ \A i \in DOMAIN rs.rules :
                     /\ RuleLowersTo(rs.rules[i], pii, image1[i])
                     /\ \A j \in DOMAIN rs.rules[i].corr :
                           \E x : LowersTo(rs.rules[i].corr[j], rs.rules[i], x)
<1> DEFINE pii == phase12_privacy_annotations(rs)
           n == Len(rs.rules)
           ls == lower_to_image(rs)
<1>1. n \in Nat /\ DOMAIN rs.rules = 1..n
  BY Shapes
<1>2. DOMAIN ls = 1..n /\ \A i \in 1..n : ls[i] = lower_rule(rs.rules[i], pii)
  BY <1>1 DEF lower_to_image
<1> HIDE DEF ls, pii
<1>3. ASSUME NEW i \in 1..n
      PROVE  /\ \A j \in DOMAIN rs.rules[i].corr : \E x : LowersTo(rs.rules[i].corr[j], rs.rules[i], x)
             /\ \E x : RuleLowersTo(rs.rules[i], pii, x)
  <2>1. rs.rules[i] \in Elems(rs.rules)
    BY <1>1 DEF Elems
  <2>2. lower_rule(rs.rules[i], pii).errs = {}
    BY <1>2, NothingReported DEF AllErrs, ls
  <2> QED
    BY <2>1, <2>2, RuleLowered, Zenon
<1> DEFINE v == [i \in 1..n |-> Only(ls[i].val)]
<1>4. ASSUME NEW i \in 1..n PROVE ls[i].val = {v[i]} /\ RuleLowersTo(rs.rules[i], pii, v[i])
  <2>1. PICK x : RuleLowersTo(rs.rules[i], pii, x)
    BY <1>3
  <2>2. ls[i].val = {x}
    BY <1>2, <2>1 DEF RuleLowersTo
  <2>3. v[i] = x
    BY <2>2 DEF Only
  <2> QED
    BY <2>1, <2>2, <2>3
<1>5. Kept(ls) = v
  <2> DEFINE parts == [i \in DOMAIN ls |-> IF ls[i].val = {} THEN << >> ELSE << Only(ls[i].val) >>]
  <2>1. parts = [i \in 1..n |-> << v[i] >>]
    BY <1>2, <1>4
  <2> DEFINE V == {v[i] : i \in 1..n}
  <2>2. v \in [1..n -> V]
    OBVIOUS
  <2>3. Concat(parts) = v
    <3> HIDE DEF v, parts, V, n
    <3> QED
      BY <1>1, <2>1, <2>2, ConcatOfOnes, Zenon
  <2> QED
    BY <2>3 DEF Kept
<1>6. v \in Seq({v[i] : i \in 1..n}) /\ Len(v) = n /\ DOMAIN v = 1..n
  BY <1>1
<1>7. verify_with_config(rs).image = v
  BY <1>5, NothingReported DEF ls
<1> QED
  BY <1>1, <1>3, <1>4, <1>6, <1>7 DEF pii

-----------------------------------------------------------------------------
(* The windows of an accepted ruleset. *)

\* A union of finitely many finite sets is finite.
LEMMA FiniteUnion ==
    ASSUME NEW n \in Nat, NEW S, \A i \in 1..n : IsFiniteSet(S[i])
    PROVE  IsFiniteSet(UNION {S[i] : i \in 1..n})
<1> DEFINE E == {k \in Nat : IsFiniteSet(UNION {S[i] : i \in 1..k})}
<1>1. 0 \in E
  <2>1. UNION {S[i] : i \in 1..0} = {}
    OBVIOUS
  <2> QED
    BY <2>1, FS_EmptySet
<1>2. ASSUME NEW k \in 0..(n - 1), k \in E PROVE k + 1 \in E
  <2>1. UNION {S[i] : i \in 1..(k + 1)} = (UNION {S[i] : i \in 1..k}) \cup S[k + 1]
    OBVIOUS
  <2>2. IsFiniteSet(S[k + 1]) /\ IsFiniteSet(UNION {S[i] : i \in 1..k})
    BY <1>2
  <2>3. IsFiniteSet((UNION {S[i] : i \in 1..k}) \cup S[k + 1])
    BY <2>2, FS_Union, Zenon
  <2>4. IsFiniteSet(UNION {S[i] : i \in 1..(k + 1)})
    BY <2>1, <2>3, Zenon
  <2> QED
    BY <2>4
<1>3. n \in 0..n
  OBVIOUS
<1> HIDE DEF E
<1>4. n \in E
  BY <1>1, <1>2, <1>3, UpTo
<1> QED
  BY <1>4 DEF E

\* The greatest of finitely many natural numbers and 0.
LEMMA MaxOfUnion ==
    ASSUME NEW n \in Nat, NEW S, \A i \in 1..n : IsFiniteSet(S[i]) /\ S[i] \subseteq Nat,
           NEW U, U = {0} \cup UNION {S[i] : i \in 1..n}
    PROVE  /\ MaxOf(U) \in Nat /\ \A i \in 1..n : \A y \in S[i] : y <= MaxOf(U)
           /\ MaxOf(U) = 0 \/ \E i \in 1..n : MaxOf(U) \in S[i]
<1>1. IsFiniteSet(UNION {S[i] : i \in 1..n})
  BY FiniteUnion
<1>2. IsFiniteSet({0})
  BY FS_Singleton
<1>3. IsFiniteSet(U)
  BY <1>1, <1>2, FS_Union, Zenon
<1>4. U \subseteq Nat /\ U # {} /\ U \in SUBSET Int
  OBVIOUS
<1>5. MaxOf(U) \in U /\ \A y \in U : y <= MaxOf(U)
  BY <1>3, <1>4, MaxOfIsMax, Zenon
<1> QED
  BY <1>4, <1>5

\* A window reaches back and forward, and a correlate has at most one
\* (calculable_window).
LEMMA OneWindow ==
    ASSUME NEW rs \in Rulesets, NEW r \in Elems(rs.rules), NEW c \in Elems(r.corr)
    PROVE  LET ws == calculable_window(r.anchor.bind, c.time)
           IN  /\ \A w \in ws : w[1] \in Nat /\ w[2] \in Nat
               /\ \A side \in {1, 2} : IsFiniteSet({w[side] : w \in ws}) /\ {w[side] : w \in ws} \subseteq Nat
<1> DEFINE starts == OffsetOf(r.anchor.bind, c.time.start)
           ends == OffsetOf(r.anchor.bind, c.time.end)
           ws == calculable_window(r.anchor.bind, c.time)
<1>1. /\ starts \subseteq Int /\ \A a, b \in starts : a = b
      /\ ends \subseteq Int /\ \A a, b \in ends : a = b
  BY OffsetAssumption, Zenon
<1>2. ws = {<< -b, f >> : b \in {b \in starts : b <= 0}, f \in {f \in ends : f >= 0}}
  BY DEF calculable_window
<1> HIDE DEF starts, ends, ws
<1>3. \A w \in ws : w[1] \in Nat /\ w[2] \in Nat
  BY <1>1, <1>2
<1>4. \A v, w \in ws : v = w
  BY <1>1, <1>2
<1>5. ASSUME NEW side \in {1, 2} PROVE IsFiniteSet({w[side] : w \in ws}) /\ {w[side] : w \in ws} \subseteq Nat
  <2>1. CASE ws = {}
    BY <2>1, FS_EmptySet
  <2>2. CASE ws # {}
    <3>1. PICK v \in ws : TRUE
      BY <2>2
    <3>2. {w[side] : w \in ws} = {v[side]}
      BY <1>4, <3>1
    <3>3. IsFiniteSet({v[side]})
      BY FS_Singleton
    <3> QED
      BY <1>3, <3>1, <3>2, <3>3
  <2> QED
    BY <2>1, <2>2
<1> QED
  BY <1>3, <1>5 DEF ws

\* Members of a sequence are its elements at some index.
LEMMA ElemsAt ==
    ASSUME NEW s, NEW x \in Elems(s)
    PROVE  \E i \in DOMAIN s : x = s[i]
BY DEF Elems

\* The forward window of a ruleset bounds each of its rules' (phase06_temporal).
LEMMA ForwardBound ==
    ASSUME NEW rs, Accepted(rs)
    PROVE  LET F == ruleset_max_forward_window_ms(rs)
           IN  /\ F \in Nat
               /\ \A r \in Elems(rs.rules) : \A c \in Elems(r.corr) :
                     \A w \in calculable_window(r.anchor.bind, c.time) : w[2] <= F
               /\ F = 0 \/ \E r \in Elems(rs.rules) : \E c \in Elems(r.corr) :
                              \E w \in calculable_window(r.anchor.bind, c.time) : F = w[2]
<1> DEFINE n == Len(rs.rules)
           Win(r, c) == calculable_window(r.anchor.bind, c.time)
           Fwd(r) == {w[2] : w \in WindowsOf(r)}
           S == [i \in 1..n |-> Fwd(rs.rules[i])]
           U == {0} \cup UNION {Fwd(r) : r \in Elems(rs.rules)}
<1>1. rs \in Rulesets /\ n \in Nat /\ DOMAIN rs.rules = 1..n
  BY Shapes DEF Accepted
<1>2. \A i \in 1..n : rs.rules[i] \in Elems(rs.rules)
  BY <1>1 DEF Elems
<1>3. ASSUME NEW r \in Elems(rs.rules) PROVE IsFiniteSet(Fwd(r)) /\ Fwd(r) \subseteq Nat
  <2> DEFINE m == Len(r.corr)
             T == [j \in 1..m |-> {w[2] : w \in Win(r, r.corr[j])}]
  <2>1. m \in Nat /\ DOMAIN r.corr = 1..m
    BY Shapes
  <2>2. \A j \in 1..m : r.corr[j] \in Elems(r.corr)
    BY <2>1 DEF Elems
  <2>3. \A j \in 1..m : IsFiniteSet(T[j]) /\ T[j] \subseteq Nat
    BY <1>1, <2>2, OneWindow
  <2>4. WindowsOf(r) = UNION {Win(r, r.corr[j]) : j \in 1..m}
    BY <2>1, <2>2, ElemsAt DEF WindowsOf
  <2>5. Fwd(r) = UNION {T[j] : j \in 1..m}
    <3> HIDE DEF Win, m
    <3> QED
      BY <2>4
  <2> HIDE DEF T, m, Fwd
  <2>6. IsFiniteSet(UNION {T[j] : j \in 1..m})
    BY <2>1, <2>3, FiniteUnion, Zenon
  <2>7. UNION {T[j] : j \in 1..m} \subseteq Nat
    BY <2>3
  <2> QED
    BY <2>5, <2>6, <2>7
<1>4. \A i \in 1..n : IsFiniteSet(S[i]) /\ S[i] \subseteq Nat
  <2> HIDE DEF Fwd
  <2> QED
    BY <1>2, <1>3
<1>5. U = {0} \cup UNION {S[i] : i \in 1..n}
  <2> HIDE DEF Fwd, n
  <2> QED
    BY <1>1, <1>2, ElemsAt
<1>6. ruleset_max_forward_window_ms(rs) = MaxOf(U)
  BY Zenon DEF ruleset_max_forward_window_ms
<1> HIDE DEF U, S, Fwd, n
<1>7. /\ MaxOf(U) \in Nat /\ \A i \in 1..n : \A y \in S[i] : y <= MaxOf(U)
      /\ MaxOf(U) = 0 \/ \E i \in 1..n : MaxOf(U) \in S[i]
  <2>2. \A i \in 1..n : \A y \in S[i] : y <= MaxOf(U)
    BY <1>1, <1>4, <1>5, MaxOfUnion, Zenon
  <2>3. MaxOf(U) = 0 \/ \E i \in 1..n : MaxOf(U) \in S[i]
    BY <1>1, <1>4, <1>5, MaxOfUnion, Zenon
  <2> QED
    BY <1>4, <2>2, <2>3
<1>8. ASSUME NEW r \in Elems(rs.rules), NEW c \in Elems(r.corr), NEW w \in Win(r, c)
      PROVE  w[2] <= MaxOf(U)
  <2>1. PICK i \in 1..n : r = rs.rules[i]
    BY <1>1, ElemsAt
  <2>2. w[2] \in S[i]
    BY <2>1 DEF S, Fwd, WindowsOf
  <2> QED
    BY <1>7, <2>2
<1>9. ASSUME MaxOf(U) # 0
      PROVE  \E r \in Elems(rs.rules) : \E c \in Elems(r.corr) : \E w \in Win(r, c) : MaxOf(U) = w[2]
  <2>1. PICK i \in 1..n : MaxOf(U) \in S[i]
    BY <1>7, <1>9
  <2>2. PICK w \in WindowsOf(rs.rules[i]) : MaxOf(U) = w[2]
    BY <2>1 DEF S, Fwd
  <2>3. PICK c \in Elems(rs.rules[i].corr) : w \in Win(rs.rules[i], c)
    BY <2>2 DEF WindowsOf
  <2> QED
    BY <1>2, <2>2, <2>3
<1> QED
  BY <1>6, <1>7, <1>8, <1>9

\* The correlates of a lowered rule are those lowering makes of the source's.
LEMMA CorrOf ==
    ASSUME NEW r, NEW pii, NEW x, RuleLowersTo(r, pii, x),
           \A j \in DOMAIN r.corr : \E y : LowersTo(r.corr[j], r, y)
    PROVE  DOMAIN x.corr = DOMAIN r.corr /\ \A j \in DOMAIN r.corr : LowersTo(r.corr[j], r, x.corr[j])
<1>1. x.corr = [j \in DOMAIN r.corr |-> Only(LoweredCorr(r)[j].val)]
  BY DEF RuleLowersTo
<1>2. ASSUME NEW j \in DOMAIN r.corr PROVE LowersTo(r.corr[j], r, x.corr[j])
  <2>1. PICK y : LowersTo(r.corr[j], r, y)
    OBVIOUS
  <2>2. LoweredCorr(r)[j].val = {y}
    BY <2>1 DEF LoweredCorr, LowersTo, Lowered
  <2>3. Only({y}) = y
    BY DEF Only
  <2>4. x.corr[j] = y
    BY <1>1, <2>2, <2>3
  <2> QED
    BY <2>1, <2>4
<1> QED
  BY <1>1, <1>2

\* The longest reach of a lowered rule's windows is 0 or that of one of them.
LEMMA LongestWindow ==
    ASSUME NEW rs, Accepted(rs), NEW r \in Elems(rs.rules), NEW pii, NEW x, RuleLowersTo(r, pii, x),
           \A j \in DOMAIN r.corr : \E y : LowersTo(r.corr[j], r, y), NEW side \in {1, 2}
    PROVE  \/ MaxWindow(x.corr, side) = 0
           \/ \E c \in Elems(r.corr) : \E w \in calculable_window(r.anchor.bind, c.time) :
                 MaxWindow(x.corr, side) = w[side]
<1> DEFINE m == Len(r.corr)
           Side(ws) == {w[side] : w \in ws}
           T == [j \in 1..m |-> Side(calculable_window(r.anchor.bind, r.corr[j].time))]
           U == {0} \cup UNION {Side(c.window) : c \in Elems(x.corr)}
<1>1. rs \in Rulesets /\ m \in Nat /\ DOMAIN r.corr = 1..m
  BY Shapes DEF Accepted
<1>2. \A j \in 1..m : r.corr[j] \in Elems(r.corr)
  BY <1>1 DEF Elems
<1>3. ASSUME NEW j \in 1..m PROVE IsFiniteSet(T[j]) /\ T[j] \subseteq Nat
  <2> DEFINE ws == calculable_window(r.anchor.bind, r.corr[j].time)
  <2>1. IsFiniteSet({w[side] : w \in ws}) /\ {w[side] : w \in ws} \subseteq Nat
    BY <1>1, <1>2, OneWindow, Zenon
  <2>2. T[j] = {w[side] : w \in ws}
    OBVIOUS
  <2> QED
    BY <2>1, <2>2
<1>4. /\ DOMAIN x.corr = 1..m
      /\ \A j \in 1..m : x.corr[j].window = calculable_window(r.anchor.bind, r.corr[j].time)
  <2>1. DOMAIN x.corr = DOMAIN r.corr /\ \A j \in DOMAIN r.corr : LowersTo(r.corr[j], r, x.corr[j])
    BY CorrOf, Zenon
  <2> QED
    BY <1>1, <2>1, Zenon DEF LowersTo
<1>5. U = {0} \cup UNION {T[j] : j \in 1..m}
  <2> HIDE DEF Side, m
  <2>1. \A j \in 1..m : T[j] = Side(x.corr[j].window) /\ x.corr[j] \in Elems(x.corr)
    BY <1>4 DEF Elems
  <2>2. \A c \in Elems(x.corr) : \E j \in 1..m : c = x.corr[j]
    BY <1>4, ElemsAt
  <2> QED
    BY <2>1, <2>2
<1>6. MaxWindow(x.corr, side) = MaxOf(U)
  BY Zenon DEF MaxWindow
<1> HIDE DEF T, U, m, Side
<1>7. MaxOf(U) = 0 \/ \E j \in 1..m : MaxOf(U) \in T[j]
  BY <1>1, <1>3, <1>5, MaxOfUnion, Zenon
<1> QED
  BY <1>2, <1>6, <1>7 DEF T, Side

\* The windows of an accepted ruleset's image, and of each of its rules.
LEMMA ImageWindows ==
    ASSUME NEW rs, Accepted(rs), NEW i \in DOMAIN verify_with_config(rs).image
    PROVE  LET x == verify_with_config(rs).image[i]
               F == ruleset_max_forward_window_ms(rs)
           IN  /\ x.maxBack \in Nat /\ x.maxForward \in Nat
               /\ x.maxBack <= MaxLookback - F /\ x.maxForward <= F
               /\ \A c \in Elems(x.corr) : c.window # {}
<1> DEFINE x == verify_with_config(rs).image[i]
           F == ruleset_max_forward_window_ms(rs)
           r == rs.rules[i]
           pii == phase12_privacy_annotations(rs)
           Win(c) == calculable_window(r.anchor.bind, c.time)
<1>1. /\ RuleLowersTo(r, pii, x) /\ r \in Elems(rs.rules)
      /\ \A j \in DOMAIN r.corr : \E y : LowersTo(r.corr[j], r, y)
  BY RulesKept DEF Elems
<1>2. x.maxBack = MaxWindow(x.corr, 1) /\ x.maxForward = MaxWindow(x.corr, 2)
  BY <1>1 DEF RuleLowersTo
<1>3. rs \in Rulesets
  BY DEF Accepted
<1>4. /\ DOMAIN x.corr = DOMAIN r.corr
      /\ \A j \in DOMAIN r.corr : x.corr[j].window = Win(r.corr[j])
  <2>1. DOMAIN x.corr = DOMAIN r.corr /\ \A j \in DOMAIN r.corr : LowersTo(r.corr[j], r, x.corr[j])
    BY <1>1, CorrOf, Zenon
  <2> QED
    BY <2>1, Zenon DEF LowersTo
<1>5. ASSUME NEW q \in Elems(rs.rules), NEW c \in Elems(q.corr)
      PROVE  /\ calculable_window(q.anchor.bind, c.time) # {}
             /\ \A w \in calculable_window(q.anchor.bind, c.time) :
                   ~(w[1] > MaxLookback - F) /\ ~(w[2] > MaxLookback - F)
  <2>1. WindowErrs(q, c, MaxLookback - F) = {}
    BY PhasesPassed
  <2> HIDE DEF F
  <2> QED
    BY <2>1 DEF WindowErrs, ErrIf
<1>6. F \in Nat /\ MaxLookback \in Nat /\ F <= MaxLookback
  <2>1. /\ F \in Nat
        /\ F = 0 \/ \E q \in Elems(rs.rules) : \E c \in Elems(q.corr) :
                       \E w \in calculable_window(q.anchor.bind, c.time) : F = w[2]
    BY ForwardBound
  <2>2. MaxLookback \in Nat
    BY OffsetAssumption
  <2>3. F = 0 \/ ~(F > MaxLookback - F)
    BY <1>5, <2>1
  <2> HIDE DEF F
  <2> QED
    BY <2>1, <2>2, <2>3
<1>7. ASSUME NEW c \in Elems(r.corr), NEW w \in Win(c)
      PROVE  w[1] \in Nat /\ w[2] \in Nat /\ w[1] <= MaxLookback - F /\ w[2] <= F
  <2>1. w[1] \in Nat /\ w[2] \in Nat
    BY <1>1, <1>3, OneWindow
  <2>2. ~(w[1] > MaxLookback - F)
    BY <1>1, <1>5
  <2>3. w[2] <= F
    BY <1>1, ForwardBound
  <2> HIDE DEF F
  <2> QED
    BY <1>6, <2>1, <2>2, <2>3
<1>8. \A c \in Elems(x.corr) : c.window # {}
  <2> SUFFICES ASSUME NEW c \in Elems(x.corr) PROVE c.window # {}
    OBVIOUS
  <2>1. PICK j \in DOMAIN r.corr : c = x.corr[j]
    BY <1>4, ElemsAt
  <2>2. r.corr[j] \in Elems(r.corr)
    BY DEF Elems
  <2> QED
    BY <1>1, <1>4, <1>5, <2>1, <2>2
<1>9. x.maxBack \in Nat /\ x.maxBack <= MaxLookback - F
  <2>1. x.maxBack = 0 \/ \E c \in Elems(r.corr) : \E w \in Win(c) : x.maxBack = w[1]
    BY <1>1, <1>2, LongestWindow
  <2> HIDE DEF F, x, r, Win
  <2> QED
    BY <1>6, <1>7, <2>1
<1>10. x.maxForward \in Nat /\ x.maxForward <= F
  <2>1. x.maxForward = 0 \/ \E c \in Elems(r.corr) : \E w \in Win(c) : x.maxForward = w[2]
    <3>1. 2 \in {1, 2}
      OBVIOUS
    <3>2. \/ MaxWindow(x.corr, 2) = 0
          \/ \E c \in Elems(r.corr) : \E w \in Win(c) : MaxWindow(x.corr, 2) = w[2]
      <4> HIDE DEF x, r, F, pii
      <4> QED
        BY <1>1, <3>1, LongestWindow, Zenon
    <3> QED
      BY <1>2, <3>2, Zenon
  <2> HIDE DEF F, x, r, Win
  <2> QED
    BY <1>6, <1>7, <2>1
<1> QED
  BY <1>8, <1>9, <1>10

\* An accepted text that means what its author means is of an accepted ruleset.
LEMMA AcceptedMeant ==
    ASSUME FrontInv, TextKeepsMeaning, stage = "accepted"
    PROVE  Accepted(meant) /\ image = verify_with_config(meant).image
BY DEF FrontInv, TextKeepsMeaning, Accepted

\* Look-back windows of an accepted ruleset still fit in the horizon after the
\* evaluation was held back by the longest forward window of any rule
\* (phase06_temporal, run_ruleset's slack), whatever the rules and their number.
THEOREM SlackFits == Spec => [](TextKeepsMeaning => WindowsSurviveSlack)
<1>1. ASSUME FrontInv, TextKeepsMeaning PROVE WindowsSurviveSlack
  <2> SUFFICES ASSUME stage = "accepted"
               PROVE  LET slack == MaxOf({0} \cup {image[i].maxForward : i \in DOMAIN image})
                      IN  \A i \in DOMAIN image :
                             /\ image[i].maxBack + slack <= MaxLookback
                             /\ \A c \in Elems(image[i].corr) : c.window # {}
    BY Zenon DEF WindowsSurviveSlack
  <2>1. Accepted(meant) /\ image = verify_with_config(meant).image
    BY <1>1, AcceptedMeant
  <2> DEFINE F == ruleset_max_forward_window_ms(meant)
             n == Len(meant.rules)
             S == [i \in 1..n |-> {image[i].maxForward}]
             U == {0} \cup {image[i].maxForward : i \in DOMAIN image}
  <2>2. n \in Nat /\ DOMAIN image = 1..n
    BY <2>1, Shapes, RulesKept
  <2>3. ASSUME NEW i \in DOMAIN image
        PROVE  /\ image[i].maxBack \in Nat /\ image[i].maxForward \in Nat
               /\ image[i].maxBack <= MaxLookback - F /\ image[i].maxForward <= F
               /\ \A c \in Elems(image[i].corr) : c.window # {}
    BY <2>1, ImageWindows
  <2>4. F \in Nat /\ MaxLookback \in Nat
    BY <2>1, ForwardBound, OffsetAssumption
  <2> HIDE DEF F, n
  <2>5. \A i \in 1..n : IsFiniteSet(S[i]) /\ S[i] \subseteq Nat
    BY <2>2, <2>3, FS_Singleton
  <2>6. U = {0} \cup UNION {S[i] : i \in 1..n}
    BY <2>2
  <2> HIDE DEF S, U
  <2>7. MaxOf(U) = 0 \/ \E i \in 1..n : MaxOf(U) \in S[i]
    BY <2>2, <2>5, <2>6, MaxOfUnion, Zenon
  <2>8. MaxOf(U) \in Nat /\ MaxOf(U) <= F
    BY <2>2, <2>3, <2>4, <2>7 DEF S
  <2>9. \A i \in DOMAIN image : image[i].maxBack + MaxOf(U) <= MaxLookback
    BY <2>3, <2>4, <2>8
  <2> QED
    BY <2>3, <2>9 DEF U
<1> QED
  BY <1>1, FrontInvariant, PTL

-----------------------------------------------------------------------------
(* The statements of an accepted ruleset and the intents they become. *)

\* The intent of an infer or emit statement carries over what the statement cites.
Cites(s, pii, x) ==
    /\ x.i = (IF s.op = "infer" THEN "infer_cause" ELSE "emit_problem")
    /\ x.kind = s.kind /\ x.target = TargetPath(s)
    /\ x.evidence = EvidenceOf(s) /\ x.pii = PiiOf(s, pii)
SupersedeI(s, env) == [i |-> "supersede", kind |-> env[s.arg].kind, target |-> {<< s.arg, "target" >>}]

\* The intents q a statement is lowered to.
StmtLowersTo(s, env, pii, q) ==
    /\ lower_stmt(s, env, pii).val = {q}
    /\ \/ s.op \in {"infer", "emit"} /\ \E x : q = << x >> /\ Cites(s, pii, x)
       \/ /\ s.op = "action" /\ s.kind \in DOMAIN ActionTable /\ s.kind # "suppress_symptom"
          /\ q = << EmitActionI(s.kind, s.arg, TargetPath(s)) >>
       \/ /\ s.op = "action" /\ s.kind = "suppress_symptom"
          /\ s.arg \in DOMAIN env /\ env[s.arg].src = "problem"
          /\ q = << SupersedeI(s, env), EmitActionI(s.kind, s.arg, {<< s.arg, "target" >>}) >>

\* Lowering drops a statement the catalog phase accepted only with an error.
LEMMA StmtLowered ==
    ASSUME NEW s, NEW env, NEW pii, s.op \in {"infer", "emit", "action"},
           validate_stmt_catalog(s, env) = {}, lower_stmt(s, env, pii).errs = {}
    PROVE  \E q : StmtLowersTo(s, env, pii, q)
<1>1. CASE s.op = "infer"
  <2>1. lower_stmt(s, env, pii) = lower_infer(s, pii)
    BY <1>1 DEF lower_stmt
  <2> DEFINE w == FirstOr(FieldsOf(s, "weight"), LAMBDA y : y.v, 0)
             x == [i |-> "infer_cause", kind |-> s.kind, target |-> TargetPath(s),
                   weight |-> w, evidence |-> EvidenceOf(s), pii |-> PiiOf(s, pii)]
  <2>2. lower_infer(s, pii) = IF TargetPath(s) = {} THEN Dropped({"ADGL0210"})
                              ELSE IF w \notin -100..100 THEN Dropped({"ADGL0205"})
                              ELSE Lowered(<< x >>)
    BY Zenon DEF lower_infer
  <2> HIDE DEF w, x
  <2>3. lower_infer(s, pii) = Lowered(<< x >>)
    BY <2>1, <2>2 DEF Dropped
  <2>4. Cites(s, pii, x)
    BY <1>1 DEF Cites, x
  <2>5. lower_stmt(s, env, pii).val = {<< x >>}
    BY <2>1, <2>3 DEF Lowered
  <2>6. s.op \in {"infer", "emit"} /\ \E y : << x >> = << y >> /\ Cites(s, pii, y)
    BY <1>1, <2>4
  <2> QED
    BY <2>5, <2>6, Zenon DEF StmtLowersTo
<1>2. CASE s.op = "emit"
  <2>1. lower_stmt(s, env, pii) = lower_emit(s, pii)
    BY <1>2 DEF lower_stmt
  <2> DEFINE schema == IF Resolves("problem", s.kind) THEN Problems[s.kind]
                       ELSE [severity |-> "Medium", sarif |-> "unknown"]
             x == [i |-> "emit_problem", kind |-> s.kind, target |-> TargetPath(s),
                   severity |-> FirstOr(FieldsOf(s, "severity"), LAMBDA y : y.sev, schema.severity),
                   sarif |-> FirstOr(FieldsOf(s, "sarif_id"), LAMBDA y : y.s, schema.sarif),
                   evidence |-> EvidenceOf(s), pii |-> PiiOf(s, pii)]
  <2>2. lower_emit(s, pii) = Lowered(<< x >>)
    BY Zenon DEF lower_emit
  <2>4. Cites(s, pii, x)
    <3> HIDE DEF schema
    <3> QED
      BY <1>2 DEF Cites
  <2> HIDE DEF schema, x
  <2>5. lower_stmt(s, env, pii).val = {<< x >>}
    BY <2>1, <2>2 DEF Lowered
  <2>6. s.op \in {"infer", "emit"} /\ \E y : << x >> = << y >> /\ Cites(s, pii, y)
    BY <1>2, <2>4
  <2> QED
    BY <2>5, <2>6, Zenon DEF StmtLowersTo
<1>3. CASE s.op = "action"
  <2>1. lower_stmt(s, env, pii) = lower_action(s, env)
    BY <1>3 DEF lower_stmt
  <2>2. s.kind \in DOMAIN ActionTable
    BY <1>3 DEF validate_stmt_catalog, ActionArgErrs
  <2>3. CASE s.kind # "suppress_symptom"
    <3> DEFINE q == << EmitActionI(s.kind, s.arg, TargetPath(s)) >>
    <3>1. lower_action(s, env) = Lowered(q)
      BY <2>2, <2>3, Zenon DEF lower_action
    <3>2. lower_stmt(s, env, pii).val = {q}
      BY <2>1, <3>1 DEF Lowered
    <3>3. StmtLowersTo(s, env, pii, q)
      BY <1>3, <2>2, <2>3, <3>2, Zenon DEF StmtLowersTo
    <3> QED
      BY <3>3, Zenon
  <2>4. CASE s.kind = "suppress_symptom"
    <3> DEFINE q == << SupersedeI(s, env), EmitActionI(s.kind, s.arg, {<< s.arg, "target" >>}) >>
    <3>1. lower_action(s, env) = IF s.arg \in DOMAIN env /\ env[s.arg].src = "problem"
                                 THEN Lowered(q) ELSE Dropped({"ADGL0209"})
      BY <2>2, <2>4, Zenon DEF lower_action, SupersedeI
    <3>2. s.arg \in DOMAIN env /\ env[s.arg].src = "problem" /\ lower_stmt(s, env, pii).val = {q}
      <4> HIDE DEF q
      <4> QED
        BY <2>1, <3>1 DEF Dropped, Lowered
    <3>3. StmtLowersTo(s, env, pii, q)
      BY <1>3, <2>4, <3>2, Zenon DEF StmtLowersTo
    <3> QED
      BY <3>3, Zenon
  <2> QED
    BY <2>3, <2>4
<1> QED
  BY <1>1, <1>2, <1>3

\* The bodies of a rule, lowered without an error, whose statements passed the
\* catalog phase.
BodyLowers(stmts, env, pii) ==
    /\ BodyShape(stmts) /\ AllErrs(LowerBody(stmts, env, pii)) = {}
    /\ \A s \in Elems(stmts) : validate_stmt_catalog(s, env) = {}

\* The intents of a body, statement by statement.
StmtParts(stmts, env, pii, n, parts) ==
    /\ n \in Nat /\ DOMAIN stmts = 1..n /\ parts = [i \in 1..n |-> parts[i]]
    /\ Intents(LowerBody(stmts, env, pii)) = Concat(parts)
    /\ \A i \in 1..n : stmts[i] \in Elems(stmts) /\ StmtLowersTo(stmts[i], env, pii, parts[i])
LEMMA IntentsOfBody ==
    ASSUME NEW stmts, NEW env, NEW pii, BodyLowers(stmts, env, pii)
    PROVE  \E n, parts : StmtParts(stmts, env, pii, n, parts)
<1> DEFINE n == Len(stmts)
           ls == LowerBody(stmts, env, pii)
           part(i) == IF ls[i].val = {} THEN << >> ELSE Only(ls[i].val)
           parts == [i \in 1..n |-> part(i)]
<1>1. n \in Nat /\ DOMAIN stmts = 1..n
  BY SeqOfElems, Zenon DEF BodyLowers, BodyShape, Listed
<1>2. DOMAIN ls = 1..n /\ \A i \in 1..n : ls[i] = lower_stmt(stmts[i], env, pii)
  BY <1>1 DEF LowerBody
<1>3. ASSUME NEW i \in 1..n
      PROVE  stmts[i] \in Elems(stmts) /\ StmtLowersTo(stmts[i], env, pii, parts[i])
  <2>1. stmts[i] \in Elems(stmts)
    BY <1>1 DEF Elems
  <2>2. stmts[i].op \in {"infer", "emit", "action"} /\ validate_stmt_catalog(stmts[i], env) = {}
    BY <2>1, Zenon DEF BodyLowers, BodyShape
  <2>3. lower_stmt(stmts[i], env, pii).errs = {}
    BY <1>2 DEF BodyLowers, AllErrs
  <2>4. PICK q : StmtLowersTo(stmts[i], env, pii, q)
    <3> HIDE DEF ls, part, parts, n
    <3> QED
      BY <2>2, <2>3, StmtLowered
  <2>5. ls[i].val = {q}
    BY <1>2, <2>4 DEF StmtLowersTo
  <2>6. part(i) = q
    <3> HIDE DEF ls
    <3> QED
      BY <2>5 DEF Only
  <2>7. parts[i] = q
    <3> HIDE DEF part
    <3> QED
      BY <2>6
  <2> QED
    BY <2>1, <2>4, <2>7
<1>4. Intents(ls) = Concat(parts)
  <2>1. Intents(ls) = Concat([i \in DOMAIN ls |-> part(i)])
    BY Zenon DEF Intents
  <2> QED
    BY <1>2, <2>1, Zenon
<1>5. parts = [i \in 1..n |-> parts[i]]
  <2> HIDE DEF part
  <2> QED
    OBVIOUS
<1> HIDE DEF parts, n
<1>6. StmtParts(stmts, env, pii, n, parts)
  BY <1>1, <1>3, <1>4, <1>5 DEF StmtParts
<1> QED
  BY <1>6, Zenon

\* A part is a sequence of one or two intents.
LEMMA PartType ==
    ASSUME NEW s, NEW env, NEW pii, NEW q, StmtLowersTo(s, env, pii, q)
    PROVE  q \in Seq(Elems(q))
<1>1. (\E y : q = << y >>) \/ (\E y, z : q = << y, z >>)
  BY Zenon DEF StmtLowersTo
<1>2. CASE \E y : q = << y >>
  <2>1. PICK y : q = << y >>
    BY <1>2
  <2> QED
    BY <2>1 DEF Elems
<1>3. CASE \E y, z : q = << y, z >>
  <2>1. PICK y, z : q = << y, z >>
    BY <1>3
  <2> QED
    BY <2>1 DEF Elems
<1> QED
  BY <1>1, <1>2, <1>3

\* Sequences are ones over any set with their elements.
LEMMA SeqOver ==
    ASSUME NEW s, NEW V, s \in Seq(Elems(s)), Elems(s) \subseteq V
    PROVE  s \in Seq(V)
<1>1. Len(s) \in Nat /\ s \in [1..Len(s) -> V]
  OBVIOUS
<1> QED
  BY <1>1, FunctionIsSeq

\* Every intent of a body is one of a statement's.
LEMMA IntentFrom ==
    ASSUME NEW stmts, NEW env, NEW pii, BodyLowers(stmts, env, pii),
           NEW x \in Elems(Intents(LowerBody(stmts, env, pii)))
    PROVE  \E s \in Elems(stmts) : \E q : StmtLowersTo(s, env, pii, q) /\ x \in Elems(q)
<1>1. PICK n, parts : StmtParts(stmts, env, pii, n, parts)
  BY IntentsOfBody, Zenon
<1>2. /\ n \in Nat /\ DOMAIN stmts = 1..n /\ parts = [i \in 1..n |-> parts[i]]
      /\ Intents(LowerBody(stmts, env, pii)) = Concat(parts)
      /\ \A i \in 1..n : stmts[i] \in Elems(stmts) /\ StmtLowersTo(stmts[i], env, pii, parts[i])
  BY <1>1, Zenon DEF StmtParts
<1> DEFINE V == UNION {Elems(parts[i]) : i \in 1..n}
<1>3. ASSUME NEW i \in 1..n PROVE parts[i] \in Seq(V)
  <2>1. parts[i] \in Seq(Elems(parts[i]))
    BY <1>2, PartType, Zenon
  <2>2. Elems(parts[i]) \subseteq V
    OBVIOUS
  <2> HIDE DEF V
  <2> QED
    BY <2>1, <2>2, SeqOver, Zenon
<1>4. parts \in [1..n -> Seq(V)]
  <2> HIDE DEF V
  <2> QED
    BY <1>2, <1>3
<1>5. Concat(parts) \in Seq(V)
  <2> HIDE DEF V
  <2> QED
    BY <1>2, <1>4, ConcatType, Zenon
<1>6. x \in V
  <2> HIDE DEF V
  <2>1. Elems(Concat(parts)) \subseteq V
    BY <1>5, SeqOfElems, Zenon
  <2> QED
    BY <1>2, <2>1
<1>7. PICK i \in 1..n : x \in Elems(parts[i])
  BY <1>6
<1> QED
  BY <1>2, <1>7

\* The elements of two sequences joined are those of both.
LEMMA ElemsJoin ==
    ASSUME NEW a, NEW b, Listed(a), Listed(b)
    PROVE  Elems(a \o b) = Elems(a) \cup Elems(b) /\ Listed(a \o b)
<1> DEFINE V == Elems(a) \cup Elems(b)
           la == Len(a)
           lb == Len(b)
           c == a \o b
<1>1. a \in Seq(V) /\ b \in Seq(V)
  BY SeqOver, Zenon DEF Listed
<1>2. /\ c \in Seq(V) /\ Len(c) = la + lb /\ la \in Nat /\ lb \in Nat
      /\ \A j \in 1..la : c[j] = a[j]
      /\ \A j \in 1..(la + lb) : j > la => c[j] = b[j - la]
  BY <1>1, JoinIndex, Zenon
<1>3. DOMAIN a = 1..la /\ DOMAIN b = 1..lb /\ DOMAIN c = 1..(la + lb)
  BY <1>1, <1>2
<1> HIDE DEF la, lb, c
<1>4. Elems(c) \subseteq V
  BY <1>2, SeqOfElems, Zenon
<1>5. Elems(a) \subseteq Elems(c)
  <2> SUFFICES ASSUME NEW i \in 1..la PROVE a[i] \in Elems(c)
    BY <1>3 DEF Elems
  <2>1. i \in 1..(la + lb) /\ c[i] = a[i]
    BY <1>2
  <2> QED
    BY <1>3, <2>1 DEF Elems
<1>6. Elems(b) \subseteq Elems(c)
  <2> SUFFICES ASSUME NEW i \in 1..lb PROVE b[i] \in Elems(c)
    BY <1>3 DEF Elems
  <2>1. la + i \in 1..(la + lb) /\ la + i > la /\ (la + i) - la = i
    BY <1>2
  <2>2. c[la + i] = b[i]
    BY <1>2, <2>1
  <2> QED
    BY <1>3, <2>1, <2>2 DEF Elems
<1>7. c \in Seq(Elems(c))
  BY <1>2, SeqOfElems, Zenon
<1> QED
  BY <1>4, <1>5, <1>6, <1>7 DEF c, Listed

\* The statements of a rule are those of its bodies (gather_rule_statements).
LEMMA StatementsOf ==
    ASSUME NEW r, RuleShape(r)
    PROVE  /\ BodyShape(r.body) /\ BodyShape(ThenOf(r)) /\ BodyShape(ElseBody(r))
           /\ Elems(gather_rule_statements(r)) = Elems(r.body) \cup Elems(ThenOf(r)) \cup Elems(ElseBody(r))
<1>0. Elems(<< >>) = {} /\ Listed(<< >>)
  BY DEF Elems, Listed
<1>1. BodyShape(r.body) /\ BodyShape(ThenOf(r)) /\ BodyShape(ElseBody(r))
  <2>1. BodyShape(<< >>)
    BY <1>0 DEF BodyShape
  <2> QED
    BY <2>1, Zenon DEF RuleShape, ThenOf, ElseBody
<1>2. Listed(r.body) /\ Listed(ThenOf(r)) /\ Listed(ElseBody(r))
  BY <1>1, Zenon DEF BodyShape
<1>3. CASE HasBranch(r)
  <2>1. gather_rule_statements(r) = r.body \o (ThenOf(r) \o ElseBody(r))
    BY <1>3 DEF gather_rule_statements, ThenOf, ElseBody
  <2>2. /\ Elems(ThenOf(r) \o ElseBody(r)) = Elems(ThenOf(r)) \cup Elems(ElseBody(r))
        /\ Listed(ThenOf(r) \o ElseBody(r))
    BY <1>2, ElemsJoin, Zenon
  <2>3. Elems(r.body \o (ThenOf(r) \o ElseBody(r))) = Elems(r.body) \cup Elems(ThenOf(r) \o ElseBody(r))
    BY <1>2, <2>2, ElemsJoin, Zenon
  <2> QED
    BY <1>1, <2>1, <2>2, <2>3
<1>4. CASE ~HasBranch(r)
  <2>1. gather_rule_statements(r) = r.body \o << >> /\ ThenOf(r) = << >> /\ ElseBody(r) = << >>
    BY <1>4 DEF gather_rule_statements, ThenOf, ElseBody
  <2>2. Elems(r.body \o << >>) = Elems(r.body) \cup Elems(<< >>)
    BY <1>0, <1>2, ElemsJoin, Zenon
  <2> QED
    BY <1>0, <1>1, <2>1, <2>2
<1> QED
  BY <1>3, <1>4

\* Every intent of a lowered rule is one of a statement's of its source.
LEMMA IntentOfRule ==
    ASSUME NEW rs, Accepted(rs), NEW r \in Elems(rs.rules), NEW pii, NEW x, RuleLowersTo(r, pii, x)
    PROVE  /\ BodyLowers(r.body, RuleEnv(r), pii) /\ BodyLowers(ThenOf(r), RuleEnv(r), pii)
           /\ BodyLowers(ElseBody(r), RuleEnv(r), pii)
           /\ \A y \in IntentsOf(x) :
                 \E s \in Elems(gather_rule_statements(r)) : \E q :
                    StmtLowersTo(s, RuleEnv(r), pii, q) /\ y \in Elems(q)
<1>1. RuleShape(r) /\ \A s \in Elems(gather_rule_statements(r)) : validate_stmt_catalog(s, RuleEnv(r)) = {}
  BY Shapes, PhasesPassed, Zenon
<1>2. Elems(gather_rule_statements(r)) = Elems(r.body) \cup Elems(ThenOf(r)) \cup Elems(ElseBody(r))
  BY <1>1, StatementsOf, Zenon
<1>3. \A stmts \in {r.body, ThenOf(r), ElseBody(r)} :
         Elems(stmts) \subseteq Elems(gather_rule_statements(r)) /\ BodyShape(stmts)
  BY <1>1, <1>2, StatementsOf
<1>4. /\ AllErrs(LowerBody(r.body, RuleEnv(r), pii)) = {}
      /\ AllErrs(LowerBody(ThenOf(r), RuleEnv(r), pii)) = {}
      /\ AllErrs(LowerBody(ElseBody(r), RuleEnv(r), pii)) = {}
  BY Zenon DEF RuleLowersTo, Lower
<1>5. \A stmts \in {r.body, ThenOf(r), ElseBody(r)} : BodyLowers(stmts, RuleEnv(r), pii)
  <2> SUFFICES ASSUME NEW stmts \in {r.body, ThenOf(r), ElseBody(r)}
               PROVE  BodyLowers(stmts, RuleEnv(r), pii)
    OBVIOUS
  <2>1. AllErrs(LowerBody(stmts, RuleEnv(r), pii)) = {}
    BY <1>4
  <2>2. \A s \in Elems(stmts) : validate_stmt_catalog(s, RuleEnv(r)) = {}
    BY <1>1, <1>3
  <2> QED
    BY <1>3, <2>1, <2>2, Zenon DEF BodyLowers
<1>6. ASSUME NEW y \in IntentsOf(x)
      PROVE  \E s \in Elems(gather_rule_statements(r)) : \E q :
                StmtLowersTo(s, RuleEnv(r), pii, q) /\ y \in Elems(q)
  <2>1. /\ x.body = Intents(LowerBody(r.body, RuleEnv(r), pii))
        /\ x.then = Intents(LowerBody(ThenOf(r), RuleEnv(r), pii))
        /\ x.else = Intents(LowerBody(ElseBody(r), RuleEnv(r), pii))
    BY Zenon DEF RuleLowersTo, Lower
  <2>2. PICK stmts \in {r.body, ThenOf(r), ElseBody(r)} :
               y \in Elems(Intents(LowerBody(stmts, RuleEnv(r), pii)))
    BY <1>6, <2>1 DEF IntentsOf
  <2>3. BodyLowers(stmts, RuleEnv(r), pii)
    BY <1>5
  <2>4. PICK s \in Elems(stmts) : \E q : StmtLowersTo(s, RuleEnv(r), pii, q) /\ y \in Elems(q)
    BY <2>2, <2>3, IntentFrom, Zenon
  <2> QED
    BY <1>3, <2>4
<1> QED
  BY <1>5, <1>6

\* What a name of the environment is bound to: the anchor or a correlate of that name.
Binder(r, i) == IF i = 0 THEN r.anchor ELSE r.corr[i]
BoundAt(r, n, i) ==
    /\ i \in 0..Len(r.corr) /\ Binder(r, i).bind = n
    /\ RuleEnv(r)[n] = [src |-> Binder(r, i).src, kind |-> Binder(r, i).kind, idx |-> i]
LEMMA EnvEntry ==
    ASSUME NEW r, Len(r.corr) \in Nat
    PROVE  /\ DOMAIN RuleEnv(r) = {Binder(r, i).bind : i \in 0..Len(r.corr)}
           /\ \A n \in DOMAIN RuleEnv(r) : \E i : BoundAt(r, n, i)
<1> DEFINE m == Len(r.corr)
           B(i) == IF i = 0 THEN r.anchor ELSE r.corr[i]
           IsLast(i, n) == B(i).bind = n /\ \A j \in (i + 1)..m : B(j).bind # n
           Last(n) == CHOOSE i \in 0..m : IsLast(i, n)
           Names == {B(i).bind : i \in 0..m}
<1>1. RuleEnv(r) = [n \in Names |-> [src |-> B(Last(n)).src, kind |-> B(Last(n)).kind, idx |-> Last(n)]]
  BY Zenon DEF RuleEnv
<1>2. \A i : B(i) = Binder(r, i)
  BY Zenon DEF Binder
<1> HIDE DEF B, m
<1>3. ASSUME NEW n \in Names PROVE Last(n) \in 0..m /\ IsLast(Last(n), n)
  <2> DEFINE S == {m - i : i \in {i \in 0..m : B(i).bind = n}}
  <2>1. m \in Nat
    BY DEF m
  <2>2. S \in SUBSET Nat /\ S # {}
    BY <2>1
  <2>3. PICK l \in S : \A k \in S : l <= k
    BY <2>2, LeastNatural, Zenon
  <2>4. PICK i \in 0..m : B(i).bind = n /\ l = m - i
    BY <2>3
  <2>5. ASSUME NEW j \in (i + 1)..m PROVE B(j).bind # n
    <3>1. j \in 0..m /\ j > i /\ m - j < l
      BY <2>1, <2>4
    <3>2. m - j \in S => l <= m - j
      BY <2>3
    <3>3. m - j \notin S
      BY <2>1, <2>4, <3>1, <3>2
    <3> QED
      BY <3>1, <3>3
  <2>6. \E k \in 0..m : IsLast(k, n)
    BY <2>4, <2>5
  <2> HIDE DEF IsLast
  <2> QED
    BY <2>6, Zenon
<1> HIDE DEF Last
<1>4. ASSUME NEW n \in Names
      PROVE  \E i \in 0..m : B(i).bind = n /\ RuleEnv(r)[n] = [src |-> B(i).src, kind |-> B(i).kind, idx |-> i]
  BY <1>1, <1>3, Zenon
<1>5. DOMAIN RuleEnv(r) = Names
  BY <1>1, Zenon
<1> QED
  BY <1>2, <1>4, <1>5 DEF m, BoundAt

\* Every name of an accepted rule is bound to a kind of the catalog
\* (phase01_catalog_resolution).
LEMMA EnvResolves ==
    ASSUME NEW rs, Accepted(rs), NEW r \in Elems(rs.rules), NEW n \in DOMAIN RuleEnv(r)
    PROVE  /\ RuleEnv(r)[n].src \in {"event", "cause", "problem"}
           /\ Resolves(RuleEnv(r)[n].src, RuleEnv(r)[n].kind)
<1>1. RuleShape(r) /\ DOMAIN r.corr = 1..Len(r.corr) /\ Len(r.corr) \in Nat
  BY Shapes, Zenon
<1>2. PICK i : BoundAt(r, n, i)
  BY <1>1, EnvEntry, Zenon
<1>3. /\ Binder(r, i).src \in {"event", "cause", "problem"}
      /\ UnknownKind(Binder(r, i).src, Binder(r, i).kind) = {}
  <2>1. CASE i = 0
    <3>1. r.anchor.src \in {"event", "cause", "problem"}
      BY <1>1, Zenon DEF RuleShape
    <3>2. UnknownKind(r.anchor.src, r.anchor.kind) = {}
      BY PhasesPassed, Zenon
    <3> QED
      BY <2>1, <3>1, <3>2 DEF Binder
  <2>2. CASE i # 0
    <3>1. i \in DOMAIN r.corr
      BY <1>1, <1>2, <2>2 DEF BoundAt
    <3>2. r.corr[i] \in Elems(r.corr)
      BY <3>1 DEF Elems
    <3>3. r.corr[i].src \in {"event", "cause", "problem"}
      BY <1>1, <3>2, Zenon DEF RuleShape
    <3>4. UnknownKind(r.corr[i].src, r.corr[i].kind) = {}
      BY <3>2, PhasesPassed, Zenon
    <3> QED
      BY <2>2, <3>3, <3>4 DEF Binder
  <2> QED
    BY <2>1, <2>2
<1>4. Resolves(Binder(r, i).src, Binder(r, i).kind)
  BY <1>3 DEF UnknownKind, ErrIf
<1> QED
  BY <1>2, <1>3, <1>4 DEF BoundAt

\* What a statement of an accepted rule cites as evidence is bound
\* (validate_stmt_catalog).
LEMMA EvidenceBound ==
    ASSUME NEW s, NEW env, Listed(s.fields), s.op \in {"infer", "emit"}, validate_stmt_catalog(s, env) = {}
    PROVE  Elems(EvidenceOf(s)) \subseteq DOMAIN env
<1> DEFINE fields == FieldsOf(s, "evidence")
<1>1. fields \in Seq(Elems(s.fields))
  BY PickedType, Zenon DEF FieldsOf, Listed
<1>2. \A f \in Elems(fields) : Elems(f.ids) \subseteq DOMAIN env
  <2> HIDE DEF fields
  <2>1. \A f \in Elems(FieldsOf(s, "evidence")) : Elems(f.ids) \subseteq DOMAIN env
    BY DEF validate_stmt_catalog, ErrIf
  <2> QED
    BY <2>1 DEF fields
<1>3. EvidenceOf(s) = IF fields = << >> THEN << >> ELSE fields[1].ids
  BY Zenon DEF EvidenceOf, FirstOr
<1> HIDE DEF fields
<1>4. CASE fields = << >>
  BY <1>3, <1>4 DEF Elems
<1>5. CASE fields # << >>
  <2>1. fields[1] \in Elems(fields)
    BY <1>1, <1>5 DEF Elems
  <2> QED
    BY <1>2, <1>3, <1>5, <2>1
<1> QED
  BY <1>4, <1>5

\* What a statement's intents are.
LEMMA CitingIntents ==
    ASSUME NEW s, NEW env, NEW pii, NEW q, StmtLowersTo(s, env, pii, q), NEW x \in Elems(q)
    PROVE  \/ s.op \in {"infer", "emit"} /\ Cites(s, pii, x)
           \/ s.op = "action" /\ x.i = "emit_action" /\ s.kind \in DOMAIN ActionTable
                /\ \/ s.kind # "suppress_symptom" /\ x = EmitActionI(s.kind, s.arg, TargetPath(s))
                   \/ s.arg \in DOMAIN env /\ env[s.arg].src = "problem" /\ x = EmitActionI(s.kind, s.arg, {<< s.arg, "target" >>})
           \/ s.op = "action" /\ x.i = "supersede"
                /\ s.arg \in DOMAIN env /\ env[s.arg].src = "problem" /\ x = SupersedeI(s, env)
<1>1. CASE s.op \in {"infer", "emit"} /\ \E y : q = << y >> /\ Cites(s, pii, y)
  <2>1. PICK y : q = << y >> /\ Cites(s, pii, y)
    BY <1>1
  <2>2. x = y
    BY <2>1 DEF Elems
  <2> QED
    BY <1>1, <2>1, <2>2
<1>2. CASE /\ s.op = "action" /\ s.kind \in DOMAIN ActionTable /\ s.kind # "suppress_symptom"
           /\ q = << EmitActionI(s.kind, s.arg, TargetPath(s)) >>
  <2>1. x = EmitActionI(s.kind, s.arg, TargetPath(s))
    BY <1>2 DEF Elems
  <2> QED
    BY <1>2, <2>1 DEF EmitActionI
<1>3. CASE /\ s.op = "action" /\ s.kind = "suppress_symptom"
           /\ s.arg \in DOMAIN env /\ env[s.arg].src = "problem"
           /\ q = << SupersedeI(s, env), EmitActionI(s.kind, s.arg, {<< s.arg, "target" >>}) >>
  <2>1. x = SupersedeI(s, env) \/ x = EmitActionI(s.kind, s.arg, {<< s.arg, "target" >>})
    BY <1>3 DEF Elems
  <2>2. "suppress_symptom" \in DOMAIN ActionTable
    BY DEF ActionTable
  <2> QED
    BY <1>3, <2>1, <2>2 DEF SupersedeI, EmitActionI
<1> QED
  BY <1>1, <1>2, <1>3, Zenon DEF StmtLowersTo

\* No private field escapes the mask: whatever the catalog marks private of an
\* event an intent cites as evidence is in the list the engine masks by
\* (phase12_privacy_annotations, lower_infer, lower_emit), in every rule and body.
THEOREM PrivacyKept == Spec => [](TextKeepsMeaning => PrivateFieldsMasked)
<1>1. ASSUME FrontInv, TextKeepsMeaning PROVE PrivateFieldsMasked
  <2> SUFFICES ASSUME stage = "accepted", NEW i \in DOMAIN image, NEW x \in IntentsOf(image[i]),
                      x.i \in {"infer_cause", "emit_problem"}, NEW n \in Elems(x.evidence),
                      RuleEnv(meant.rules[i])[n].src = "event",
                      NEW f \in Elems(Events[RuleEnv(meant.rules[i])[n].kind]), f.pii
               PROVE  << n, f.name >> \in x.pii
    BY Zenon DEF PrivateFieldsMasked
  <2> DEFINE r == meant.rules[i]
             env == RuleEnv(r)
             pii == phase12_privacy_annotations(meant)
  <2>1. Accepted(meant) /\ image = verify_with_config(meant).image
    BY <1>1, AcceptedMeant
  <2>2. RuleLowersTo(r, pii, image[i]) /\ r \in Elems(meant.rules)
    BY <2>1, RulesKept DEF Elems
  <2> HIDE DEF r, pii
  <2>3. PICK s \in Elems(gather_rule_statements(r)) : \E q : StmtLowersTo(s, env, pii, q) /\ x \in Elems(q)
    BY <2>1, <2>2, IntentOfRule, Zenon
  <2>4. Cites(s, pii, x) /\ s.op \in {"infer", "emit"}
    BY <2>3, CitingIntents
  <2>5. Listed(s.fields) /\ validate_stmt_catalog(s, env) = {}
    <3>1. RuleShape(r)
      BY <2>1, <2>2, Shapes, Zenon
    <3>2. Listed(s.fields)
      BY <3>1, StatementsOf DEF BodyShape
    <3> QED
      BY <2>1, <2>2, <3>2, PhasesPassed, Zenon
  <2>6. x.evidence = EvidenceOf(s) /\ x.pii = {p \in pii : p[1] \in Elems(EvidenceOf(s))}
    BY <2>4, Zenon DEF Cites, PiiOf
  <2>7. n \in DOMAIN env
    BY <2>4, <2>5, <2>6, EvidenceBound
  <2>8. Resolves("event", env[n].kind) /\ env[n].src = "event"
    BY <2>1, <2>2, <2>7, EnvResolves DEF r
  <2>9. Fields("event", env[n].kind) = Events[env[n].kind]
    BY <2>8 DEF Fields
  <2> DEFINE private(m, e) == {<< m, t.name >> : t \in {t \in Elems(Fields("event", e[m].kind)) : t.pii}}
             listed(e) == UNION {private(m, e) : m \in {m \in DOMAIN e : e[m].src = "event"}}
  <2>10. << n, f.name >> \in private(n, env)
    BY <2>9, Zenon DEF r
  <2> HIDE DEF private
  <2>11. << n, f.name >> \in listed(env)
    BY <2>7, <2>8, <2>10
  <2>12. pii = UNION {listed(RuleEnv(p)) : p \in Elems(meant.rules)}
    BY Zenon DEF phase12_privacy_annotations, pii, private
  <2> HIDE DEF listed
  <2>13. << n, f.name >> \in pii
    BY <2>2, <2>11, <2>12
  <2> QED
    BY <2>6, <2>13
<1> QED
  BY <1>1, FrontInvariant, PTL

-----------------------------------------------------------------------------
(* Nothing of an accepted ruleset is dropped and every name of it resolves. *)

BriefOf(x) == IF x.i = "supersede" THEN << "supersede" >> ELSE << x.i, x.kind >>

\* A statement's intents are the ones its source calls for.
LEMMA PartExpected ==
    ASSUME NEW s, NEW env, NEW pii, NEW q, StmtLowersTo(s, env, pii, q), NEW R,
           \A x \in Elems(q) : << x, BriefOf(x) >> \in R
    PROVE  Expects(s) \in Seq(Elems(Expects(s))) /\ Corresponds(q, Expects(s), R)
<1>1. CASE s.op \in {"infer", "emit"} /\ \E x : q = << x >> /\ Cites(s, pii, x)
  <2>1. PICK x : q = << x >> /\ Cites(s, pii, x)
    BY <1>1
  <2>2. x.i = (IF s.op = "infer" THEN "infer_cause" ELSE "emit_problem") /\ x.kind = s.kind
    BY <2>1, Zenon DEF Cites
  <2>3. Expects(s) = << << x.i, x.kind >> >>
    BY <1>1, <2>2 DEF Expects
  <2>4. BriefOf(x) = << x.i, x.kind >>
    BY <1>1, <2>2 DEF BriefOf
  <2>5. << x, BriefOf(x) >> \in R
    BY <2>1 DEF Elems
  <2> DEFINE b == << x.i, x.kind >>
  <2>6. << x, b >> \in R /\ Expects(s) = << b >> /\ q = << x >>
    BY <2>1, <2>3, <2>4, <2>5
  <2> HIDE DEF b
  <2> QED
    BY <2>6 DEF Corresponds, Elems
<1>2. CASE /\ s.op = "action" /\ s.kind \in DOMAIN ActionTable /\ s.kind # "suppress_symptom"
           /\ q = << EmitActionI(s.kind, s.arg, TargetPath(s)) >>
  <2> DEFINE x == EmitActionI(s.kind, s.arg, TargetPath(s))
             b == << "emit_action", s.kind >>
  <2>1. BriefOf(x) = b
    BY DEF BriefOf, EmitActionI
  <2>2. Expects(s) = << b >>
    BY <1>2 DEF Expects
  <2>3. << x, BriefOf(x) >> \in R
    BY <1>2 DEF Elems
  <2> HIDE DEF x, b
  <2> QED
    BY <1>2, <2>1, <2>2, <2>3 DEF Corresponds, Elems, x
<1>3. CASE /\ s.op = "action" /\ s.kind = "suppress_symptom"
           /\ q = << SupersedeI(s, env), EmitActionI(s.kind, s.arg, {<< s.arg, "target" >>}) >>
  <2> DEFINE x == SupersedeI(s, env)
             y == EmitActionI(s.kind, s.arg, {<< s.arg, "target" >>})
             a == << "supersede" >>
             b == << "emit_action", s.kind >>
  <2>1. BriefOf(x) = a /\ BriefOf(y) = b
    BY DEF BriefOf, EmitActionI, SupersedeI
  <2>2. Expects(s) = << a, b >>
    BY <1>3 DEF Expects
  <2>3. q = << x, y >>
    BY <1>3
  <2> HIDE DEF x, y, a, b
  <2>4. << x, BriefOf(x) >> \in R /\ << y, BriefOf(y) >> \in R
    BY <2>3 DEF Elems
  <2>5. << x, a >> \in R /\ << y, b >> \in R
    BY <2>1, <2>4, Zenon
  <2>6. Expects(s) \in Seq(Elems(Expects(s)))
    BY <2>2 DEF Elems
  <2>7. Len(q) = 2 /\ Len(Expects(s)) = 2 /\ q[1] = x /\ q[2] = y /\ Expects(s)[1] = a /\ Expects(s)[2] = b
    BY <2>2, <2>3
  <2>8. \A j \in 1..2 : j = 1 \/ j = 2
    OBVIOUS
  <2>9. \A j \in 1..2 : << q[j], Expects(s)[j] >> \in R
    BY <2>5, <2>7, <2>8, Zenon
  <2> QED
    BY <2>6, <2>7, <2>9, Zenon DEF Corresponds
<1> QED
  BY <1>1, <1>2, <1>3, Zenon DEF StmtLowersTo

\* The intents of a body are those its statements call for, in order (lower_stmt).
LEMMA BodyExpected ==
    ASSUME NEW stmts, NEW env, NEW pii, BodyLowers(stmts, env, pii)
    PROVE  Brief(Intents(LowerBody(stmts, env, pii))) = Expected(stmts)
<1>1. PICK n, parts : StmtParts(stmts, env, pii, n, parts)
  BY IntentsOfBody, Zenon
<1>2. /\ n \in Nat /\ DOMAIN stmts = 1..n /\ parts = [i \in 1..n |-> parts[i]]
      /\ Intents(LowerBody(stmts, env, pii)) = Concat(parts)
      /\ \A i \in 1..n : StmtLowersTo(stmts[i], env, pii, parts[i])
  BY <1>1, Zenon DEF StmtParts
<1> DEFINE V == UNION {Elems(parts[i]) : i \in 1..n}
           ex == [i \in 1..n |-> Expects(stmts[i])]
           W == UNION {Elems(Expects(stmts[i])) : i \in 1..n}
           R == {<< x, BriefOf(x) >> : x \in V}
           as == Concat(parts)
           bs == Concat(ex)
<1>3. ASSUME NEW i \in 1..n
      PROVE  parts[i] \in Seq(V) /\ Expects(stmts[i]) \in Seq(W) /\ Corresponds(parts[i], Expects(stmts[i]), R)
  <2>1. parts[i] \in Seq(Elems(parts[i]))
    BY <1>2, PartType, Zenon
  <2>2. Elems(parts[i]) \subseteq V /\ Elems(Expects(stmts[i])) \subseteq W
    OBVIOUS
  <2>3. \A x \in Elems(parts[i]) : << x, BriefOf(x) >> \in R
    BY <2>2
  <2> HIDE DEF V, W, R
  <2>4. Expects(stmts[i]) \in Seq(Elems(Expects(stmts[i]))) /\ Corresponds(parts[i], Expects(stmts[i]), R)
    BY <1>2, <2>3, PartExpected, Zenon
  <2> QED
    BY <2>1, <2>2, <2>4, SeqOver, Zenon
<1>4. /\ parts \in [1..n -> Seq(V)] /\ ex \in [1..n -> Seq(W)]
      /\ \A i \in 1..n : Corresponds(parts[i], ex[i], R)
  <2> HIDE DEF V, W, R
  <2>1. \A i \in 1..n : ex[i] = Expects(stmts[i])
    OBVIOUS
  <2>2. ex \in [1..n -> Seq(W)]
    BY <1>3
  <2>3. \A i \in 1..n : Corresponds(parts[i], ex[i], R)
    <3> HIDE DEF ex
    <3> QED
      BY <1>3, <2>1
  <2>4. parts \in [1..n -> Seq(V)]
    BY <1>2, <1>3
  <2> QED
    BY <2>2, <2>3, <2>4
<1>5. as \in Seq(V) /\ bs \in Seq(W) /\ Corresponds(as, bs, R)
  <2> HIDE DEF V, W, R, ex
  <2> QED
    BY <1>2, <1>4, ConcatType, ConcatCorresponds, Zenon
<1>6. Expected(stmts) = bs
  BY <1>2, Zenon DEF Expected
<1>7. Brief(as) = [j \in DOMAIN as |-> BriefOf(as[j])]
  BY Zenon DEF Brief, BriefOf
<1> HIDE DEF V, W, ex, as, bs
<1>8. /\ DOMAIN as = 1..Len(as) /\ DOMAIN bs = 1..Len(bs) /\ Len(as) = Len(bs)
      /\ bs = [j \in 1..Len(bs) |-> bs[j]]
      /\ \A j \in 1..Len(as) : << as[j], bs[j] >> \in R
  <2> HIDE DEF R
  <2>1. Len(as) = Len(bs) /\ \A j \in 1..Len(as) : << as[j], bs[j] >> \in R
    BY <1>5, Zenon DEF Corresponds
  <2>2. DOMAIN as = 1..Len(as) /\ DOMAIN bs = 1..Len(bs)
    BY <1>5, SeqOfElems, Zenon
  <2>3. bs \in [1..Len(bs) -> W]
    BY <1>5
  <2>4. bs = [j \in 1..Len(bs) |-> bs[j]]
    BY <2>3
  <2> QED
    BY <2>1, <2>2, <2>4, Zenon
<1>9. \A j \in 1..Len(as) : bs[j] = BriefOf(as[j])
  BY <1>8
<1> HIDE DEF R
<1>10. Brief(as) = bs
  BY <1>7, <1>8, <1>9
<1> QED
  BY <1>2, <1>6, <1>10 DEF as

\* A cause and a problem of the catalog have a target.
LEMMA TargetResolves ==
    ASSUME NEW src \in {"cause", "problem"}, NEW kind, Resolves(src, kind)
    PROVE  resolve_metric_path(src, kind, "target") # {}
<1> DEFINE fs == Fields(src, kind)
<1>1. fs = CAUSE_FIELDS \/ fs = PROBLEM_FIELDS
  BY DEF Fields
<1>2. 1 \in DOMAIN fs /\ fs[1].name = "target"
  BY <1>1 DEF CAUSE_FIELDS, PROBLEM_FIELDS, FieldSchema
<1>3. resolve_metric_path(src, kind, "target") =
         { fs[i] : i \in { i \in DOMAIN fs : fs[i].name = "target" /\ \A j \in 1..(i - 1) : fs[j].name # "target" } }
  BY Zenon DEF resolve_metric_path
<1> HIDE DEF fs
<1>4. \A j \in 1..(1 - 1) : fs[j].name # "target"
  OBVIOUS
<1> QED
  BY <1>2, <1>3, <1>4

\* Bound, of a path of a binding and of a path of a field.
LEMMA BoundPaths ==
    ASSUME NEW env, NEW n \in DOMAIN env
    PROVE  /\ Bound(<< n >>, env)
           /\ \A f : resolve_metric_path(env[n].src, env[n].kind, f) # {} => Bound(<< n, f >>, env)
<1>1. << n >>[1] = n /\ Len(<< n >>) # 2
  OBVIOUS
<1>2. \A f : << n, f >>[1] = n /\ << n, f >>[2] = f
  OBVIOUS
<1> QED
  BY <1>1, <1>2, Zenon DEF Bound

\* The target of a statement of an accepted rule is bound
\* (phase02_name_and_typecheck).
LEMMA TargetBound ==
    ASSUME NEW rs, Accepted(rs), NEW r \in Elems(rs.rules),
           NEW s \in Elems(gather_rule_statements(r)), Listed(s.fields), NEW p \in TargetPath(s)
    PROVE  Bound(p, RuleEnv(r))
<1> DEFINE env == RuleEnv(r)
           ts == TargetsOf(s)
           paths == [i \in DOMAIN ts |-> metric_path_from_expr(ts[i].e)]
<1>1. TargetPath(s) = FirstFound(paths)
  BY Zenon DEF TargetPath
<1>2. \E i \in DOMAIN ts : p \in paths[i]
  <2> DEFINE at == {i \in DOMAIN paths : paths[i] # {}}
             first(i) == \A j \in at : i <= j
  <2>1. FirstFound(paths) = IF at = {} THEN {} ELSE paths[CHOOSE i \in at : first(i)]
    BY Zenon DEF FirstFound
  <2>2. at # {} /\ p \in paths[CHOOSE i \in at : first(i)]
    <3> HIDE DEF at, paths, first
    <3> QED
      BY <1>1, <2>1
  <2>3. DOMAIN paths = DOMAIN ts /\ at \in SUBSET Nat
    <3>1. ts \in Seq(Elems(s.fields))
      BY PickedType, Zenon DEF TargetsOf, FieldsOf, Listed
    <3>2. DOMAIN ts = 1..Len(ts) /\ Len(ts) \in Nat
      BY <3>1, SeqOfElems, Zenon
    <3> HIDE DEF ts
    <3> QED
      BY <3>2
  <2>4. \E i \in at : first(i)
    <3> HIDE DEF at
    <3> QED
      BY <2>2, <2>3, LeastNatural
  <2>5. (CHOOSE i \in at : first(i)) \in at
    <3> HIDE DEF at, first
    <3> QED
      BY <2>4, Zenon
  <2> HIDE DEF paths, first
  <2> QED
    BY <2>2, <2>3, <2>5
<1>3. PICK i \in DOMAIN ts : p \in metric_path_from_expr(ts[i].e)
  BY <1>2
<1> DEFINE e == ts[i].e
<1>4. e \in StmtExprs(r)
  <2>1. ts[i] \in Elems(TargetsOf(s))
    BY DEF Elems
  <2> HIDE DEF ts
  <2>2. ts[i].e \in {t.e : t \in Elems(TargetsOf(s))}
    BY <2>1
  <2> QED
    BY <2>2 DEF StmtExprs
<1>5. rs \in Rulesets /\ TypeOf(e, env).errs = {}
  BY <1>4, PhasesPassed DEF Accepted
<1> HIDE DEF e
<1>6. /\ ~(e.k = "ident" /\ e.n \notin DOMAIN env)
      /\ ~(e.k = "field" /\ e.base.k = "ident" /\ PathSchema(e, env) = {})
  BY <1>4, <1>5, TypingAssumption, Zenon
<1>7. p \in metric_path_from_expr(e)
  BY <1>3 DEF e
<1>8. CASE e.k = "field" /\ e.base.k = "ident"
  <2>1. p = << e.base.n, e.f >>
    BY <1>7, <1>8 DEF metric_path_from_expr
  <2>2. /\ e.base.n \in DOMAIN env
        /\ resolve_metric_path(env[e.base.n].src, env[e.base.n].kind, e.f) # {}
    BY <1>6, <1>8 DEF PathSchema
  <2> HIDE DEF env
  <2> QED
    BY <2>1, <2>2, BoundPaths, Zenon DEF env
<1>9. CASE ~(e.k = "field" /\ e.base.k = "ident")
  <2>1. e.k = "ident" /\ p = << e.n >>
    BY <1>7, <1>9 DEF metric_path_from_expr
  <2>2. e.n \in DOMAIN env
    BY <1>6, <2>1
  <2> HIDE DEF env
  <2> QED
    BY <2>1, <2>2, BoundPaths, Zenon DEF env
<1> QED
  BY <1>8, <1>9

\* A path of a topology clause of an accepted rule is bound
\* (phase07_topology_signatures).
LEMMA TopoBound ==
    ASSUME NEW rs, Accepted(rs), NEW r \in Elems(rs.rules), NEW e,
           infer_target_scope_expr(e, RuleEnv(r)) # {}, NEW p \in metric_path_from_expr(e)
    PROVE  Bound(p, RuleEnv(r))
<1> DEFINE env == RuleEnv(r)
<1>1. /\ e.k = "field" /\ e.base.k = "ident" /\ e.base.n \in DOMAIN env
      /\ p = << e.base.n, e.f >>
  BY TopoPaths
<1> DEFINE b == env[e.base.n]
<1>2. b.src \in {"event", "cause", "problem"} /\ Resolves(b.src, b.kind)
  BY <1>1, EnvResolves
<1>3. resolve_metric_path(b.src, b.kind, e.f) # {}
  <2>1. CASE b.src = "event"
    <3>1. PathSchema(e, env) # {}
      <4> HIDE DEF env
      <4> QED
        BY <1>1, <2>1 DEF infer_target_scope_expr, env
    <3> HIDE DEF env
    <3> QED
      BY <1>1, <3>1 DEF PathSchema
  <2>2. CASE b.src # "event"
    <3>1. e.f = "target"
      <4> HIDE DEF env
      <4> QED
        BY <1>1, <2>2 DEF infer_target_scope_expr, env
    <3>2. b.src \in {"cause", "problem"}
      BY <1>2, <2>2
    <3> HIDE DEF b
    <3> QED
      BY <1>2, <3>1, <3>2, TargetResolves
  <2> QED
    BY <2>1, <2>2
<1> QED
  BY <1>1, <1>3, BoundPaths, Zenon

\* Every name of an intent of an accepted ruleset resolves.
LEMMA IntentGrounded ==
    ASSUME NEW rs, Accepted(rs), NEW r \in Elems(rs.rules), NEW pii, NEW x, RuleLowersTo(r, pii, x),
           NEW y \in IntentsOf(x)
    PROVE  Grounded(y, RuleEnv(r))
<1> DEFINE env == RuleEnv(r)
<1>1. PICK s \in Elems(gather_rule_statements(r)) : \E q : StmtLowersTo(s, env, pii, q) /\ y \in Elems(q)
  BY IntentOfRule, Zenon
<1>2. /\ Listed(s.fields) /\ validate_stmt_catalog(s, env) = {}
      /\ \A p \in TargetPath(s) : Bound(p, env)
  <2>1. RuleShape(r)
    BY Shapes, Zenon
  <2>2. Listed(s.fields)
    BY <2>1, StatementsOf DEF BodyShape
  <2> QED
    BY <2>2, PhasesPassed, TargetBound, Zenon
<1>3. ASSUME s.arg \in DOMAIN env, env[s.arg].src = "problem"
      PROVE  /\ Resolves("problem", env[s.arg].kind) /\ Bound(<< s.arg, "target" >>, env)
  <2>1. Resolves("problem", env[s.arg].kind)
    BY <1>3, EnvResolves
  <2>2. resolve_metric_path("problem", env[s.arg].kind, "target") # {}
    BY <2>1, TargetResolves
  <2>3. Bound(<< s.arg, "target" >>, env)
    BY <1>3, <2>2, BoundPaths, Zenon
  <2> QED
    BY <2>1, <2>3
<1>4. CASE s.op \in {"infer", "emit"} /\ Cites(s, pii, y)
  <2>1. Elems(EvidenceOf(s)) \subseteq DOMAIN env
    BY <1>2, <1>4, EvidenceBound
  <2>2. /\ y.i = (IF s.op = "infer" THEN "infer_cause" ELSE "emit_problem")
        /\ y.kind = s.kind /\ y.target = TargetPath(s) /\ y.evidence = EvidenceOf(s)
    BY <1>4, Zenon DEF Cites
  <2>3. Resolves(IF s.op = "infer" THEN "cause" ELSE "problem", s.kind)
    BY <1>2, <1>4 DEF validate_stmt_catalog, UnknownKind, ErrIf
  <2> QED
    BY <1>2, <1>4, <2>1, <2>2, <2>3 DEF Grounded
<1>5. CASE y.i = "emit_action" /\ s.kind \in DOMAIN ActionTable /\ y = EmitActionI(s.kind, s.arg, TargetPath(s))
  <2>1. y.kind = s.kind /\ y.target = TargetPath(s)
    BY <1>5 DEF EmitActionI
  <2> QED
    BY <1>2, <1>5, <2>1 DEF Grounded
<1>6. CASE /\ y.i = "emit_action" /\ s.kind \in DOMAIN ActionTable
           /\ s.arg \in DOMAIN env /\ env[s.arg].src = "problem"
           /\ y = EmitActionI(s.kind, s.arg, {<< s.arg, "target" >>})
  <2>1. y.kind = s.kind /\ y.target = {<< s.arg, "target" >>}
    BY <1>6 DEF EmitActionI
  <2> QED
    BY <1>3, <1>6, <2>1 DEF Grounded
<1>7. CASE /\ s.arg \in DOMAIN env /\ env[s.arg].src = "problem" /\ y = SupersedeI(s, env)
  <2>1. y.i = "supersede" /\ y.kind = env[s.arg].kind /\ y.target = {<< s.arg, "target" >>}
    BY <1>7 DEF SupersedeI
  <2> QED
    BY <1>3, <1>7, <2>1 DEF Grounded
<1> QED
  BY <1>1, <1>4, <1>5, <1>6, <1>7, CitingIntents, Zenon

\* An accepted ruleset is lowered whole: although lowering may drop a part with or
\* without an error, every rule, correlate and statement of an accepted ruleset is
\* in the image, in order, and every name in it resolves (verify_with_config,
\* lower_to_image).
THEOREM NothingDropped == Spec => [](TextKeepsMeaning => LoweringComplete)
<1>1. ASSUME FrontInv, TextKeepsMeaning PROVE LoweringComplete
  <2> SUFFICES ASSUME stage = "accepted" PROVE LoweringComplete
    BY DEF LoweringComplete
  <2>1. Accepted(meant) /\ image = verify_with_config(meant).image
    BY <1>1, AcceptedMeant
  <2>2. Len(image) = Len(meant.rules) /\ DOMAIN image = DOMAIN meant.rules
    BY <2>1, RulesKept
  <2>3. ASSUME NEW i \in DOMAIN image
        PROVE  LET src == meant.rules[i] IN
               /\ [k \in DOMAIN src.corr |-> src.corr[k].bind] =
                    [k \in DOMAIN image[i].corr |-> image[i].corr[k].bind]
               /\ Brief(image[i].body) = Expected(src.body)
               /\ HasBranch(src) => /\ Brief(image[i].then) = Expected(src.if_else.then)
                                   /\ Brief(image[i].else) = Expected(ElseOf(src))
               /\ \A x \in IntentsOf(image[i]) : Grounded(x, RuleEnv(src))
               /\ \A c \in Elems(image[i].corr) : \A k \in DOMAIN c.topo[2] :
                    \A p \in c.topo[2][k] : Bound(p, RuleEnv(src))
    <3> DEFINE r == meant.rules[i]
               env == RuleEnv(r)
               pii == phase12_privacy_annotations(meant)
               x == image[i]
    <3>1. RuleLowersTo(r, pii, x) /\ \A j \in DOMAIN r.corr : \E y : LowersTo(r.corr[j], r, y)
      BY <2>1, RulesKept
    <3>2. r \in Elems(meant.rules)
      BY <2>2 DEF Elems
    <3> HIDE DEF r, pii, x
    <3>3. DOMAIN x.corr = DOMAIN r.corr /\ \A j \in DOMAIN r.corr : LowersTo(r.corr[j], r, x.corr[j])
      BY <3>1, CorrOf, Zenon
    <3>4. [k \in DOMAIN r.corr |-> r.corr[k].bind] = [k \in DOMAIN x.corr |-> x.corr[k].bind]
      <4>1. \A k \in DOMAIN r.corr : x.corr[k].bind = r.corr[k].bind
        BY <3>3, Zenon DEF LowersTo
      <4> QED
        BY <3>3, <4>1
    <3>5. /\ Brief(x.body) = Expected(r.body) /\ Brief(x.then) = Expected(ThenOf(r))
          /\ Brief(x.else) = Expected(ElseBody(r))
      <4>1. /\ x.body = Intents(LowerBody(r.body, env, pii))
            /\ x.then = Intents(LowerBody(ThenOf(r), env, pii))
            /\ x.else = Intents(LowerBody(ElseBody(r), env, pii))
        BY <3>1, Zenon DEF RuleLowersTo, Lower
      <4>2. /\ BodyLowers(r.body, env, pii) /\ BodyLowers(ThenOf(r), env, pii)
            /\ BodyLowers(ElseBody(r), env, pii)
        BY <2>1, <3>1, <3>2, IntentOfRule, Zenon
      <4> HIDE DEF env
      <4> QED
        BY <4>1, <4>2, BodyExpected, Zenon
    <3>6. HasBranch(r) => ThenOf(r) = r.if_else.then /\ ElseBody(r) = ElseOf(r)
      BY Zenon DEF ThenOf, ElseBody
    <3>7. \A y \in IntentsOf(x) : Grounded(y, env)
      BY <2>1, <3>1, <3>2, IntentGrounded, Zenon
    <3>8. ASSUME NEW c \in Elems(x.corr), NEW k \in DOMAIN c.topo[2], NEW p \in c.topo[2][k]
          PROVE  Bound(p, env)
      <4>1. PICK j \in DOMAIN r.corr : c = x.corr[j]
        BY <3>3, ElemsAt
      <4> DEFINE args == r.corr[j].topo.args
      <4>2. c.topo[2] = [n \in DOMAIN args |-> metric_path_from_expr(args[n])]
        BY <3>3, <4>1 DEF LowersTo
      <4>3. k \in DOMAIN args /\ p \in metric_path_from_expr(args[k])
        <5> HIDE DEF args
        <5> QED
          BY <3>8, <4>2
      <4>4. r.corr[j] \in Elems(r.corr)
        BY DEF Elems
      <4>5. Listed(r.corr[j].topo.args) /\ TopoErrs(r.corr[j], env) = {}
        BY <2>1, <3>2, <4>4, Shapes, PhasesPassed, Zenon DEF RuleShape
      <4>6. infer_target_scope_expr(args[k], env) # {}
        BY <4>3, <4>5, TopoAccepted, Zenon
      <4> QED
        BY <2>1, <3>2, <4>3, <4>6, TopoBound, Zenon
    <3> QED
      BY <3>4, <3>5, <3>6, <3>7, <3>8 DEF r, x
  <2> QED
    BY <2>2, <2>3, Zenon DEF LoweringComplete
<1> QED
  BY <1>1, FrontInvariant, PTL

-----------------------------------------------------------------------------
(* The depth-first search for cycles (dfs_cycle, has_cycle). *)

\* The rules done have a rank above that of every rule they feed, all done too:
\* there is no cycle among them.
RankedBy(edges, q, bound, rank) ==
    /\ bound \in Nat /\ rank \in [DOMAIN edges -> 0..bound]
    /\ \A b \in DOMAIN edges : q.state[b] = 2 =>
          \A c \in edges[b] : q.state[c] = 2 /\ rank[c] < rank[b]
Ranked(edges, q) == \E bound, rank : RankedBy(edges, q, bound, rank)
\* What a descent leaves of the states it was given: it only finishes new rules.
OnlyFinished(edges, m, q) ==
    \A u \in DOMAIN edges : IF m.state[u] = 0 THEN q.state[u] \in {0, 2} ELSE q.state[u] = m.state[u]
White(edges, m) == {u \in DOMAIN edges : m.state[u] = 0}
\* What a descent into a rule not seen yet comes to.
Descended(edges, v, m, q) ==
    /\ q \in Marks(edges)
    /\ q.met \/ (Ranked(edges, q) /\ OnlyFinished(edges, m, q) /\ q.state[v] = 2)
\* A function that descends right as long as at most k rules are not seen.
Descends(edges, k, deeper) ==
    \A v \in DOMAIN edges, m \in Marks(edges) :
       ~m.met /\ m.state[v] = 0 /\ Ranked(edges, m) /\ Cardinality(White(edges, m)) <= k
          => Descended(edges, v, m, deeper[<< v, m >>])

\* A graph of rules.
IsGraph(edges, n) == n \in Nat /\ edges \in [1..n -> SUBSET (1..n)]

\* A rule whose successors are all done may be done itself.
LEMMA RankOneMore ==
    ASSUME NEW edges, NEW n, IsGraph(edges, n), NEW q \in Marks(edges), Ranked(edges, q),
           NEW v \in DOMAIN edges, q.state[v] = 1, \A u \in edges[v] : q.state[u] = 2
    PROVE  Ranked(edges, [q EXCEPT !.state[v] = 2]) /\ [q EXCEPT !.state[v] = 2] \in Marks(edges)
<1>1. PICK bound, rank : RankedBy(edges, q, bound, rank)
  BY Zenon DEF Ranked
<1> DEFINE r == [q EXCEPT !.state[v] = 2]
           higher == [rank EXCEPT ![v] = bound + 1]
<1>2. /\ bound \in Nat /\ rank \in [DOMAIN edges -> 0..bound]
      /\ \A b \in DOMAIN edges : q.state[b] = 2 =>
            \A c \in edges[b] : q.state[c] = 2 /\ rank[c] < rank[b]
  BY <1>1, Zenon DEF RankedBy
<1>3. DOMAIN edges = 1..n /\ n \in Nat /\ \A u \in DOMAIN edges : edges[u] \subseteq DOMAIN edges
  BY DEF IsGraph
<1>4. r \in Marks(edges) /\ r.state[v] = 2 /\ \A u \in DOMAIN edges : u # v => r.state[u] = q.state[u]
  BY DEF Marks
<1>5. higher \in [DOMAIN edges -> 0..(bound + 1)]
  <2>1. \A u \in DOMAIN edges : rank[u] \in 0..(bound + 1)
    BY <1>2
  <2> QED
    BY <1>2, <2>1
<1>6. higher[v] = bound + 1 /\ \A u \in DOMAIN edges : u # v => higher[u] = rank[u]
  BY <1>2
<1> HIDE DEF r, higher
<1>7. ASSUME NEW b \in DOMAIN edges, r.state[b] = 2, NEW c \in edges[b]
      PROVE  r.state[c] = 2 /\ higher[c] < higher[b]
  <2>1. c \in DOMAIN edges /\ rank[c] \in 0..bound
    BY <1>2, <1>3
  <2>2. CASE b = v
    <3>1. q.state[c] = 2 /\ c # v
      BY <2>2
    <3> QED
      BY <1>2, <1>4, <1>6, <2>1, <2>2, <3>1
  <2>3. CASE b # v
    <3>1. q.state[b] = 2
      BY <1>4, <1>7, <2>3
    <3>2. q.state[c] = 2 /\ rank[c] < rank[b] /\ c # v
      BY <1>2, <3>1
    <3> QED
      BY <1>4, <1>6, <2>1, <2>3, <3>2
  <2> QED
    BY <2>2, <2>3
<1>8. RankedBy(edges, r, bound + 1, higher)
  <2>1. bound + 1 \in Nat
    BY <1>2
  <2> QED
    BY <1>5, <1>7, <2>1, Zenon DEF RankedBy
<1> QED
  BY <1>4, <1>8, Zenon DEF Ranked, r

\* States that agree on what is done are ranked alike.
LEMMA RankedAlike ==
    ASSUME NEW edges, NEW n, IsGraph(edges, n), NEW q, NEW r, Ranked(edges, q),
           \A u \in DOMAIN edges : q.state[u] = 2 <=> r.state[u] = 2
    PROVE  Ranked(edges, r)
<1>1. PICK bound, rank : RankedBy(edges, q, bound, rank)
  BY Zenon DEF Ranked
<1>2. \A u \in DOMAIN edges : edges[u] \subseteq DOMAIN edges
  BY DEF IsGraph
<1>3. RankedBy(edges, r, bound, rank)
  BY <1>1, <1>2 DEF RankedBy
<1> QED
  BY <1>3, Zenon DEF Ranked

\* Finitely many rules are not seen, one less once one of them is.
LEMMA WhiteLess ==
    ASSUME NEW edges, NEW n, IsGraph(edges, n), NEW m, NEW v \in DOMAIN edges, m.state[v] = 0,
           NEW q, \A u \in DOMAIN edges : q.state[u] = 0 => m.state[u] = 0 /\ u # v
    PROVE  /\ Cardinality(White(edges, m)) \in Nat /\ Cardinality(White(edges, m)) <= n
           /\ Cardinality(White(edges, q)) \in Nat
           /\ Cardinality(White(edges, q)) < Cardinality(White(edges, m))
<1>1. n \in Nat /\ DOMAIN edges = 1..n
  BY DEF IsGraph
<1>2. IsFiniteSet(1..n) /\ Cardinality(1..n) = n
  <2>1. 1 \in Int /\ n \in Int /\ (IF 1 > n THEN 0 ELSE n - 1 + 1) = n
    BY <1>1
  <2> QED
    BY <2>1, FS_Interval
<1>3. White(edges, m) \subseteq 1..n
  BY <1>1 DEF White
<1>4. IsFiniteSet(White(edges, m)) /\ Cardinality(White(edges, m)) <= n
  BY <1>2, <1>3, FS_Subset
<1>5. v \in White(edges, m)
  BY DEF White
<1>6. /\ IsFiniteSet(White(edges, m) \ {v})
      /\ Cardinality(White(edges, m) \ {v}) = Cardinality(White(edges, m)) - 1
      /\ Cardinality(White(edges, m)) \in Nat
  BY <1>4, <1>5, OneLess, Zenon
<1>7. White(edges, q) \subseteq White(edges, m) \ {v}
  BY DEF White
<1>8. /\ IsFiniteSet(White(edges, q))
      /\ Cardinality(White(edges, q)) <= Cardinality(White(edges, m) \ {v})
  BY <1>6, <1>7, FS_Subset
<1>9. Cardinality(White(edges, q)) \in Nat
  BY <1>8, FS_CardinalityType
<1> QED
  BY <1>4, <1>6, <1>8, <1>9

\* One turn of the loop over the rules a rule feeds.
LEMMA NextDescends ==
    ASSUME NEW edges, NEW n, IsGraph(edges, n), NEW k \in Nat, NEW deeper, Descends(edges, k, deeper),
           NEW x \in DOMAIN edges, NEW q \in Marks(edges), Cardinality(White(edges, q)) <= k,
           q.met \/ Ranked(edges, q), NEW r, r = DfsNext(x, q, deeper)
    PROVE  /\ r \in Marks(edges)
           /\ q.met => r = q
           /\ ~q.met => r.met \/ (Ranked(edges, r) /\ OnlyFinished(edges, q, r) /\ r.state[x] = 2)
<1>0. q.state[x] \in {0, 1, 2} /\ q.met \in BOOLEAN
  BY DEF Marks
<1>1. CASE q.met
  <2>1. DfsNext(x, q, deeper) = q
    BY <1>1 DEF DfsNext
  <2> QED
    BY <1>1, <2>1
<1>2. CASE ~q.met /\ q.state[x] = 2
  <2>1. DfsNext(x, q, deeper) = q
    BY <1>2 DEF DfsNext
  <2>2. OnlyFinished(edges, q, q)
    BY DEF OnlyFinished
  <2> QED
    BY <1>2, <2>1, <2>2
<1>3. CASE ~q.met /\ q.state[x] = 1
  <2>1. DfsNext(x, q, deeper) = [q EXCEPT !.met = TRUE]
    BY <1>3 DEF DfsNext
  <2>2. [q EXCEPT !.met = TRUE] \in Marks(edges) /\ [q EXCEPT !.met = TRUE].met
    BY DEF Marks
  <2> QED
    BY <1>3, <2>1, <2>2
<1>4. CASE ~q.met /\ q.state[x] = 0
  <2>1. DfsNext(x, q, deeper) = deeper[<< x, q >>]
    BY <1>4 DEF DfsNext
  <2>2. Descended(edges, x, q, deeper[<< x, q >>])
    BY <1>4, Zenon DEF Descends
  <2> QED
    BY <1>4, <2>1, <2>2, Zenon DEF Descended
<1> QED
  BY <1>0, <1>1, <1>2, <1>3, <1>4

\* One rule's turn: it is on the path while those it feeds are walked, and done
\* after them (dfs_cycle's body).
LEMMA NodeDescends ==
    ASSUME NEW edges, NEW n, IsGraph(edges, n), NEW k \in Nat, NEW deeper, Descends(edges, k, deeper),
           NEW v \in DOMAIN edges, NEW m \in Marks(edges), ~m.met, m.state[v] = 0, Ranked(edges, m),
           Cardinality(White(edges, m)) <= k + 1
    PROVE  Descended(edges, v, m, DfsNode(edges, v, m, deeper))
<1> DEFINE m1 == [m EXCEPT !.state[v] = 1]
           step == [p \in (DOMAIN edges) \X Marks(edges) |-> DfsNext(p[1], p[2], deeper)]
           after == InOrder(edges[v], m1, step)
           Fine(T, q) == Ranked(edges, q) /\ OnlyFinished(edges, m1, q) /\ \A u \in T : q.state[u] = 2
           P == {p \in (SUBSET edges[v]) \X Marks(edges) : p[2].met \/ Fine(p[1], p[2])}
<1>1. /\ n \in Nat /\ DOMAIN edges = 1..n /\ edges[v] \subseteq DOMAIN edges
      /\ edges[v] \in SUBSET Int /\ IsFiniteSet(edges[v])
  <2>1. n \in Nat /\ DOMAIN edges = 1..n /\ edges[v] \subseteq DOMAIN edges
    BY DEF IsGraph
  <2>2. IsFiniteSet(1..n)
    <3>1. 1 \in Int /\ n \in Int
      BY <2>1
    <3> QED
      BY <3>1, FS_Interval, Zenon
  <2>3. IsFiniteSet(edges[v])
    BY <2>1, <2>2, FS_Subset
  <2> QED
    BY <2>1, <2>3
<1>2. /\ m1 \in Marks(edges) /\ m1.state[v] = 1 /\ m1.met = m.met
      /\ \A u \in DOMAIN edges : u # v => m1.state[u] = m.state[u]
  BY DEF Marks
<1>3. Ranked(edges, m1)
  <2> HIDE DEF m1
  <2>1. \A u \in DOMAIN edges : m.state[u] = 2 <=> m1.state[u] = 2
    BY <1>2
  <2> QED
    BY <2>1, RankedAlike, Zenon
<1>4. << {}, m1 >> \in P
  <2> HIDE DEF m1
  <2>1. OnlyFinished(edges, m1, m1)
    BY DEF OnlyFinished
  <2> QED
    BY <1>2, <1>3, <2>1
<1> HIDE DEF m1
<1>5. ASSUME NEW T \in SUBSET edges[v], NEW x \in edges[v], NEW q, << T, q >> \in P
      PROVE  << T \cup {x}, step[<< x, q >>] >> \in P
  <2>1. q \in Marks(edges) /\ x \in DOMAIN edges /\ (q.met \/ Fine(T, q)) /\ q.met \in BOOLEAN
    BY <1>1, <1>5 DEF Marks
  <2> DEFINE r == DfsNext(x, q, deeper)
  <2>2. step[<< x, q >>] = r
    BY <2>1
  <2> HIDE DEF r, step
  <2>3. CASE q.met
    <3>1. r = q
      BY <2>3 DEF DfsNext, r
    <3> QED
      BY <1>5, <2>1, <2>2, <2>3, <3>1
  <2>4. CASE ~q.met
    <3>1. Fine(T, q)
      BY <2>1, <2>4
    <3>2. Cardinality(White(edges, q)) <= k
      <4>1. \A u \in DOMAIN edges : q.state[u] = 0 => m.state[u] = 0 /\ u # v
        BY <1>2, <3>1 DEF OnlyFinished
      <4>2. /\ Cardinality(White(edges, m)) \in Nat /\ Cardinality(White(edges, q)) \in Nat
            /\ Cardinality(White(edges, q)) < Cardinality(White(edges, m))
        BY <4>1, WhiteLess, Zenon
      <4> QED
        BY <4>2
    <3>3. r \in Marks(edges) /\ (r.met \/ (Ranked(edges, r) /\ OnlyFinished(edges, q, r) /\ r.state[x] = 2))
      <4>1. q.met \/ Ranked(edges, q)
        BY <3>1
      <4>2. r = DfsNext(x, q, deeper)
        BY DEF r
      <4>3. /\ r \in Marks(edges)
            /\ ~q.met => r.met \/ (Ranked(edges, r) /\ OnlyFinished(edges, q, r) /\ r.state[x] = 2)
        <5> HIDE DEF m1, Fine, P
        <5> QED
          BY <2>1, <3>2, <4>1, <4>2, NextDescends
      <4> QED
        BY <2>4, <4>3
    <3>4. ASSUME Ranked(edges, r), OnlyFinished(edges, q, r), r.state[x] = 2 PROVE Fine(T \cup {x}, r)
      <4>1. OnlyFinished(edges, m1, r)
        BY <3>1, <3>4 DEF OnlyFinished
      <4>2. \A u \in T \cup {x} : r.state[u] = 2
        <5>1. \A u \in T : u \in DOMAIN edges /\ q.state[u] = 2
          BY <1>1, <3>1
        <5> QED
          BY <3>4, <5>1 DEF OnlyFinished
      <4> QED
        BY <3>4, <4>1, <4>2
    <3>5. r.met \/ Fine(T \cup {x}, r)
      BY <3>3, <3>4
    <3>6. T \cup {x} \in SUBSET edges[v]
      OBVIOUS
    <3> HIDE DEF Fine
    <3> QED
      BY <2>2, <3>3, <3>5, <3>6
  <2> QED
    BY <2>1, <2>3, <2>4
<1>6. << edges[v], after >> \in P
  <2> HIDE DEF P, step
  <2> QED
    BY <1>1, <1>4, <1>5, WalkReaches
<1>7. after \in Marks(edges) /\ (after.met \/ Fine(edges[v], after)) /\ after.met \in BOOLEAN
  <2> HIDE DEF Fine, after
  <2> QED
    BY <1>6 DEF Marks
<1>8. DfsNode(edges, v, m, deeper) = IF after.met THEN after ELSE [after EXCEPT !.state[v] = 2]
  BY Zenon DEF DfsNode, m1
<1> HIDE DEF after, step
<1>9. CASE after.met
  BY <1>7, <1>8, <1>9 DEF Descended
<1>10. CASE ~after.met
  <2> DEFINE r == [after EXCEPT !.state[v] = 2]
  <2>1. Fine(edges[v], after)
    BY <1>7, <1>10
  <2>2. after.state[v] = 1
    BY <1>2, <2>1 DEF OnlyFinished
  <2>3. Ranked(edges, r) /\ r \in Marks(edges)
    BY <1>7, <2>1, <2>2, RankOneMore, Zenon
  <2>4. r.state[v] = 2 /\ \A u \in DOMAIN edges : u # v => r.state[u] = after.state[u]
    BY <1>7 DEF Marks
  <2> HIDE DEF r
  <2>5. OnlyFinished(edges, m, r)
    BY <1>2, <2>1, <2>4 DEF OnlyFinished
  <2>6. DfsNode(edges, v, m, deeper) = r
    BY <1>8, <1>10 DEF r
  <2> QED
    BY <2>3, <2>4, <2>5, <2>6 DEF Descended
<1> QED
  BY <1>7, <1>9, <1>10

\* The descents by the number of rules not seen yet (unseen, in dfs_cycle).
DfsTurn(edges, f, k) ==
    [p \in (DOMAIN edges) \X Marks(edges) |-> IF k = 0 THEN p[2] ELSE DfsNode(edges, p[1], p[2], f[k - 1])]
LEMMA DfsRuns ==
    ASSUME NEW edges, NEW n, IsGraph(edges, n)
    PROVE  \E f : f = [k \in 0..n |-> DfsTurn(edges, f, k)] /\ dfs_cycle(edges) = f[n]
<1> DEFINE Table(f, k) == f = [j \in 0..k |-> DfsTurn(edges, f, j)]
           S == {k \in Nat : \E f : Table(f, k)}
<1>1. n \in Nat /\ Len(edges) = n
  BY FunctionIsSeq DEF IsGraph
<1>2. 0 \in S
  <2> DEFINE base == [p \in (DOMAIN edges) \X Marks(edges) |-> p[2]]
             f == [j \in 0..0 |-> base]
  <2>1. DfsTurn(edges, f, 0) = base
    BY Zenon DEF DfsTurn
  <2> HIDE DEF base
  <2>2. \A j \in 0..0 : j = 0
    OBVIOUS
  <2>3. Table(f, 0)
    BY <2>1, <2>2
  <2> HIDE DEF Table, f
  <2>4. \E g : Table(g, 0)
    BY <2>3
  <2> QED
    BY <2>4
<1>3. ASSUME NEW k \in 0..(n - 1), k \in S PROVE k + 1 \in S
  <2>1. PICK f : Table(f, k)
    BY <1>3
  <2> DEFINE g == [j \in 0..(k + 1) |-> IF j = k + 1 THEN DfsTurn(edges, f, k + 1) ELSE f[j]]
  <2>2. ASSUME NEW j \in 0..(k + 1) PROVE g[j] = DfsTurn(edges, g, j)
    <3>1. j = 0 \/ g[j - 1] = f[j - 1]
      OBVIOUS
    <3>2. g[j] = IF j = k + 1 THEN DfsTurn(edges, f, k + 1) ELSE f[j]
      OBVIOUS
    <3>3. j # k + 1 => f[j] = DfsTurn(edges, f, j)
      <4>1. j # k + 1 => j \in 0..k
        OBVIOUS
      <4> QED
        BY <2>1, <4>1, Zenon
    <3> HIDE DEF g
    <3>4. DfsTurn(edges, f, j) = DfsTurn(edges, g, j)
      BY <3>1, Zenon DEF DfsTurn
    <3> QED
      BY <3>2, <3>3, <3>4, Zenon
  <2>3. Table(g, k + 1)
    BY <2>2, Zenon
  <2> HIDE DEF g, Table
  <2>4. \E h : Table(h, k + 1)
    BY <2>3
  <2> QED
    BY <2>4
<1>4. PICK f : Table(f, n)
  <2>1. n \in 0..n
    BY <1>1
  <2> HIDE DEF S
  <2>2. n \in S
    BY <1>1, <1>2, <1>3, <2>1, UpTo
  <2> QED
    BY <2>2, Zenon DEF S
<1> DEFINE unseen == CHOOSE g : g = [k \in 0..n |-> DfsTurn(edges, g, k)]
<1>5. unseen = [k \in 0..n |-> DfsTurn(edges, unseen, k)]
  BY <1>4, Zenon
<1>6. dfs_cycle(edges) = unseen[n]
  BY <1>1, Zenon DEF dfs_cycle, DfsTurn
<1> HIDE DEF unseen
<1> QED
  BY <1>5, <1>6, Zenon

\* A descent is right when it has a turn for each rule not seen yet.
LEMMA DescendsRight ==
    ASSUME NEW edges, NEW n, IsGraph(edges, n), NEW f, f = [k \in 0..n |-> DfsTurn(edges, f, k)]
    PROVE  \A k \in 0..n : Descends(edges, k, f[k])
<1> DEFINE S == {k \in 0..n : Descends(edges, k, f[k])}
<1>1. n \in Nat /\ DOMAIN edges = 1..n
  BY DEF IsGraph
<1>2. 0 \in S
  <2> SUFFICES ASSUME NEW v \in DOMAIN edges, NEW m \in Marks(edges), m.state[v] = 0,
                      Cardinality(White(edges, m)) <= 0
               PROVE  FALSE
    BY <1>1 DEF Descends
  <2> DEFINE q == [m EXCEPT !.state[v] = 1]
  <2>1. \A u \in DOMAIN edges : q.state[u] = 0 => m.state[u] = 0 /\ u # v
    BY DEF Marks
  <2> HIDE DEF q
  <2>2. /\ Cardinality(White(edges, m)) \in Nat /\ Cardinality(White(edges, q)) \in Nat
        /\ Cardinality(White(edges, q)) < Cardinality(White(edges, m))
    BY <2>1, WhiteLess, Zenon
  <2> QED
    BY <2>2
<1>3. ASSUME NEW k \in 0..(n - 1), k \in S PROVE k + 1 \in S
  <2>1. k + 1 \in 0..n /\ k + 1 # 0 /\ (k + 1) - 1 = k /\ k \in Nat
    BY <1>1
  <2>2. f[k + 1] = DfsTurn(edges, f, k + 1)
    BY <2>1, Zenon
  <2>3. ASSUME NEW v \in DOMAIN edges, NEW m \in Marks(edges)
        PROVE  f[k + 1][<< v, m >>] = DfsNode(edges, v, m, f[k])
    <3>1. DfsTurn(edges, f, k + 1)[<< v, m >>] = DfsNode(edges, v, m, f[k])
      BY <2>1 DEF DfsTurn
    <3> QED
      BY <2>2, <3>1
  <2>4. ASSUME NEW v \in DOMAIN edges, NEW m \in Marks(edges), ~m.met, m.state[v] = 0,
               Ranked(edges, m), Cardinality(White(edges, m)) <= k + 1
        PROVE  Descended(edges, v, m, f[k + 1][<< v, m >>])
    <3>1. Descends(edges, k, f[k])
      BY <1>3
    <3>2. Descended(edges, v, m, DfsNode(edges, v, m, f[k]))
      BY <2>1, <2>4, <3>1, NodeDescends, Zenon
    <3> QED
      BY <2>3, <3>2
  <2>5. Descends(edges, k + 1, f[k + 1])
    BY <2>4, Zenon DEF Descends
  <2> QED
    BY <2>1, <2>5
<1> HIDE DEF S
<1>4. \A k \in 0..n : k \in S
  BY <1>1, <1>2, <1>3, UpTo
<1> QED
  BY <1>4 DEF S

\* Where has_cycle meets no cycle every rule has a rank above those it feeds.
LEMMA NoCycle ==
    ASSUME NEW edges, NEW n, IsGraph(edges, n), ~has_cycle(edges)
    PROVE  \E bound \in Nat : \E rank \in [1..n -> 0..bound] :
              \A b \in 1..n : \A c \in edges[b] : rank[c] < rank[b]
<1> DEFINE visit == [p \in (DOMAIN edges) \X Marks(edges) |->
                        IF p[2].met \/ p[2].state[p[1]] # 0 THEN p[2] ELSE dfs_cycle(edges)[p]]
           init == [met |-> FALSE, state |-> [i \in DOMAIN edges |-> 0]]
           end == InOrder(DOMAIN edges, init, visit)
           Fine(T, q) == /\ Ranked(edges, q) /\ \A u \in DOMAIN edges : q.state[u] # 1
                         /\ \A u \in T : q.state[u] = 2
           P == {p \in (SUBSET DOMAIN edges) \X Marks(edges) : p[2].met \/ Fine(p[1], p[2])}
<1>1. /\ n \in Nat /\ DOMAIN edges = 1..n /\ DOMAIN edges \in SUBSET Int /\ IsFiniteSet(DOMAIN edges)
      /\ \A u \in DOMAIN edges : edges[u] \subseteq DOMAIN edges
  <2>1. n \in Nat /\ DOMAIN edges = 1..n /\ \A u \in DOMAIN edges : edges[u] \subseteq DOMAIN edges
    BY DEF IsGraph
  <2>2. 1 \in Int /\ n \in Int
    BY <2>1
  <2>3. IsFiniteSet(1..n)
    BY <2>2, FS_Interval, Zenon
  <2> QED
    BY <2>1, <2>3
<1>2. << {}, init >> \in P
  <2>1. init \in Marks(edges) /\ \A u \in DOMAIN edges : init.state[u] = 0
    BY DEF Marks
  <2> DEFINE rank == [u \in DOMAIN edges |-> 0]
  <2>2. RankedBy(edges, init, 0, rank)
    <3> HIDE DEF init
    <3>1. rank \in [DOMAIN edges -> 0..0]
      OBVIOUS
    <3> QED
      BY <2>1, <3>1 DEF RankedBy
  <2> HIDE DEF init
  <2>3. Ranked(edges, init)
    BY <2>2, Zenon DEF Ranked
  <2> QED
    BY <2>1, <2>3
<1>3. PICK f : f = [k \in 0..n |-> DfsTurn(edges, f, k)] /\ dfs_cycle(edges) = f[n]
  BY DfsRuns, Zenon
<1>4. Descends(edges, n, dfs_cycle(edges))
  <2>1. \A k \in 0..n : Descends(edges, k, f[k])
    BY <1>3, DescendsRight, Zenon
  <2>2. n \in 0..n
    BY <1>1
  <2> QED
    BY <1>3, <2>1, <2>2, Zenon
<1>5. ASSUME NEW T \in SUBSET DOMAIN edges, NEW x \in DOMAIN edges, NEW q, << T, q >> \in P
      PROVE  << T \cup {x}, visit[<< x, q >>] >> \in P
  <2>1. q \in Marks(edges) /\ (q.met \/ Fine(T, q)) /\ q.state[x] \in {0, 1, 2}
    BY <1>5 DEF Marks
  <2>2. visit[<< x, q >>] = IF q.met \/ q.state[x] # 0 THEN q ELSE dfs_cycle(edges)[<< x, q >>]
    BY <2>1
  <2> HIDE DEF visit
  <2>3. CASE q.met
    BY <1>5, <2>1, <2>2, <2>3
  <2>4. CASE ~q.met /\ q.state[x] # 0
    <3>1. visit[<< x, q >>] = q /\ Fine(T, q)
      BY <2>1, <2>2, <2>4
    <3>2. q.state[x] = 2
      BY <2>1, <2>4, <3>1
    <3>3. Fine(T \cup {x}, q)
      BY <3>1, <3>2
    <3> HIDE DEF Fine
    <3> QED
      BY <2>1, <3>1, <3>3
  <2>5. CASE ~q.met /\ q.state[x] = 0
    <3> DEFINE r == dfs_cycle(edges)[<< x, q >>]
    <3>1. visit[<< x, q >>] = r /\ Fine(T, q)
      BY <2>1, <2>2, <2>5
    <3>2. Cardinality(White(edges, q)) <= n
      <4> DEFINE z == [q EXCEPT !.state[x] = 1]
      <4>1. \A u \in DOMAIN edges : z.state[u] = 0 => q.state[u] = 0 /\ u # x
        BY <2>1 DEF Marks
      <4> HIDE DEF z
      <4> QED
        BY <2>5, <4>1, WhiteLess, Zenon
    <3>3. Descended(edges, x, q, r)
      BY <1>4, <2>1, <2>5, <3>1, <3>2, Zenon DEF Descends
    <3> HIDE DEF r
    <3>4. r \in Marks(edges) /\ (r.met \/ (Ranked(edges, r) /\ OnlyFinished(edges, q, r) /\ r.state[x] = 2))
      BY <3>3, Zenon DEF Descended
    <3>5. ASSUME Ranked(edges, r), OnlyFinished(edges, q, r), r.state[x] = 2 PROVE Fine(T \cup {x}, r)
      <4>1. \A u \in DOMAIN edges : r.state[u] # 1
        BY <3>1, <3>5 DEF OnlyFinished
      <4>2. \A u \in T \cup {x} : r.state[u] = 2
        <5>1. \A u \in T : u \in DOMAIN edges /\ q.state[u] = 2
          BY <3>1
        <5> QED
          BY <3>5, <5>1 DEF OnlyFinished
      <4> QED
        BY <3>5, <4>1, <4>2
    <3>6. r.met \/ Fine(T \cup {x}, r)
      BY <3>4, <3>5
    <3> HIDE DEF Fine
    <3> QED
      BY <3>1, <3>4, <3>6
  <2> QED
    BY <2>3, <2>4, <2>5
<1>6. << DOMAIN edges, end >> \in P
  <2> HIDE DEF P, visit, init
  <2> QED
    BY <1>1, <1>2, <1>5, WalkReaches
<1>7. ~end.met
  BY Zenon DEF has_cycle
<1> HIDE DEF end
<1>8. Fine(DOMAIN edges, end)
  <2> HIDE DEF Fine
  <2> QED
    BY <1>6, <1>7
<1>9. PICK bound, rank : RankedBy(edges, end, bound, rank)
  BY <1>8, Zenon DEF Ranked
<1>10. /\ bound \in Nat /\ rank \in [1..n -> 0..bound]
       /\ \A b \in 1..n : \A c \in edges[b] : rank[c] < rank[b]
  BY <1>1, <1>8, <1>9 DEF RankedBy
<1> QED
  BY <1>10

\* A lowered rule that triggers another has an edge to it in the verifier's graph.
LEMMA TriggersAreEdges ==
    ASSUME NEW rs, Accepted(rs), image = verify_with_config(rs).image,
           NEW i \in DOMAIN image, NEW j \in DOMAIN image, Triggers(i, j)
    PROVE  j \in Edges(rs)[i]
<1> DEFINE pii == phase12_privacy_annotations(rs)
           ri == rs.rules[i]
           rj == rs.rules[j]
<1>1. /\ DOMAIN image = DOMAIN rs.rules
      /\ RuleLowersTo(ri, pii, image[i]) /\ RuleLowersTo(rj, pii, image[j])
  BY RulesKept
<1>2. ri \in Elems(rs.rules) /\ rj \in Elems(rs.rules)
  BY <1>1 DEF Elems
<1> HIDE DEF ri, rj, pii
<1>3. RuleShape(rj)
  BY <1>2, Shapes, Zenon
<1>4. /\ rj.anchor.src \in {"event", "cause", "problem"}
      /\ rj.anchor.src = "event" \/ rj.kind = "decision"
  BY <1>3, Zenon DEF RuleShape
<1>5. image[j].src = rj.anchor.src /\ image[j].on = rj.anchor.kind
  BY <1>1, Zenon DEF RuleLowersTo
<1>6. PICK x \in IntentsOf(image[i]) :
         /\ x.i = [cause |-> "infer_cause", problem |-> "emit_problem", event |-> ""][image[j].src]
         /\ x.kind = image[j].on
  BY Zenon DEF Triggers
<1>7. PICK s \in Elems(gather_rule_statements(ri)) : \E q : StmtLowersTo(s, RuleEnv(ri), pii, q) /\ x \in Elems(q)
  BY <1>1, <1>2, IntentOfRule, Zenon
<1>8. /\ x.i \in {"infer_cause", "emit_problem", "emit_action", "supersede"}
      /\ x.i \in {"infer_cause", "emit_problem"} =>
            s.kind = x.kind /\ s.op = (IF x.i = "infer_cause" THEN "infer" ELSE "emit")
  <2>1. CASE s.op \in {"infer", "emit"} /\ Cites(s, pii, x)
    <3>1. x.i = (IF s.op = "infer" THEN "infer_cause" ELSE "emit_problem") /\ x.kind = s.kind
      BY <2>1, Zenon DEF Cites
    <3> QED
      BY <2>1, <3>1
  <2>2. CASE x.i \in {"emit_action", "supersede"}
    BY <2>2
  <2>3. (s.op \in {"infer", "emit"} /\ Cites(s, pii, x)) \/ x.i \in {"emit_action", "supersede"}
    BY <1>7, CitingIntents
  <2> QED
    BY <2>1, <2>2, <2>3
<1>9. Feeds(s, rj)
  <2>1. CASE rj.anchor.src = "cause"
    <3>1. x.i = "infer_cause"
      BY <1>5, <1>6, <2>1
    <3> QED
      BY <1>4, <1>5, <1>6, <1>8, <2>1, <3>1 DEF Feeds
  <2>2. CASE rj.anchor.src = "problem"
    <3>1. x.i = "emit_problem"
      BY <1>5, <1>6, <2>2
    <3> QED
      BY <1>4, <1>5, <1>6, <1>8, <2>2, <3>1 DEF Feeds
  <2>3. rj.anchor.src # "event"
    <3> SUFFICES ASSUME rj.anchor.src = "event" PROVE FALSE
      OBVIOUS
    <3>1. x.i = [cause |-> "infer_cause", problem |-> "emit_problem", event |-> ""]["event"]
      BY <1>5, <1>6, Zenon
    <3>2. x.i = ""
      BY <3>1
    <3> QED
      BY <1>8, <3>2
  <2> QED
    BY <1>4, <2>1, <2>2, <2>3
<1>10. Edges(rs)[i] = {k \in DOMAIN rs.rules : \E t \in Elems(gather_rule_statements(ri)) : Feeds(t, rs.rules[k])}
  BY <1>1 DEF Edges, ri
<1> QED
  BY <1>1, <1>9, <1>10 DEF rj

\* A cascade of decisions ends: among any rules of an accepted image one triggers
\* none of them, for the depth-first search of phase08_acyclicity finds every cycle
\* of the rules and lowering adds no edge to their graph.
THEOREM CascadesEnd == Spec => [](TextKeepsMeaning => CascadesTerminate)
<1>1. ASSUME FrontInv, TextKeepsMeaning PROVE CascadesTerminate
  <2> SUFFICES ASSUME stage = "accepted", NEW rules \in (SUBSET DOMAIN image) \ {{}}
               PROVE  \E i \in rules : \A j \in rules : ~Triggers(i, j)
    BY Zenon DEF CascadesTerminate
  <2> DEFINE edges == Edges(meant)
             n == Len(meant.rules)
  <2>1. Accepted(meant) /\ image = verify_with_config(meant).image
    BY <1>1, AcceptedMeant
  <2>2. n \in Nat /\ DOMAIN meant.rules = 1..n /\ DOMAIN image = 1..n
    BY <2>1, Shapes, RulesKept
  <2>3. IsGraph(edges, n)
    BY <2>2 DEF Edges, IsGraph
  <2>4. ~has_cycle(edges)
    <3>1. PICK i \in rules : TRUE
      OBVIOUS
    <3>2. meant.rules[i] \in Elems(meant.rules)
      BY <2>2 DEF Elems
    <3> QED
      BY <2>1, <3>2, PhasesPassed
  <2> HIDE DEF edges, n
  <2>5. PICK bound \in Nat : \E rank \in [1..n -> 0..bound] :
                \A b \in 1..n : \A c \in edges[b] : rank[c] < rank[b]
    BY <2>3, <2>4, NoCycle, Zenon
  <2>6. PICK rank \in [1..n -> 0..bound] : \A b \in 1..n : \A c \in edges[b] : rank[c] < rank[b]
    BY <2>5
  <2> DEFINE ranks == {rank[i] : i \in rules}
  <2>7. ranks \in SUBSET Nat /\ ranks # {}
    BY <2>2, <2>6
  <2>8. PICK least \in ranks : \A l \in ranks : least <= l
    <3> HIDE DEF ranks
    <3> QED
      BY <2>7, LeastNatural, Zenon
  <2>9. PICK i \in rules : rank[i] = least
    BY <2>8
  <2>10. ASSUME NEW j \in rules, Triggers(i, j) PROVE FALSE
    <3>1. j \in edges[i]
      BY <2>1, <2>10, TriggersAreEdges DEF edges
    <3>2. i \in 1..n /\ j \in 1..n
      BY <2>2
    <3>3. rank[j] < rank[i] /\ rank[i] <= rank[j] /\ rank[i] \in Int /\ rank[j] \in Int
      BY <2>6, <2>8, <2>9, <3>1, <3>2
    <3> QED
      BY <3>3
  <2> QED
    BY <2>10
<1> QED
  BY <1>1, FrontInvariant, PTL
-----------------------------------------------------------------------------
(* What is upstream of a scope. *)

\* The scopes upstream of a scope: those in every set that holds its direct
\* upstreams and is closed.
Closed(t, a, S) ==
    S \subseteq t.known /\ DirectlyUp(t, a) \subseteq S /\ \A s \in S : DirectlyUp(t, s) \subseteq S
Ups(t, a) == {b \in t.known : \A S \in SUBSET t.known : Closed(t, a, S) => b \in S}

\* Upstream is closed and transitive.
LEMMA UpsClosed ==
    ASSUME NEW t, NetworkShape(t)
    PROVE  /\ \A a : DirectlyUp(t, a) \subseteq t.known
           /\ \A a : Closed(t, a, Ups(t, a))
           /\ \A a : \A S : Closed(t, a, S) => Ups(t, a) \subseteq S
<1>1. ASSUME NEW a PROVE DirectlyUp(t, a) \subseteq t.known
  BY DEF DirectlyUp, NetworkShape
<1>2. ASSUME NEW a PROVE Closed(t, a, Ups(t, a))
  BY <1>1 DEF Closed, Ups
<1>3. ASSUME NEW a, NEW S, Closed(t, a, S) PROVE Ups(t, a) \subseteq S
  BY <1>3 DEF Closed, Ups
<1> QED
  BY <1>1, <1>2, <1>3

\* The layers of UpFrom: the scopes so many hops up.
LEMMA Layers ==
    ASSUME NEW t, NetworkShape(t), NEW a \in t.known
    PROVE  LET m == Cardinality(t.known)
               layer == UpFrom(t, a)
           IN  /\ m \in Nat \ {0}
               /\ layer[0] = {a}
               /\ \A n \in 0..(m - 1) : layer[n + 1] = UNION {DirectlyUp(t, s) : s \in layer[n]}
               /\ \A n \in 0..m : layer[n] \subseteq t.known
<1> DEFINE m == Cardinality(t.known)
           Turn(f, n) == IF n = 0 THEN {a} ELSE UNION {DirectlyUp(t, s) : s \in f[n - 1]}
           Table(f, k) == f = [n \in 0..k |-> Turn(f, n)]
           S == {k \in Nat : \E f : Table(f, k)}
           layer == UpFrom(t, a)
<1>1. m \in Nat \ {0}
  <2>1. IsFiniteSet(t.known)
    BY Zenon DEF NetworkShape
  <2>2. Cardinality(t.known) \in Nat /\ Cardinality(t.known) # 0
    BY <2>1, FS_CardinalityType, FS_EmptySet, Zenon
  <2> QED
    BY <2>1, <2>2
<1> HIDE DEF m
<1>2. 0 \in S
  <2> DEFINE f == [n \in 0..0 |-> {a}]
  <2>1. \A n \in 0..0 : n = 0
    OBVIOUS
  <2>2. Table(f, 0)
    BY <2>1
  <2> HIDE DEF Table, f
  <2>3. \E g : Table(g, 0)
    BY <2>2
  <2> QED
    BY <2>3
<1>3. ASSUME NEW k \in 0..(m - 1), k \in S PROVE k + 1 \in S
  <2>1. PICK f : Table(f, k)
    BY <1>3
  <2> DEFINE g == [n \in 0..(k + 1) |-> IF n = k + 1 THEN Turn(f, k + 1) ELSE f[n]]
  <2>2. ASSUME NEW n \in 0..(k + 1) PROVE g[n] = Turn(g, n)
    <3>1. n = 0 \/ g[n - 1] = f[n - 1]
      OBVIOUS
    <3>2. g[n] = IF n = k + 1 THEN Turn(f, k + 1) ELSE f[n]
      OBVIOUS
    <3>3. n # k + 1 => f[n] = Turn(f, n)
      <4>1. n # k + 1 => n \in 0..k
        OBVIOUS
      <4> QED
        BY <2>1, <4>1, Zenon
    <3> HIDE DEF g
    <3>4. Turn(f, n) = Turn(g, n)
      BY <3>1, Zenon
    <3> QED
      BY <3>2, <3>3, <3>4, Zenon
  <2>3. Table(g, k + 1)
    BY <2>2, Zenon
  <2> HIDE DEF g, Table
  <2>4. \E h : Table(h, k + 1)
    BY <2>3
  <2> QED
    BY <2>4
<1>4. PICK f : Table(f, m)
  <2>1. m \in 0..m
    BY <1>1
  <2> HIDE DEF S
  <2>2. m \in S
    BY <1>1, <1>2, <1>3, <2>1, UpTo
  <2> QED
    BY <2>2, Zenon DEF S
<1> DEFINE c == CHOOSE g : g = [n \in 0..m |-> Turn(g, n)]
<1>5. c = [n \in 0..m |-> Turn(c, n)]
  BY <1>4, Zenon
<1>6. layer = c
  BY Zenon DEF UpFrom, m
<1> HIDE DEF c, layer
<1>7. \A n \in 0..m : layer[n] = Turn(layer, n)
  BY <1>5, <1>6, Zenon
<1>8. layer[0] = {a}
  <2>1. 0 \in 0..m
    BY <1>1
  <2> QED
    BY <1>7, <2>1
<1>9. ASSUME NEW n \in 0..(m - 1) PROVE layer[n + 1] = UNION {DirectlyUp(t, s) : s \in layer[n]}
  <2>1. n + 1 \in 0..m /\ n + 1 # 0 /\ (n + 1) - 1 = n
    BY <1>1
  <2> QED
    BY <1>7, <2>1, Zenon
<1>10. ASSUME NEW n \in 0..m PROVE layer[n] \subseteq t.known
  <2>1. CASE n = 0
    BY <1>8, <2>1
  <2>2. CASE n # 0
    <3>1. layer[n] = UNION {DirectlyUp(t, s) : s \in layer[n - 1]}
      BY <1>7, <2>2
    <3> QED
      BY <3>1, UpsClosed
  <2> QED
    BY <2>1, <2>2
<1> QED
  BY <1>1, <1>8, <1>9, <1>10 DEF m, layer

\* As many layers as there are scopes reach every scope upstream, and no other.
LEMMA AboveIsUps ==
    ASSUME NEW t, NetworkShape(t), NEW a \in t.known
    PROVE  Above(t, a) = Ups(t, a)
<1> DEFINE N == Cardinality(t.known)
           m == N
           layer == UpFrom(t, a)
           Upto(k) == UNION {layer[n] : n \in 1..k}
<1>1. N \in Nat \ {0} /\ m = N /\ IsFiniteSet(t.known)
  BY Layers DEF NetworkShape
<1>2. /\ layer[0] = {a}
      /\ \A n \in 0..(m - 1) : layer[n + 1] = UNION {DirectlyUp(t, s) : s \in layer[n]}
      /\ \A n \in 0..m : layer[n] \subseteq t.known
  BY Layers, Zenon
<1> HIDE DEF m, N, layer
<1>3. layer[1] = DirectlyUp(t, a)
  <2>1. 0 \in 0..(m - 1) /\ 0 + 1 = 1
    BY <1>1
  <2>2. layer[0 + 1] = UNION {DirectlyUp(t, s) : s \in layer[0]}
    BY <1>2, <2>1, Zenon
  <2> QED
    BY <1>2, <2>1, <2>2
<1>4. ASSUME NEW S, Closed(t, a, S) PROVE \A n \in 0..m : n # 0 => layer[n] \subseteq S
  <2> DEFINE M == {n \in 0..m : n # 0 => layer[n] \subseteq S}
  <2>1. 0 \in M
    BY <1>1
  <2>2. ASSUME NEW k \in 0..(m - 1), k \in M PROVE k + 1 \in M
    <3>1. k + 1 \in 0..m
      BY <1>1
    <3>2. layer[k + 1] \subseteq S
      <4>1. CASE k = 0
        BY <1>3, <1>4, <4>1 DEF Closed
      <4>2. CASE k # 0
        <5>1. layer[k] \subseteq S
          BY <2>2, <4>2
        <5>2. layer[k + 1] = UNION {DirectlyUp(t, s) : s \in layer[k]}
          BY <1>2
        <5> QED
          BY <1>4, <5>1, <5>2 DEF Closed
      <4> QED
        BY <4>1, <4>2
    <3> QED
      BY <3>1, <3>2
  <2> HIDE DEF M
  <2>3. \A n \in 0..m : n \in M
    BY <1>1, <2>1, <2>2, UpTo
  <2> QED
    BY <2>3 DEF M
<1>5. \A n \in 0..m : n # 0 => layer[n] \subseteq Ups(t, a)
  BY <1>4, UpsClosed, Zenon
<1>6. \A k \in 0..N : Upto(k) \subseteq t.known /\ IsFiniteSet(Upto(k)) /\ Cardinality(Upto(k)) \in Nat
  <2> SUFFICES ASSUME NEW k \in 0..N
               PROVE  Upto(k) \subseteq t.known /\ IsFiniteSet(Upto(k)) /\ Cardinality(Upto(k)) \in Nat
    OBVIOUS
  <2>1. \A n \in 1..k : n \in 0..m
    BY <1>1
  <2>2. Upto(k) \subseteq t.known
    BY <1>2, <2>1
  <2> HIDE DEF Upto
  <2>3. IsFiniteSet(Upto(k))
    BY <1>1, <2>2, FS_Subset
  <2> QED
    BY <2>2, <2>3, FS_CardinalityType
<1>7. ASSUME NEW s \in Upto(N), NEW y \in DirectlyUp(t, s), y \notin Upto(N) PROVE FALSE
  <2>1. ASSUME NEW k \in 0..(N - 1) PROVE Upto(k) # Upto(k + 1)
    <3> SUFFICES ASSUME Upto(k) = Upto(k + 1) PROVE FALSE
      OBVIOUS
    <3>1. \A n \in 1..(k + 1) : n \in 0..m
      BY <1>1
    <3>2. DirectlyUp(t, a) \subseteq Upto(k + 1)
      <4>1. 1 \in 1..(k + 1)
        BY <1>1
      <4> QED
        BY <1>3, <4>1
    <3>3. ASSUME NEW z \in Upto(k) PROVE DirectlyUp(t, z) \subseteq Upto(k + 1)
      <4>1. PICK n \in 1..k : z \in layer[n]
        BY <3>3
      <4>2. n \in 0..(m - 1) /\ n + 1 \in 1..(k + 1)
        BY <1>1
      <4>3. layer[n + 1] = UNION {DirectlyUp(t, x) : x \in layer[n]}
        BY <1>2, <4>2, Zenon
      <4>4. layer[n + 1] \subseteq Upto(k + 1)
        BY <4>2
      <4> HIDE DEF Upto
      <4> QED
        BY <4>1, <4>3, <4>4
    <3>4. Upto(k) \subseteq t.known
      <4>1. k \in 0..N
        BY <1>1
      <4> HIDE DEF Upto
      <4> QED
        BY <1>6, <4>1
    <3> DEFINE U == Upto(k)
    <3>5. Closed(t, a, U)
      <4> HIDE DEF Upto
      <4> QED
        BY <3>2, <3>3, <3>4 DEF Closed
    <3>6. \A n \in 1..N : layer[n] \subseteq U
      <4>1. \A n \in 1..N : n \in 0..m /\ n # 0
        BY <1>1
      <4> HIDE DEF U
      <4> QED
        BY <1>4, <3>5, <4>1
    <3>7. Upto(N) \subseteq U
      <4> HIDE DEF U
      <4> QED
        BY <3>6
    <3>8. U \subseteq Upto(N)
      BY <1>1
    <3>9. DirectlyUp(t, s) \subseteq U
      <4> HIDE DEF Upto
      <4> QED
        BY <1>7, <3>5, <3>7 DEF Closed
    <3> HIDE DEF Upto, U
    <3> QED
      BY <1>7, <3>8, <3>9
  <2>2. \A k \in 0..(N - 1) : Upto(k) \subseteq Upto(k + 1)
    OBVIOUS
  <2> DEFINE G == {k \in 0..N : Cardinality(Upto(k)) >= k}
  <2>3. 0 \in G
    <3>1. 0 \in 0..N
      BY <1>1
    <3> HIDE DEF Upto
    <3> QED
      BY <1>6, <3>1
  <2>4. ASSUME NEW k \in 0..(N - 1), k \in G PROVE k + 1 \in G
    <3>1. k \in 0..N /\ k + 1 \in 0..N
      BY <1>1
    <3>2. PICK z \in Upto(k + 1) : z \notin Upto(k)
      <4>1. Upto(k) # Upto(k + 1) /\ Upto(k) \subseteq Upto(k + 1)
        BY <2>1, <2>2
      <4> HIDE DEF Upto
      <4> QED
        BY <4>1
    <3>3. Upto(k) \subseteq Upto(k + 1) \ {z}
      <4>1. Upto(k) \subseteq Upto(k + 1)
        BY <2>2
      <4> HIDE DEF Upto
      <4> QED
        BY <3>2, <4>1
    <3> HIDE DEF Upto
    <3>4. /\ IsFiniteSet(Upto(k + 1) \ {z})
          /\ Cardinality(Upto(k + 1) \ {z}) = Cardinality(Upto(k + 1)) - 1
      BY <1>6, <3>1, <3>2, OneLess
    <3>5. Cardinality(Upto(k)) <= Cardinality(Upto(k + 1) \ {z})
      BY <3>3, <3>4, FS_Subset
    <3>6. Cardinality(Upto(k)) \in Nat /\ Cardinality(Upto(k + 1)) \in Nat
      BY <1>6, <3>1
    <3> QED
      BY <2>4, <3>1, <3>4, <3>5, <3>6
  <2> HIDE DEF G
  <2>5. N \in G
    <3>1. N \in 0..N /\ N \in Nat
      BY <1>1
    <3>2. \A k \in 0..N : k \in G
      BY <2>3, <2>4, <3>1, UpTo
    <3> QED
      BY <3>1, <3>2
  <2> HIDE DEF Upto
  <2>6. N \in 0..N
    BY <1>1
  <2>7. y \in t.known
    BY UpsClosed
  <2>8. Upto(N) \subseteq t.known \ {y}
    BY <1>6, <1>7, <2>6
  <2>9. IsFiniteSet(t.known \ {y}) /\ Cardinality(t.known \ {y}) = N - 1
    BY <1>1, <2>7, OneLess DEF N
  <2>10. Cardinality(Upto(N)) <= N - 1
    BY <2>8, <2>9, FS_Subset
  <2> QED
    BY <1>1, <1>6, <2>5, <2>6, <2>10 DEF G
<1>8. Upto(N) \subseteq t.known
  <2>1. N \in 0..N
    BY <1>1
  <2> HIDE DEF Upto
  <2> QED
    BY <1>6, <2>1
<1>9. DirectlyUp(t, a) \subseteq Upto(N)
  <2>1. 1 \in 1..N
    BY <1>1
  <2> QED
    BY <1>3, <2>1
<1>10. Upto(N) \subseteq Ups(t, a)
  <2>1. \A n \in 1..N : n \in 0..m /\ n # 0
    BY <1>1
  <2> QED
    BY <1>5, <2>1
<1> DEFINE A == Upto(N)
<1>11. A = Above(t, a)
  BY Zenon DEF Above, N, layer
<1> HIDE DEF Upto
<1>12. Closed(t, a, A)
  BY <1>7, <1>8, <1>9 DEF Closed
<1>13. Ups(t, a) = A
  <2> HIDE DEF A
  <2>1. Ups(t, a) \subseteq A
    BY <1>12, UpsClosed, Zenon
  <2> QED
    BY <1>10, <2>1 DEF A
<1> QED
  BY <1>11, <1>13

\* The ways up by their hops, as far as the hop bound and one more.
LEMMA Ways ==
    ASSUME NEW t, NetworkShape(t), NEW a
    PROVE  /\ WaysUp(t, a)[0] = {<< a, {} >>}
           /\ \A n \in 0..t.max_hops :
                 WaysUp(t, a)[n + 1] = UNION {FurtherUp(t, w) : w \in WaysUp(t, a)[n]}
<1> DEFINE m == t.max_hops + 1
           Turn(f, n) == IF n = 0 THEN {<< a, {} >>} ELSE UNION {FurtherUp(t, w) : w \in f[n - 1]}
           Table(f, k) == f = [n \in 0..k |-> Turn(f, n)]
           S == {k \in Nat : \E f : Table(f, k)}
           ways == WaysUp(t, a)
<1>1. m \in Nat /\ t.max_hops = m - 1
  BY DEF NetworkShape
<1> HIDE DEF m
<1>2. 0 \in S
  <2> DEFINE f == [n \in 0..0 |-> {<< a, {} >>}]
  <2>1. \A n \in 0..0 : n = 0
    OBVIOUS
  <2>2. Table(f, 0)
    BY <2>1
  <2> HIDE DEF Table, f
  <2>3. \E g : Table(g, 0)
    BY <2>2
  <2> QED
    BY <2>3
<1>3. ASSUME NEW k \in 0..(m - 1), k \in S PROVE k + 1 \in S
  <2>1. PICK f : Table(f, k)
    BY <1>3
  <2> DEFINE g == [n \in 0..(k + 1) |-> IF n = k + 1 THEN Turn(f, k + 1) ELSE f[n]]
  <2>2. ASSUME NEW n \in 0..(k + 1) PROVE g[n] = Turn(g, n)
    <3>1. n = 0 \/ g[n - 1] = f[n - 1]
      OBVIOUS
    <3>2. g[n] = IF n = k + 1 THEN Turn(f, k + 1) ELSE f[n]
      OBVIOUS
    <3>3. n # k + 1 => f[n] = Turn(f, n)
      <4>1. n # k + 1 => n \in 0..k
        OBVIOUS
      <4> QED
        BY <2>1, <4>1, Zenon
    <3> HIDE DEF g
    <3>4. Turn(f, n) = Turn(g, n)
      BY <3>1, Zenon
    <3> QED
      BY <3>2, <3>3, <3>4, Zenon
  <2>3. Table(g, k + 1)
    BY <2>2, Zenon
  <2> HIDE DEF g, Table
  <2>4. \E h : Table(h, k + 1)
    BY <2>3
  <2> QED
    BY <2>4
<1>4. PICK f : Table(f, m)
  <2>1. m \in 0..m
    BY <1>1
  <2> HIDE DEF S
  <2>2. m \in S
    BY <1>1, <1>2, <1>3, <2>1, UpTo
  <2> QED
    BY <2>2, Zenon DEF S
<1> DEFINE c == CHOOSE g : g = [n \in 0..m |-> Turn(g, n)]
<1>5. c = [n \in 0..m |-> Turn(c, n)]
  BY <1>4, Zenon
<1>6. ways = c
  BY Zenon DEF WaysUp, m
<1> HIDE DEF c, ways
<1>7. \A n \in 0..m : ways[n] = Turn(ways, n)
  BY <1>5, <1>6, Zenon
<1>8. ways[0] = {<< a, {} >>}
  <2>1. 0 \in 0..m
    BY <1>1
  <2> QED
    BY <1>7, <2>1
<1>9. ASSUME NEW n \in 0..t.max_hops PROVE ways[n + 1] = UNION {FurtherUp(t, w) : w \in ways[n]}
  <2>1. n + 1 \in 0..m /\ n + 1 # 0 /\ (n + 1) - 1 = n
    BY <1>1
  <2> QED
    BY <1>7, <2>1, Zenon
<1> QED
  BY <1>8, <1>9 DEF ways
-----------------------------------------------------------------------------
(* The bounded depth-first search upwards (dfs, upstream_of). *)

\* What a search from down for up has found is so: a target found is upstream, a
\* cycle met is above the start, hops ran out on a way longer than the bound; and
\* without either the scopes explored are closed, none is on a cycle, and the target
\* was noticed.
Sound(t, up, down, o) ==
    /\ o \in Findings(t)
    /\ o.found => up \in Ups(t, down)
    /\ o.cycle => \E s \in {down} \cup Ups(t, down) : s \in Ups(t, s)
    /\ o.hop_overrun => CutOff(t, down)
    /\ ~o.cycle /\ ~o.hop_overrun =>
          \A d \in o.done : /\ DirectlyUp(t, d) \subseteq o.done /\ d \notin Ups(t, d)
                            /\ up \in DirectlyUp(t, d) => o.found
\* A search only learns.
Learnt(o, r) ==
    /\ o.done \subseteq r.done /\ (o.found => r.found)
    /\ (o.cycle => r.cycle) /\ (o.hop_overrun => r.hop_overrun)
\* A visit with hops left: its path is a way up of as many hops as were taken, and
\* its node is upstream of every node on the path.
Asked(t, down, hops_left, c) ==
    /\ c \in Visits(t) /\ << c.node, c.path >> \in WaysUp(t, down)[t.max_hops - hops_left]
    /\ c.node \in {down} \cup Ups(t, down)
    /\ c.path \subseteq {down} \cup Ups(t, down) /\ \A p \in c.path : c.node \in Ups(t, p)
\* What a visit must come to, and a function that searches right.
Visited(t, up, down, c, r) == Sound(t, up, down, r) /\ Learnt(c.o, r) /\ c.node \in r.done
Searches(t, up, down, hops_left, f) ==
    \A c \in Visits(t) : Asked(t, down, hops_left, c) /\ Sound(t, up, down, c.o)
        => Visited(t, up, down, c, f[c])

\* Where a visit is: at or above the start, and so are its node's upstreams; one of
\* them that is not on the path takes the way a hop further.
LEMMA AskedAbove ==
    ASSUME NEW t, NetworkShape(t), NEW down \in t.known, NEW h \in 0..t.max_hops,
           NEW c, Asked(t, down, h, c)
    PROVE  /\ c.node \in {down} \cup Ups(t, down) /\ DirectlyUp(t, c.node) \subseteq Ups(t, down)
           /\ \A x \in DirectlyUp(t, c.node) \ (c.path \cup {c.node}) :
                 << x, c.path \cup {c.node} >> \in WaysUp(t, down)[t.max_hops - h + 1]
<1> DEFINE n == t.max_hops - h
           w == << c.node, c.path >>
<1>1. t.max_hops \in Nat /\ n \in 0..t.max_hops
  BY DEF NetworkShape
<1>2. w \in WaysUp(t, down)[n] /\ c.node \in {down} \cup Ups(t, down)
  BY Zenon DEF Asked
<1>3. w[1] = c.node /\ w[2] = c.path
  OBVIOUS
<1> HIDE DEF n, w
<1>4. DirectlyUp(t, c.node) \subseteq Ups(t, down)
  BY <1>2, UpsClosed DEF Closed
<1>5. WaysUp(t, down)[n + 1] = UNION {FurtherUp(t, v) : v \in WaysUp(t, down)[n]}
  <2>1. \A k \in 0..t.max_hops :
            WaysUp(t, down)[k + 1] = UNION {FurtherUp(t, v) : v \in WaysUp(t, down)[k]}
    BY Ways, Zenon
  <2> QED
    BY <1>1, <2>1, Zenon
<1>6. FurtherUp(t, w) \subseteq WaysUp(t, down)[n + 1]
  BY <1>2, <1>5
<1>7. ASSUME NEW x \in DirectlyUp(t, c.node) \ (c.path \cup {c.node})
      PROVE  << x, c.path \cup {c.node} >> \in FurtherUp(t, w)
  BY <1>3 DEF FurtherUp
<1> QED
  BY <1>2, <1>4, <1>6, <1>7 DEF n

\* One neighbour's turn in the loop of dfs.
LEMMA NeighbourSearched ==
    ASSUME NEW t, NetworkShape(t), NEW up, NEW down \in t.known, NEW h \in 0..t.max_hops,
           NEW deeper, h = 0 \/ Searches(t, up, down, h - 1, deeper),
           NEW c, Asked(t, down, h, c), NEW x \in DirectlyUp(t, c.node),
           NEW q, Sound(t, up, down, q),
           NEW r, r = VisitNext(x, up, h, c.path \cup {c.node}, q, deeper)
    PROVE  /\ Sound(t, up, down, r) /\ Learnt(q, r)
           /\ ~r.cycle /\ ~r.hop_overrun => x \in r.done
           /\ x = up => r.found
<1> DEFINE path == c.path \cup {c.node}
           seen == [q EXCEPT !.found = @ \/ x = up]
<1>1. q \in Findings(t) /\ c \in Visits(t) /\ t.max_hops \in Nat /\ c.node \in t.known
  BY DEF Sound, Asked, NetworkShape, Visits
<1>2. /\ c.node \in {down} \cup Ups(t, down) /\ DirectlyUp(t, c.node) \subseteq Ups(t, down)
      /\ x \notin path => << x, path >> \in WaysUp(t, down)[t.max_hops - h + 1]
  BY AskedAbove
<1>3. /\ seen \in Findings(t) /\ seen.done = q.done /\ seen.cycle = q.cycle
      /\ seen.hop_overrun = q.hop_overrun /\ (seen.found <=> (q.found \/ x = up))
  BY <1>1 DEF Findings
<1>4. Sound(t, up, down, seen) /\ Learnt(q, seen) /\ (x = up => seen.found)
  <2> HIDE DEF seen
  <2>1. seen.found => up \in Ups(t, down)
    BY <1>2, <1>3 DEF Sound
  <2> QED
    BY <1>3, <2>1 DEF Sound, Learnt
<1>5. path \subseteq {down} \cup Ups(t, down) /\ \A p \in path : x \in Ups(t, p)
  <2>1. \A p \in c.path : p \in {down} \cup Ups(t, down) /\ c.node \in Ups(t, p)
    BY Zenon DEF Asked
  <2>2. \A p \in c.path : x \in Ups(t, p)
    BY <2>1, UpsClosed DEF Closed
  <2>3. x \in Ups(t, c.node)
    BY UpsClosed DEF Closed
  <2> QED
    BY <1>2, <2>1, <2>2, <2>3
<1>6. r = IF x \in path THEN [seen EXCEPT !.cycle = TRUE]
          ELSE IF x \in q.done THEN seen
          ELSE IF h = 0 THEN [seen EXCEPT !.hop_overrun = TRUE]
          ELSE deeper[Visit(x, path, seen)]
  BY DEF VisitNext
<1> HIDE DEF path, seen
<1>7. CASE x \in path
  <2>1. r = [seen EXCEPT !.cycle = TRUE]
    BY <1>6, <1>7
  <2>2. /\ r \in Findings(t) /\ r.cycle /\ r.found = seen.found /\ r.done = seen.done
        /\ r.hop_overrun = seen.hop_overrun
    BY <1>3, <2>1 DEF Findings
  <2>3. \E s \in {down} \cup Ups(t, down) : s \in Ups(t, s)
    BY <1>5, <1>7
  <2>4. Sound(t, up, down, r)
    BY <1>4, <2>2, <2>3 DEF Sound
  <2> QED
    BY <1>4, <2>2, <2>4 DEF Learnt
<1>8. CASE x \notin path /\ x \in q.done
  <2>1. r = seen
    BY <1>6, <1>8
  <2> QED
    BY <1>3, <1>4, <1>8, <2>1
<1>9. CASE x \notin path /\ x \notin q.done /\ h = 0
  <2>1. r = [seen EXCEPT !.hop_overrun = TRUE]
    BY <1>6, <1>9
  <2>2. /\ r \in Findings(t) /\ r.hop_overrun /\ r.found = seen.found /\ r.done = seen.done
        /\ r.cycle = seen.cycle
    BY <1>3, <2>1 DEF Findings
  <2>3. CutOff(t, down)
    <3>1. t.max_hops - h + 1 = t.max_hops + 1
      BY <1>1, <1>9
    <3> QED
      BY <1>2, <1>9, <3>1 DEF CutOff
  <2>4. Sound(t, up, down, r)
    BY <1>4, <2>2, <2>3 DEF Sound
  <2> QED
    BY <1>4, <2>2, <2>4 DEF Learnt
<1>10. CASE x \notin path /\ x \notin q.done /\ h # 0
  <2> DEFINE v == Visit(x, path, seen)
  <2>1. r = deeper[v]
    BY <1>6, <1>10
  <2>2. v.node = x /\ v.path = path /\ v.o = seen
    BY DEF Visit
  <2>3. v \in Visits(t)
    <3>1. x \in t.known /\ path \subseteq t.known
      <4>1. Ups(t, down) \subseteq t.known
        BY DEF Ups
      <4> QED
        BY <1>2, <1>5, <4>1
    <3> QED
      BY <1>3, <3>1 DEF Visit, Visits
  <2> HIDE DEF v
  <2>4. Asked(t, down, h - 1, v)
    <3>1. t.max_hops - (h - 1) = t.max_hops - h + 1
      BY <1>1
    <3>2. << x, path >> \in WaysUp(t, down)[t.max_hops - (h - 1)]
      BY <1>2, <1>10, <3>1
    <3>3. x \in Ups(t, down)
      BY <1>2
    <3> QED
      BY <1>5, <2>2, <2>3, <3>2, <3>3 DEF Asked
  <2>5. Visited(t, up, down, v, r)
    BY <1>4, <1>10, <2>1, <2>2, <2>3, <2>4, Zenon DEF Searches
  <2>6. Sound(t, up, down, r) /\ Learnt(seen, r) /\ x \in r.done
    BY <2>2, <2>5 DEF Visited
  <2> QED
    BY <1>4, <2>6 DEF Learnt
<1> QED
  BY <1>7, <1>8, <1>9, <1>10
\* One visit: the loop over a node's direct upstreams, and the node done (dfs's body).
LEMMA VisitSearched ==
    ASSUME NEW t, NetworkShape(t), NEW up, NEW down \in t.known, NEW h \in 0..t.max_hops,
           NEW deeper, h = 0 \/ Searches(t, up, down, h - 1, deeper),
           NEW c, Asked(t, down, h, c), Sound(t, up, down, c.o)
    PROVE  Visited(t, up, down, c, Explore(t, up, h, c, deeper))
<1> DEFINE path  == c.path \cup {c.node}
           step  == [p \in t.known \X Findings(t) |-> VisitNext(p[1], up, h, path, p[2], deeper)]
           near  == DirectlyUp(t, c.node)
           after == InOrder(near, c.o, step)
           Seen(T, q) == ~q.cycle /\ ~q.hop_overrun => T \subseteq q.done
           Told(T, q) == up \in T => q.found
           P == {p \in (SUBSET near) \X Findings(t) :
                    /\ Sound(t, up, down, p[2]) /\ Learnt(c.o, p[2])
                    /\ Seen(p[1], p[2]) /\ Told(p[1], p[2])}
<1>1. near \subseteq t.known /\ near \in SUBSET Int /\ IsFiniteSet(near) /\ c.node \in t.known
  <2>1. near \subseteq t.known
    BY UpsClosed
  <2>2. IsFiniteSet(t.known) /\ t.known \subseteq Int
    BY Zenon DEF NetworkShape
  <2>3. c.node \in t.known
    BY DEF Asked, Visits
  <2> HIDE DEF near
  <2>4. IsFiniteSet(near)
    BY <2>1, <2>2, FS_Subset
  <2> QED
    BY <2>1, <2>2, <2>3, <2>4
<1>2. << {}, c.o >> \in P
  <2>1. c.o \in Findings(t)
    BY DEF Sound
  <2>2. Learnt(c.o, c.o)
    BY DEF Learnt
  <2> QED
    BY <2>1, <2>2
<1>3. ASSUME NEW T \in SUBSET near, NEW x \in near, NEW q, << T, q >> \in P
      PROVE  << T \cup {x}, step[<< x, q >>] >> \in P
  <2>1. q \in Findings(t) /\ Sound(t, up, down, q) /\ Learnt(c.o, q) /\ Seen(T, q) /\ Told(T, q)
    BY <1>3
  <2> DEFINE r == VisitNext(x, up, h, path, q, deeper)
  <2>2. step[<< x, q >>] = r
    BY <1>1, <2>1
  <2>3. /\ Sound(t, up, down, r) /\ Learnt(q, r)
        /\ ~r.cycle /\ ~r.hop_overrun => x \in r.done
        /\ x = up => r.found
    <3>1. r = VisitNext(x, up, h, c.path \cup {c.node}, q, deeper)
      OBVIOUS
    <3>2. x \in DirectlyUp(t, c.node)
      OBVIOUS
    <3> HIDE DEF r, P, step, after, near
    <3> QED
      BY <2>1, <3>1, <3>2, NeighbourSearched
  <2> HIDE DEF r, step
  <2>4. r \in Findings(t) /\ q.cycle \in BOOLEAN /\ q.hop_overrun \in BOOLEAN
    BY <2>1, <2>3 DEF Sound, Findings
  <2>5. Learnt(c.o, r)
    BY <2>1, <2>3 DEF Learnt
  <2>6. Seen(T \cup {x}, r) /\ Told(T \cup {x}, r)
    BY <2>1, <2>3, <2>4 DEF Learnt
  <2>7. T \cup {x} \in SUBSET near
    OBVIOUS
  <2> HIDE DEF Seen, Told, near
  <2> QED
    BY <2>2, <2>3, <2>4, <2>5, <2>6, <2>7
<1>4. << near, after >> \in P
  <2> HIDE DEF P, step, near
  <2> QED
    BY <1>1, <1>2, <1>3, WalkReaches
<1>5. /\ after \in Findings(t) /\ Sound(t, up, down, after) /\ Learnt(c.o, after)
      /\ Seen(near, after) /\ Told(near, after)
  <2> HIDE DEF Seen, Told, after
  <2> QED
    BY <1>4
<1> DEFINE r == [after EXCEPT !.done = @ \cup {c.node}]
<1>6. Explore(t, up, h, c, deeper) = r
  BY Zenon DEF Explore
<1> HIDE DEF after
<1>7. /\ r \in Findings(t) /\ r.done = after.done \cup {c.node} /\ r.found = after.found
      /\ r.cycle = after.cycle /\ r.hop_overrun = after.hop_overrun
  BY <1>1, <1>5 DEF Findings
<1> HIDE DEF r
<1>8. ASSUME ~r.cycle, ~r.hop_overrun, NEW d \in r.done
      PROVE  /\ DirectlyUp(t, d) \subseteq r.done /\ d \notin Ups(t, d)
             /\ up \in DirectlyUp(t, d) => r.found
  <2>1. CASE d \in after.done
    BY <1>5, <1>7, <1>8, <2>1 DEF Sound
  <2>2. CASE d \notin after.done
    <3>1. d = c.node /\ near \subseteq after.done
      BY <1>5, <1>7, <1>8, <2>2
    <3>2. Closed(t, d, after.done)
      <4>1. after.done \subseteq t.known
        BY <1>5 DEF Findings
      <4>2. \A e \in after.done : DirectlyUp(t, e) \subseteq after.done
        BY <1>5, <1>7, <1>8 DEF Sound
      <4> QED
        BY <3>1, <4>1, <4>2 DEF Closed
    <3>3. Ups(t, d) \subseteq after.done
      BY <3>2, UpsClosed, Zenon
    <3> QED
      BY <1>5, <1>7, <1>8, <2>2, <3>1, <3>3
  <2> QED
    BY <2>1, <2>2
<1>9. Sound(t, up, down, r)
  BY <1>5, <1>7, <1>8 DEF Sound
<1>10. Learnt(c.o, r) /\ c.node \in r.done
  BY <1>5, <1>7 DEF Learnt
<1> QED
  BY <1>6, <1>9, <1>10 DEF Visited

\* The searches by the hops left (with, in dfs). With no hop left none is taken, so
\* that what a deeper search comes to does not matter.
SearchTurn(t, up, f, h) == [c \in Visits(t) |-> Explore(t, up, h, c, f[h - 1])]
LEMMA LastHop ==
    ASSUME NEW t, NEW up, NEW f, NEW g
    PROVE  SearchTurn(t, up, f, 0) = SearchTurn(t, up, g, 0)
<1>1. ASSUME NEW c, NEW d, NEW e PROVE Explore(t, up, 0, c, d) = Explore(t, up, 0, c, e)
  <2> DEFINE path == c.path \cup {c.node}
             S == t.known \X Findings(t)
             step(u) == [p \in S |-> VisitNext(p[1], up, 0, path, p[2], u)]
  <2>1. \A p \in S : VisitNext(p[1], up, 0, path, p[2], d) = VisitNext(p[1], up, 0, path, p[2], e)
    BY DEF VisitNext
  <2>2. step(d) = step(e)
    <3> HIDE DEF S, path
    <3> QED
      BY <2>1
  <2>3. \A u : Explore(t, up, 0, c, u) =
                 [InOrder(DirectlyUp(t, c.node), c.o, step(u)) EXCEPT !.done = @ \cup {c.node}]
    BY Zenon DEF Explore
  <2> HIDE DEF step
  <2> QED
    BY <2>2, <2>3, Zenon
<1>2. \A c : Explore(t, up, 0, c, f[0 - 1]) = Explore(t, up, 0, c, g[0 - 1])
  BY <1>1, Zenon
<1> DEFINE V == Visits(t)
           ef(c) == Explore(t, up, 0, c, f[0 - 1])
           eg(c) == Explore(t, up, 0, c, g[0 - 1])
<1>3. SearchTurn(t, up, f, 0) = [c \in V |-> ef(c)] /\ SearchTurn(t, up, g, 0) = [c \in V |-> eg(c)]
  BY Zenon DEF SearchTurn
<1>4. \A c : ef(c) = eg(c)
  BY <1>2
<1> HIDE DEF ef, eg, V
<1> QED
  BY <1>3, <1>4

\* The searches of dfs exist, one for every number of hops left.
LEMMA SearchRuns ==
    ASSUME NEW t, NetworkShape(t), NEW up
    PROVE  dfs(t, up) = [h \in 0..t.max_hops |-> SearchTurn(t, up, dfs(t, up), h)]
<1> DEFINE m == t.max_hops
           Table(f, k) == f = [h \in 0..k |-> SearchTurn(t, up, f, h)]
           S == {k \in Nat : \E f : Table(f, k)}
<1>1. m \in Nat
  BY DEF NetworkShape
<1> HIDE DEF m
<1>2. 0 \in S
  <2> DEFINE f == [h \in 0..0 |-> SearchTurn(t, up, << >>, 0)]
  <2>1. SearchTurn(t, up, << >>, 0) = SearchTurn(t, up, f, 0)
    BY LastHop, Zenon
  <2>2. \A h \in 0..0 : h = 0
    OBVIOUS
  <2>3. \A h \in 0..0 : f[h] = SearchTurn(t, up, f, h)
    <3>1. \A h \in 0..0 : f[h] = SearchTurn(t, up, << >>, 0)
      BY Zenon
    <3> HIDE DEF f
    <3> QED
      BY <2>1, <2>2, <3>1, Zenon
  <2>4. Table(f, 0)
    BY <2>3, Zenon
  <2> HIDE DEF Table, f
  <2>5. \E g : Table(g, 0)
    BY <2>4
  <2> QED
    BY <2>5
<1>3. ASSUME NEW k \in 0..(m - 1), k \in S PROVE k + 1 \in S
  <2>1. PICK f : Table(f, k)
    BY <1>3
  <2> DEFINE g == [h \in 0..(k + 1) |-> IF h = k + 1 THEN SearchTurn(t, up, f, k + 1) ELSE f[h]]
  <2>2. ASSUME NEW h \in 0..(k + 1) PROVE g[h] = SearchTurn(t, up, g, h)
    <3>1. h = 0 \/ g[h - 1] = f[h - 1]
      OBVIOUS
    <3>2. g[h] = IF h = k + 1 THEN SearchTurn(t, up, f, k + 1) ELSE f[h]
      OBVIOUS
    <3>3. h # k + 1 => f[h] = SearchTurn(t, up, f, h)
      <4>1. h # k + 1 => h \in 0..k
        OBVIOUS
      <4> QED
        BY <2>1, <4>1, Zenon
    <3> HIDE DEF g
    <3>4. SearchTurn(t, up, f, h) = SearchTurn(t, up, g, h)
      <4>1. CASE h = 0
        BY <4>1, LastHop, Zenon
      <4>2. CASE h # 0
        <5>1. g[h - 1] = f[h - 1]
          BY <3>1, <4>2
        <5> QED
          BY <5>1, Zenon DEF SearchTurn
      <4> QED
        BY <4>1, <4>2
    <3> QED
      BY <3>2, <3>3, <3>4, Zenon
  <2>3. Table(g, k + 1)
    BY <2>2, Zenon
  <2> HIDE DEF g, Table
  <2>4. \E h : Table(h, k + 1)
    BY <2>3
  <2> QED
    BY <2>4
<1>4. PICK f : Table(f, m)
  <2>1. m \in 0..m
    BY <1>1
  <2> HIDE DEF S
  <2>2. m \in S
    BY <1>1, <1>2, <1>3, <2>1, UpTo
  <2> QED
    BY <2>2, Zenon DEF S
<1> DEFINE with == CHOOSE g : g = [h \in 0..m |-> SearchTurn(t, up, g, h)]
<1>5. with = [h \in 0..m |-> SearchTurn(t, up, with, h)]
  BY <1>4, Zenon
<1>6. dfs(t, up) = with
  BY Zenon DEF dfs, SearchTurn, m
<1> HIDE DEF with
<1> QED
  BY <1>5, <1>6 DEF m

\* A search is right whatever hops it has left.
LEMMA SearchesRight ==
    ASSUME NEW t, NetworkShape(t), NEW up, NEW down \in t.known
    PROVE  \A h \in 0..t.max_hops : Searches(t, up, down, h, dfs(t, up)[h])
<1> DEFINE f == dfs(t, up)
           S == {h \in 0..t.max_hops : Searches(t, up, down, h, f[h])}
<1>1. t.max_hops \in Nat
  BY DEF NetworkShape
<1>2. f = [h \in 0..t.max_hops |-> SearchTurn(t, up, f, h)]
  BY SearchRuns, Zenon
<1> HIDE DEF f
<1>3. ASSUME NEW h \in 0..t.max_hops, h = 0 \/ Searches(t, up, down, h - 1, f[h - 1])
      PROVE  Searches(t, up, down, h, f[h])
  <2> SUFFICES ASSUME NEW c \in Visits(t), Asked(t, down, h, c), Sound(t, up, down, c.o)
               PROVE  Visited(t, up, down, c, f[h][c])
    BY Zenon DEF Searches
  <2>1. f[h][c] = Explore(t, up, h, c, f[h - 1])
    <3>1. f[h] = SearchTurn(t, up, f, h)
      BY <1>2, Zenon
    <3> QED
      BY <3>1, Zenon DEF SearchTurn
  <2>2. Visited(t, up, down, c, Explore(t, up, h, c, f[h - 1]))
    BY <1>3, VisitSearched, Zenon
  <2> QED
    BY <2>1, <2>2
<1>4. 0 \in S
  BY <1>1, <1>3
<1>5. ASSUME NEW k \in 0..(t.max_hops - 1), k \in S PROVE k + 1 \in S
  <2>1. k + 1 \in 0..t.max_hops /\ (k + 1) - 1 = k
    BY <1>1
  <2>2. Searches(t, up, down, k, f[k])
    BY <1>5
  <2>3. Searches(t, up, down, k + 1, f[k + 1])
    BY <1>3, <2>1, <2>2
  <2> QED
    BY <2>1, <2>3
<1> HIDE DEF S
<1>6. \A h \in 0..t.max_hops : h \in S
  BY <1>1, <1>4, <1>5, UpTo
<1> QED
  BY <1>6 DEF S, f

\* The answer of upstream_of about two scopes of the network is the documented one
\* where no way up is longer than the hop bound, and never wrong where one is.
LEMMA UpstreamRight ==
    ASSUME NEW t, NetworkShape(t), NEW up, NEW down, up = down \/ {up, down} \subseteq t.known
    PROVE  UpstreamAnswered(t, up, down, upstream_of(t, up, down))
<1>0. ASSUME NEW x, NEW y
      PROVE  Reply(x, y).t3 = x /\ Reply(x, y).diag = y
  BY DEF Reply
<1>1. CASE up = down
  <2>1. upstream_of(t, up, down) = Reply("F", "none")
    BY <1>1, Zenon DEF upstream_of
  <2> QED
    BY <1>1, <2>1, Zenon DEF UpstreamAnswered, UpstreamAnswer
<1>2. CASE up # down
  <2> DEFINE start == Visit(down, {}, Outcome)
             o == dfs(t, up)[t.max_hops][start]
  <2>1. up \in t.known /\ down \in t.known
    BY <1>2
  <2>2. upstream_of(t, up, down) = Judge(o)
    <3>1. {up, down} \subseteq t.known
      BY <2>1
    <3> QED
      BY <1>2, <3>1, Zenon DEF upstream_of
  <2>3. Outcome \in Findings(t) /\ ~Outcome.found /\ ~Outcome.cycle /\ ~Outcome.hop_overrun /\ Outcome.done = {}
    BY DEF Outcome, Findings
  <2>4. start.node = down /\ start.path = {} /\ start.o = Outcome /\ start \in Visits(t)
    <3>1. down \in t.known /\ {} \in SUBSET t.known
      BY <2>1
    <3> HIDE DEF Outcome
    <3> QED
      BY <2>3, <3>1 DEF Visit, Visits
  <2>5. t.max_hops \in Nat /\ t.max_hops \in 0..t.max_hops /\ t.max_hops - t.max_hops = 0
    BY DEF NetworkShape
  <2> HIDE DEF start
  <2>6. Asked(t, down, t.max_hops, start)
    <3>1. << down, {} >> \in WaysUp(t, down)[0]
      BY Ways
    <3> QED
      BY <2>4, <2>5, <3>1 DEF Asked
  <2>7. Sound(t, up, down, start.o)
    BY <2>3, <2>4 DEF Sound
  <2>8. Visited(t, up, down, start, o)
    <3>1. Searches(t, up, down, t.max_hops, dfs(t, up)[t.max_hops])
      BY <2>1, <2>5, SearchesRight, Zenon
    <3> QED
      BY <2>4, <2>6, <2>7, <3>1, Zenon DEF Searches
  <2> HIDE DEF o
  <2>9. Sound(t, up, down, o) /\ down \in o.done /\ o \in Findings(t)
    BY <2>4, <2>8 DEF Visited, Sound
  <2>10. \A a \in t.known : Above(t, a) = Ups(t, a)
    BY AboveIsUps, Zenon
  <2>11. o.found \in BOOLEAN /\ o.cycle \in BOOLEAN /\ o.hop_overrun \in BOOLEAN
    BY <2>9 DEF Findings
  <2>12. o.cycle => CycleAbove(t, down)
    <3> SUFFICES ASSUME o.cycle PROVE CycleAbove(t, down)
      OBVIOUS
    <3>1. PICK s \in {down} \cup Ups(t, down) : s \in Ups(t, s)
      BY <2>9 DEF Sound
    <3>2. s \in t.known
      BY <3>1 DEF Ups
    <3> QED
      BY <2>1, <2>10, <3>1, <3>2 DEF CycleAbove
  <2>13. o.found => up \in Above(t, down)
    BY <2>1, <2>9, <2>10 DEF Sound
  <2>14. ~o.cycle /\ ~o.hop_overrun => ~CycleAbove(t, down) /\ (up \in Above(t, down) => o.found)
    <3> SUFFICES ASSUME ~o.cycle, ~o.hop_overrun
                 PROVE  ~CycleAbove(t, down) /\ (up \in Above(t, down) => o.found)
      OBVIOUS
    <3>1. o.done \subseteq t.known
      BY <2>9 DEF Findings
    <3>2. \A d \in o.done : /\ DirectlyUp(t, d) \subseteq o.done /\ d \notin Ups(t, d)
                            /\ up \in DirectlyUp(t, d) => o.found
      BY <2>9 DEF Sound
    <3>3. Ups(t, down) \subseteq o.done
      <4>1. Closed(t, down, o.done)
        BY <2>9, <3>1, <3>2 DEF Closed
      <4> QED
        BY <4>1, UpsClosed, Zenon
    <3>4. ~CycleAbove(t, down)
      BY <2>1, <2>9, <2>10, <3>1, <3>2, <3>3 DEF CycleAbove
    <3>5. ASSUME ~o.found PROVE up \notin Ups(t, down)
      <4> DEFINE rest == o.done \ {up}
      <4>1. Closed(t, down, rest)
        BY <2>9, <3>1, <3>2, <3>5 DEF Closed
      <4>2. Ups(t, down) \subseteq rest
        <5> HIDE DEF rest
        <5> QED
          BY <4>1, UpsClosed, Zenon
      <4> QED
        BY <4>2
    <3> QED
      BY <2>1, <2>10, <3>4, <3>5
  <2>15. Judge(o) = IF o.cycle THEN Reply("F", "UpstreamCycle")
                    ELSE IF o.hop_overrun /\ ~o.found THEN Reply("F", "HopBoundExceeded")
                    ELSE Reply(IF o.found THEN "T" ELSE "F", "none")
    BY Zenon DEF Judge
  <2>16. CASE CutOff(t, down)
    <3>1. Honest(t, up, down, Judge(o))
      <4>1. CASE o.cycle
        BY <1>0, <2>12, <2>15, <4>1 DEF Honest
      <4>2. CASE ~o.cycle /\ o.found
        BY <1>0, <2>13, <2>15, <4>2 DEF Honest
      <4>3. CASE ~o.cycle /\ ~o.found /\ o.hop_overrun
        BY <1>0, <2>15, <4>3 DEF Honest
      <4>4. CASE ~o.cycle /\ ~o.found /\ ~o.hop_overrun
        BY <1>0, <2>14, <2>15, <4>4 DEF Honest
      <4> QED
        BY <2>11, <4>1, <4>2, <4>3, <4>4
    <3> QED
      BY <1>2, <2>2, <2>16, <3>1, Zenon DEF UpstreamAnswered
  <2>17. CASE ~CutOff(t, down)
    <3>1. ~o.hop_overrun
      BY <2>9, <2>17 DEF Sound
    <3>2. Judge(o) = UpstreamAnswer(t, up, down)
      <4>1. CASE o.cycle
        BY <1>2, <2>12, <2>15, <4>1 DEF UpstreamAnswer
      <4>2. CASE ~o.cycle /\ o.found
        BY <1>2, <2>13, <2>14, <2>15, <3>1, <4>2 DEF UpstreamAnswer
      <4>3. CASE ~o.cycle /\ ~o.found
        BY <1>2, <2>14, <2>15, <3>1, <4>3 DEF UpstreamAnswer
      <4> QED
        BY <2>11, <4>1, <4>2, <4>3
    <3> QED
      BY <2>2, <2>17, <3>2, Zenon DEF UpstreamAnswered
  <2> QED
    BY <2>16, <2>17
<1> QED
  BY <1>1, <1>2
-----------------------------------------------------------------------------
(* What the oracle is asked. *)

\* What a run knows of the last candidate asked about: the rule and the correlate are
\* of the accepted image, and the reply is eval_topo's over one of the networks.
AskedAt(i, k) ==
    /\ stage = "accepted" /\ i \in DOMAIN image /\ k \in DOMAIN image[i].corr
    /\ judged.net \in Networks /\ judged.bindings \in PartialBindings(image[i], k)
    /\ judged.candidate \in Nodes[image[i].corr[k].src]
    /\ judged.reply = eval_topo(judged.net, image[i], k, judged.bindings, judged.candidate)
OracleInv == judged # NotJudged /\ judged.part = "topo" => AskedAt(judged.rule, judged.k)

\* Every reply is that of eval_topo to a candidate of an accepted image (correlate).
LEMMA OracleAsked == Spec => []OracleInv
<1>1. Init => OracleInv
  BY DEF Init, OracleInv
<1>2. ASSUME OracleInv, [Next]_vars PROVE OracleInv'
  <2>1. CASE /\ UNCHANGED judged /\ (stage = "accepted" => UNCHANGED << stage, image >>)
    <3>1. ASSUME judged # NotJudged, judged.part = "topo" PROVE AskedAt(judged.rule, judged.k)'
      <4>1. AskedAt(judged.rule, judged.k)
        BY <1>2, <3>1 DEF OracleInv
      <4>2. UNCHANGED << judged, stage, image >>
        BY <2>1, <4>1 DEF AskedAt
      <4> QED
        BY <4>1, <4>2 DEF AskedAt
    <3> QED
      BY <2>1, <3>1 DEF OracleInv
  <2>2. ASSUME NEW m, NEW j, mistype(m, j) PROVE OracleInv'
    BY <2>1, <2>2 DEF mistype
  <2>3. CASE parse
    BY <2>1, <2>3 DEF parse
  <2>4. CASE format
    BY <2>1, <2>4 DEF format
  <2>5. CASE verify
    BY <2>1, <2>5 DEF verify
  <2>6. ASSUME NEW i, match_anchors(i) PROVE OracleInv'
    BY <2>6 DEF match_anchors, OracleInv, Judgement
  <2>7. ASSUME NEW i, run_rule(i) PROVE OracleInv'
    BY <2>7 DEF run_rule, OracleInv, Judgement, Ran
  <2>8. ASSUME NEW i \in DOMAIN image, NEW k \in DOMAIN image[i].corr, correlate(i, k) PROVE OracleInv'
    <3>1. /\ judged'.rule = i /\ judged'.k = k /\ stage' = "accepted" /\ image' = image
          /\ judged'.net \in Networks /\ judged'.bindings \in PartialBindings(image[i], k)
          /\ judged'.candidate \in Nodes[image[i].corr[k].src]
          /\ judged'.reply = eval_topo(judged'.net, image[i], k, judged'.bindings, judged'.candidate)
      BY <2>8 DEF correlate
    <3>2. AskedAt(judged.rule, judged.k)'
      BY <3>1 DEF AskedAt
    <3> QED
      BY <3>2 DEF OracleInv
  <2>9. CASE UNCHANGED vars
    BY <2>1, <2>9 DEF vars
  <2> QED
    BY <1>2, <2>2, <2>3, <2>4, <2>5, <2>6, <2>7, <2>8, <2>9, Zenon DEF Next
<1> QED
  BY <1>1, <1>2, PTL DEF Spec

\* A rule that binds each name once.
BindsOnce(r) ==
    \A i, j \in 0..Len(r.corr) : Binder(r, i).bind = Binder(r, j).bind => i = j
\* A field of a node as the source means it.
FieldMeant(node, kind, f) ==
    IF f = "target" THEN {node.target}
    ELSE {node.fields[s.idx] : s \in resolve_metric_path("event", kind, f)}

\* A path finds one schema at most.
LEMMA OneSchema ==
    ASSUME NEW src, NEW kind, NEW f, Fields(src, kind) \in Seq(Elems(Fields(src, kind)))
    PROVE  \A s, u \in resolve_metric_path(src, kind, f) : s = u
<1> DEFINE fs == Fields(src, kind)
           at == {i \in DOMAIN fs : fs[i].name = f /\ \A j \in 1..(i - 1) : fs[j].name # f}
<1>1. DOMAIN fs = 1..Len(fs) /\ Len(fs) \in Nat
  BY SeqOfElems, Zenon
<1>2. resolve_metric_path(src, kind, f) = {fs[i] : i \in at}
  BY Zenon DEF resolve_metric_path
<1> HIDE DEF fs
<1>3. ASSUME NEW i \in at, NEW j \in at PROVE i = j
  BY <1>1
<1> HIDE DEF at
<1> QED
  BY <1>2, <1>3

\* A path the topology phase accepted means the same scope to the engine
\* (resolve_scope_path_from_bound) on a node of its binding's source.
LEMMA ScopeFound ==
    ASSUME NEW e, NEW env, infer_target_scope_expr(e, env) # {}, NEW node,
           node.src = env[e.base.n].src, Listed(Fields("event", env[e.base.n].kind))
    PROVE  resolve_scope_path_from_bound(<< e.base.n, e.f >>, node, env[e.base.n].kind)
              = FieldMeant(node, env[e.base.n].kind, e.f)
<1> DEFINE path == << e.base.n, e.f >>
           kind == env[e.base.n].kind
           found == resolve_metric_path("event", kind, e.f)
<1>1. Len(path) = 2 /\ path[2] = e.f /\ e.k = "field" /\ e.base.k = "ident" /\ e.base.n \in DOMAIN env
  BY TopoPaths
<1> HIDE DEF path
<1>2. CASE e.f = "target"
  <2>1. resolve_scope_path_from_bound(path, node, kind) = {node.target}
    BY <1>1, <1>2 DEF resolve_scope_path_from_bound
  <2> QED
    BY <1>2, <2>1 DEF FieldMeant, path
<1>3. CASE e.f # "target"
  <2>1. env[e.base.n].src = "event"
    BY <1>1, <1>3 DEF infer_target_scope_expr
  <2>2. PathSchema(e, env) = found
    BY <1>1, <2>1 DEF PathSchema
  <2>3. infer_target_scope_expr(e, env) = {s.ty.s : s \in {s \in PathSchema(e, env) : s.ty.t = "ScopeId"}}
    BY <1>1, <2>1, Zenon DEF infer_target_scope_expr
  <2> HIDE DEF found
  <2>4. PICK s \in found : s.ty.t = "ScopeId"
    BY <2>2, <2>3
  <2>5. \A u \in found : u = s
    BY <2>4, OneSchema, Zenon DEF Listed, found
  <2>6. {u \in found : u.ty.t = "ScopeId"} = found
    BY <2>4, <2>5
  <2>7. resolve_scope_path_from_bound(path, node, kind) =
           {node.fields[u.idx] : u \in {u \in resolve_metric_path("event", kind, path[2]) : u.ty.t = "ScopeId"}}
    <3>1. ~(Len(path) = 1 \/ path[2] = "target") /\ ~(node.src # "event")
      BY <1>1, <1>3, <2>1
    <3> QED
      BY <3>1, Zenon DEF resolve_scope_path_from_bound
  <2>8. FieldMeant(node, kind, e.f) = {node.fields[u.idx] : u \in found}
    BY <1>3, Zenon DEF FieldMeant, found
  <2>9. resolve_scope_path_from_bound(path, node, kind) = {node.fields[u.idx] : u \in {u \in found : u.ty.t = "ScopeId"}}
    BY <1>1, <2>7, Zenon DEF found
  <2> QED
    BY <2>6, <2>8, <2>9 DEF path
<1> QED
  BY <1>2, <1>3
\* The argument of a topology clause the engine resolves is the scope the source
\* names, for the candidate and the bindings found so far (eval_topo).
LEMMA ArgMeant ==
    ASSUME NEW rs, Accepted(rs), NEW r \in Elems(rs.rules), NEW pii, NEW x, RuleLowersTo(r, pii, x),
           \A j \in DOMAIN r.corr : \E y : LowersTo(r.corr[j], r, y),
           BindsOnce(r), NEW k \in DOMAIN r.corr, NEW a \in DOMAIN r.corr[k].topo.args,
           judged.bindings \in PartialBindings(x, k), judged.candidate \in Nodes[x.corr[k].src]
    PROVE  ResolveArg(x, k, Only(x.corr[k].topo[2][a]), judged.bindings, judged.candidate)
              = ScopeMeant(r, k, r.corr[k].topo.args[a])
<1> DEFINE e == r.corr[k].topo.args[a]
           env == RuleEnv(r)
           n == e.base.n
           path == << n, e.f >>
           b == judged.bindings
           c == judged.candidate
           m == Len(r.corr)
<1>1. RuleShape(r) /\ DOMAIN r.corr = 1..m /\ m \in Nat
  BY Shapes, Zenon
<1>2. /\ x.src = r.anchor.src /\ x.on = r.anchor.kind /\ x.bind = r.anchor.bind
      /\ DOMAIN x.corr = 1..m /\ \A j \in 1..m : LowersTo(r.corr[j], r, x.corr[j])
  BY <1>1, CorrOf DEF RuleLowersTo
<1>3. \A j \in 1..m : x.corr[j].bind = r.corr[j].bind /\ x.corr[j].src = r.corr[j].src /\ x.corr[j].kind = r.corr[j].kind
  BY <1>2, Zenon DEF LowersTo
<1>4. r.corr[k] \in Elems(r.corr)
  BY DEF Elems
<1>5. infer_target_scope_expr(e, env) # {}
  <2>1. Listed(r.corr[k].topo.args) /\ TopoErrs(r.corr[k], env) = {}
    BY <1>1, <1>4, PhasesPassed, Zenon DEF RuleShape
  <2> QED
    BY <2>1, TopoAccepted, Zenon
<1>6. n \in DOMAIN env /\ metric_path_from_expr(e) = {path}
  BY <1>5, TopoPaths, Zenon
<1>7. Only(x.corr[k].topo[2][a]) = path
  <2> DEFINE args == r.corr[k].topo.args
             paths == [i \in DOMAIN args |-> metric_path_from_expr(args[i])]
  <2>1. LowersTo(r.corr[k], r, x.corr[k])
    BY <1>1, <1>2
  <2>2. x.corr[k].topo = << TOPO_FUNCTIONS[r.corr[k].topo.fn], paths >>
    BY <2>1, Zenon DEF LowersTo
  <2>3. paths[a] = metric_path_from_expr(e)
    BY Zenon
  <2> HIDE DEF paths, path, e
  <2>4. x.corr[k].topo[2][a] = {path}
    BY <1>6, <2>2, <2>3
  <2> QED
    BY <2>4 DEF Only
<1>8. PICK i \in 0..m : Binder(r, i).bind = n /\ env[n].src = Binder(r, i).src /\ env[n].kind = Binder(r, i).kind
  <2>1. PICK i : BoundAt(r, n, i)
    BY <1>1, <1>6, EnvEntry, Zenon
  <2>2. i \in 0..m /\ Binder(r, i).bind = n
    BY <2>1, Zenon DEF BoundAt
  <2>3. env[n] = [src |-> Binder(r, i).src, kind |-> Binder(r, i).kind, idx |-> i]
    BY <2>1, Zenon DEF BoundAt
  <2> HIDE DEF env, n, m
  <2> QED
    BY <2>2, <2>3
<1>9. \A j \in 0..m : Binder(r, j).bind = n => j = i
  BY <1>8, Zenon DEF BindsOnce
<1>10. \A node : node.src = env[n].src =>
          resolve_scope_path_from_bound(path, node, env[n].kind) = FieldMeant(node, env[n].kind, e.f)
  <2>1. Listed(Fields("event", env[n].kind))
    <3>1. Listed(<< >>)
      BY DEF Listed, Elems
    <3>2. ASSUME NEW kind
          PROVE  Fields("event", kind) = IF kind \in DOMAIN Events THEN Events[kind] ELSE << >>
      <4>1. Resolves("event", kind) <=> kind \in DOMAIN Events
        BY DEF Resolves
      <4>2. CASE Resolves("event", kind)
        BY <4>1, <4>2 DEF Fields
      <4>3. CASE ~Resolves("event", kind)
        BY <4>1, <4>3 DEF Fields
      <4> QED
        BY <4>2, <4>3
    <3> QED
      BY <3>1, <3>2, CatalogAssumption, Zenon
  <2> QED
    BY <1>5, <2>1, ScopeFound, Zenon
<1>11. path[1] = n
  OBVIOUS
<1>12. ResolveArg(x, k, path, b, c) =
          IF n = x.corr[k].bind THEN resolve_scope_path_from_bound(path, c, x.corr[k].kind)
          ELSE UNION {resolve_scope_path_from_bound(path, b[j], KindAt(x, j)) :
                        j \in {j \in binding_index_of(x, n) : j < k /\ b[j].st = "bound"}}
  <2> HIDE DEF path
  <2> QED
    BY <1>11, Zenon DEF ResolveArg
<1>13. \A node, kind : node.st = "bound" => << node, kind >>[1].st = "bound"
  OBVIOUS
<1>14. ScopeMeant(r, k, e) =
          LET found == NodeMeant(r, k, n)
          IN  IF found[1].st # "bound" THEN {} ELSE FieldMeant(found[1], found[2], e.f)
  BY DEF ScopeMeant, FieldMeant
<1>15. k \in 1..m /\ b[0] \in Nodes[r.anchor.src] /\ \A j \in 1..(k - 1) : b[j] \in Outcomes(r.corr[j].src)
  <2>1. b[0] \in Nodes[x.src] /\ \A j \in 1..(k - 1) : b[j] \in Outcomes(x.corr[j].src)
    BY DEF PartialBindings
  <2>2. k \in 1..m /\ \A j \in 1..(k - 1) : j \in 1..m
    BY <1>1
  <2> QED
    BY <1>2, <1>3, <2>1, <2>2
<1>16. \A src \in {"event", "cause", "problem"} : \A node \in Nodes[src] : node.st = "bound" /\ node.src = src
  BY NetworkAssumption, Zenon
<1>17. r.anchor.src \in {"event", "cause", "problem"} /\ \A j \in 1..m : r.corr[j].src \in {"event", "cause", "problem"}
  <2>1. \A j \in 1..m : r.corr[j] \in Elems(r.corr)
    BY <1>1 DEF Elems
  <2> QED
    BY <1>1, <2>1, Zenon DEF RuleShape
<1>18. c.st = "bound" /\ c.src = r.corr[k].src
  BY <1>3, <1>15, <1>16, <1>17
<1> HIDE DEF e, env, n, path, b, c, m
<1>19. CASE i = k
  <2>1. r.corr[k].bind = n /\ env[n].src = r.corr[k].src /\ env[n].kind = r.corr[k].kind
    <3>1. k # 0
      BY <1>15
    <3> QED
      BY <1>8, <1>19, <3>1 DEF Binder
  <2>2. ResolveArg(x, k, path, b, c) = FieldMeant(c, env[n].kind, e.f)
    <3>1. n = x.corr[k].bind /\ x.corr[k].kind = env[n].kind
      BY <1>3, <1>15, <2>1
    <3>2. resolve_scope_path_from_bound(path, c, env[n].kind) = FieldMeant(c, env[n].kind, e.f)
      BY <1>10, <1>18, <2>1
    <3> QED
      BY <1>12, <3>1, <3>2
  <2>3. NodeMeant(r, k, n) = << c, env[n].kind >>
    BY <2>1, Zenon DEF NodeMeant, c
  <2>4. ScopeMeant(r, k, e) = FieldMeant(c, env[n].kind, e.f)
    BY <1>14, <1>18, <2>3
  <2> QED
    BY <1>7, <2>2, <2>4 DEF b, c, e
<1>20. CASE i = 0
  <2>1. /\ r.anchor.bind = n /\ env[n].src = r.anchor.src /\ env[n].kind = r.anchor.kind
        /\ n # r.corr[k].bind
    <3>1. k # 0 /\ k \in 0..m
      BY <1>1, <1>15
    <3>2. Binder(r, k) = r.corr[k]
      BY <3>1 DEF Binder
    <3> QED
      BY <1>8, <1>9, <1>20, <3>1, <3>2 DEF Binder
  <2>2. b[0].st = "bound" /\ b[0].src = env[n].src
    BY <1>15, <1>16, <1>17, <2>1
  <2>3. ResolveArg(x, k, path, b, c) = FieldMeant(b[0], env[n].kind, e.f)
    <3>1. binding_index_of(x, n) = {0}
      BY <1>2, <2>1 DEF binding_index_of
    <3>2. {j \in {0} : j < k /\ b[j].st = "bound"} = {0}
      BY <1>15, <2>2
    <3>3. KindAt(x, 0) = env[n].kind
      BY <1>2, <2>1 DEF KindAt
    <3>4. n # x.corr[k].bind
      BY <1>3, <1>15, <2>1
    <3>5. ResolveArg(x, k, path, b, c) =
             UNION {resolve_scope_path_from_bound(path, b[j], KindAt(x, j)) : j \in {0}}
      BY <1>12, <3>1, <3>2, <3>4
    <3>6. ResolveArg(x, k, path, b, c) = resolve_scope_path_from_bound(path, b[0], KindAt(x, 0))
      BY <3>5
    <3> QED
      BY <1>10, <2>2, <3>3, <3>6
  <2>4. NodeMeant(r, k, n) = << b[0], env[n].kind >>
    BY <2>1, Zenon DEF NodeMeant, b
  <2>5. ScopeMeant(r, k, e) = FieldMeant(b[0], env[n].kind, e.f)
    BY <1>14, <2>2, <2>4
  <2> QED
    BY <1>7, <2>3, <2>5 DEF b, c, e
<1>21. CASE i # 0 /\ i # k
  <2>1. i \in 1..m
    BY <1>1, <1>21
  <2>2. /\ r.corr[i].bind = n /\ env[n].src = r.corr[i].src /\ env[n].kind = r.corr[i].kind
        /\ n # r.corr[k].bind /\ n # r.anchor.bind /\ \A j \in 1..m : r.corr[j].bind = n => j = i
    <3>1. 0 \in 0..m /\ \A j \in 1..m : j \in 0..m /\ j # 0
      BY <1>1
    <3>2. Binder(r, 0) = r.anchor /\ \A j \in 1..m : Binder(r, j) = r.corr[j]
      BY <3>1 DEF Binder
    <3> QED
      BY <1>8, <1>9, <1>15, <1>21, <2>1, <3>1, <3>2
  <2>3. binding_index_of(x, n) = {i}
    <3>1. \A j \in 1..(i - 1) : j \in 1..m /\ j # i
      BY <1>1, <2>1
    <3>2. \A j \in 1..(i - 1) : x.corr[j].bind # n
      BY <1>3, <2>2, <3>1
    <3>3. x.bind # n /\ x.corr[i].bind = n /\ \A j \in 1..m : x.corr[j].bind = n => j = i
      BY <1>2, <1>3, <2>1, <2>2
    <3>4. binding_index_of(x, n) = {j \in 1..m : x.corr[j].bind = n /\ \A l \in 1..(j - 1) : x.corr[l].bind # n}
      BY <1>2, <3>3, Zenon DEF binding_index_of
    <3> QED
      BY <2>1, <3>2, <3>3, <3>4
  <2>4. ResolveArg(x, k, path, b, c) =
           UNION {resolve_scope_path_from_bound(path, b[j], KindAt(x, j)) :
                    j \in {j \in {i} : j < k /\ b[j].st = "bound"}}
    <3>1. n # x.corr[k].bind
      BY <1>3, <1>15, <2>2
    <3> QED
      BY <1>12, <2>3, <3>1
  <2> DEFINE node == IF i < k THEN b[i] ELSE [st |-> "unknown"]
  <2>5. NodeMeant(r, k, n) = << node, env[n].kind >>
    <3> DEFINE at == CHOOSE j \in DOMAIN r.corr : r.corr[j].bind = n
    <3>1. at = i
      BY <1>1, <2>1, <2>2 DEF m
    <3>2. NodeMeant(r, k, n) = << IF at < k THEN b[at] ELSE [st |-> "unknown"], r.corr[at].kind >>
      BY <2>2, Zenon DEF NodeMeant, b
    <3> HIDE DEF at
    <3> QED
      BY <2>2, <3>1, <3>2
  <2>6. CASE i < k /\ b[i].st = "bound"
    <3>1. node = b[i]
      BY <2>6
    <3>2. b[i].src = env[n].src
      <4>1. i \in 1..(k - 1)
        BY <1>15, <2>1, <2>6
      <4>2. b[i] \in Outcomes(r.corr[i].src)
        BY <1>15, <4>1
      <4>3. b[i] \in Nodes[r.corr[i].src]
        BY <2>6, <4>2 DEF Outcomes
      <4> QED
        BY <1>16, <1>17, <2>1, <2>2, <4>3
    <3>3. {j \in {i} : j < k /\ b[j].st = "bound"} = {i}
      BY <2>6
    <3>4. KindAt(x, i) = env[n].kind
      BY <1>3, <1>21, <2>1, <2>2 DEF KindAt
    <3>5. ResolveArg(x, k, path, b, c) = resolve_scope_path_from_bound(path, b[i], KindAt(x, i))
      BY <2>4, <3>3
    <3>6. ResolveArg(x, k, path, b, c) = FieldMeant(b[i], env[n].kind, e.f)
      BY <1>10, <3>2, <3>4, <3>5
    <3> HIDE DEF node
    <3>7. ScopeMeant(r, k, e) = FieldMeant(b[i], env[n].kind, e.f)
      BY <1>14, <2>5, <2>6, <3>1
    <3> QED
      BY <1>7, <3>6, <3>7 DEF b, c, e
  <2>7. CASE ~(i < k /\ b[i].st = "bound")
    <3>1. {j \in {i} : j < k /\ b[j].st = "bound"} = {}
      BY <2>7
    <3>2. ResolveArg(x, k, path, b, c) = {}
      BY <2>4, <3>1
    <3>3. node.st # "bound"
      BY <2>7
    <3> HIDE DEF node
    <3>4. ScopeMeant(r, k, e) = {}
      BY <1>14, <2>5, <3>3
    <3> QED
      BY <1>7, <3>2, <3>4 DEF b, c, e
  <2> QED
    BY <2>6, <2>7
<1> QED
  BY <1>19, <1>20, <1>21
\* The index lowering stores for a function is the one the engine calls it by.
LEMMA FuncIndexed ==
    ASSUME NEW fn \in DOMAIN TOPO_FUNCTIONS
    PROVE  from_idx(TOPO_FUNCTIONS[fn]) = {fn} /\ (fn = "upstream_of" \/ fn \in SameRelations)
<1>1. fn \in {"same_session", "same_client", "same_port", "same_ap", "same_vlan", "upstream_of"}
  BY DEF TOPO_FUNCTIONS
<1>2. /\ TOPO_FUNCTIONS["same_session"] = 0 /\ TOPO_FUNCTIONS["same_client"] = 1
      /\ TOPO_FUNCTIONS["same_port"] = 2 /\ TOPO_FUNCTIONS["same_ap"] = 3
      /\ TOPO_FUNCTIONS["same_vlan"] = 4 /\ TOPO_FUNCTIONS["upstream_of"] = 5
  BY DEF TOPO_FUNCTIONS
<1>3. /\ DOMAIN TopoFunc = 1..6 /\ TopoFunc[1] = "same_session" /\ TopoFunc[2] = "same_client"
      /\ TopoFunc[3] = "same_port" /\ TopoFunc[4] = "same_ap" /\ TopoFunc[5] = "same_vlan"
      /\ TopoFunc[6] = "upstream_of"
  BY DEF TopoFunc
<1>4. \A j \in 0..5 : from_idx(j) = {TopoFunc[j + 1]}
  BY <1>3 DEF from_idx
<1>5. /\ from_idx(0) = {"same_session"} /\ from_idx(1) = {"same_client"} /\ from_idx(2) = {"same_port"}
      /\ from_idx(3) = {"same_ap"} /\ from_idx(4) = {"same_vlan"} /\ from_idx(5) = {"upstream_of"}
  <2>1. 0 + 1 = 1 /\ 1 + 1 = 2 /\ 2 + 1 = 3 /\ 3 + 1 = 4 /\ 4 + 1 = 5 /\ 5 + 1 = 6
    OBVIOUS
  <2>2. \A j \in {0, 1, 2, 3, 4, 5} : from_idx(j) = {TopoFunc[j + 1]}
    BY <1>4
  <2> QED
    BY <1>3, <2>1, <2>2
<1>6. from_idx(TOPO_FUNCTIONS[fn]) = {fn}
  BY <1>1, <1>2, <1>5
<1>7. fn = "upstream_of" \/ fn \in SameRelations
  BY <1>1 DEF SameRelations
<1> QED
  BY <1>6, <1>7

\* The oracle is asked what the source says, of names each bound once, and its answer
\* is right (eval_topo, query, upstream_of), whatever the network: Unknown only of what
\* it does not know, the documented answer with its diagnostic where no way up leaves
\* the hop bound, and where one does no wrong True and no silent False.
THEOREM OracleAnswers ==
    Spec => [](TextKeepsMeaning /\ BindsOnce(meant.rules[judged.rule]) => OracleExact)
<1>1. ASSUME FrontInv, OracleInv, TextKeepsMeaning, BindsOnce(meant.rules[judged.rule]) PROVE OracleExact
  <2> DEFINE i == judged.rule
             k == judged.k
             net == judged.net
             r == meant.rules[i]
             x == image[i]
             topo == r.corr[k].topo
             said == [n \in 1..TopoArity |-> ScopeMeant(r, k, topo.args[n])]
             a == Only(said[1])
             b == Only(said[2])
  <2> SUFFICES ASSUME judged # NotJudged, judged.part = "topo"
               PROVE  IF \E n \in 1..TopoArity : said[n] = {} THEN judged.reply = Reply("U", "none")
                      ELSE IF a # b /\ ~({a, b} \subseteq net.known) THEN judged.reply = Reply("U", "none")
                      ELSE IF topo.fn = "upstream_of" THEN UpstreamAnswered(net, a, b, judged.reply)
                      ELSE SameAnswer(net, topo.fn, a, b, judged.reply)
    BY Zenon DEF OracleExact
  <2>1. AskedAt(i, k)
    BY <1>1, Zenon DEF OracleInv
  <2>2. Accepted(meant) /\ image = verify_with_config(meant).image
    BY <1>1, <2>1, AcceptedMeant, Zenon DEF AskedAt
  <2>3. /\ i \in DOMAIN meant.rules
        /\ RuleLowersTo(r, phase12_privacy_annotations(meant), x)
        /\ \A j \in DOMAIN r.corr : \E y : LowersTo(r.corr[j], r, y)
    <3>1. i \in DOMAIN image
      BY <2>1, Zenon DEF AskedAt
    <3>2. DOMAIN image = DOMAIN meant.rules
      BY <2>2, RulesKept
    <3>3. i \in DOMAIN meant.rules
      BY <3>1, <3>2
    <3> QED
      BY <2>2, <3>3, RulesKept
  <2>4. r \in Elems(meant.rules)
    BY <2>3 DEF Elems
  <2>5. k \in DOMAIN r.corr /\ LowersTo(r.corr[k], r, x.corr[k])
    <3>1. DOMAIN x.corr = DOMAIN r.corr /\ \A j \in DOMAIN r.corr : LowersTo(r.corr[j], r, x.corr[j])
      BY <2>3, CorrOf, Zenon
    <3>2. k \in DOMAIN x.corr
      BY <2>1, Zenon DEF AskedAt
    <3> QED
      BY <3>1, <3>2
  <2>6. topo.fn \in DOMAIN TOPO_FUNCTIONS /\ DOMAIN topo.args = 1..2
    <3>1. r.corr[k] \in Elems(r.corr)
      BY <2>5 DEF Elems
    <3>2. Listed(r.corr[k].topo.args) /\ TopoErrs(r.corr[k], RuleEnv(r)) = {}
      <4>1. RuleShape(r)
        BY <2>2, <2>4, Shapes, Zenon
      <4> QED
        BY <2>2, <2>4, <3>1, <4>1, PhasesPassed, Zenon DEF RuleShape
    <3> QED
      BY <3>2, TopoAccepted DEF TopoArity
  <2> DEFINE asked == x.corr[k].topo
             args == [n \in DOMAIN asked[2] |-> ResolveArg(x, k, Only(asked[2][n]), judged.bindings, judged.candidate)]
  <2>7. asked[1] = TOPO_FUNCTIONS[topo.fn] /\ DOMAIN asked[2] = 1..2
    <3>1. asked = << TOPO_FUNCTIONS[topo.fn], [n \in DOMAIN topo.args |-> metric_path_from_expr(topo.args[n])] >>
      BY <2>5, Zenon DEF LowersTo
    <3> HIDE DEF asked, topo
    <3> QED
      BY <2>6, <3>1
  <2>8. judged.bindings \in PartialBindings(x, k) /\ judged.candidate \in Nodes[x.corr[k].src]
        /\ net \in Networks /\ judged.reply = eval_topo(net, x, k, judged.bindings, judged.candidate)
    BY <2>1, Zenon DEF AskedAt
  <2>9. \A n \in 1..2 : ResolveArg(x, k, Only(asked[2][n]), judged.bindings, judged.candidate)
                           = ScopeMeant(r, k, topo.args[n])
    <3> SUFFICES ASSUME NEW n \in 1..2
                 PROVE  ResolveArg(x, k, Only(asked[2][n]), judged.bindings, judged.candidate)
                           = ScopeMeant(r, k, topo.args[n])
      OBVIOUS
    <3>1. n \in DOMAIN r.corr[k].topo.args
      BY <2>6
    <3>2. BindsOnce(r)
      BY <1>1
    <3> HIDE DEF i, k, r, x
    <3> QED
      BY <2>2, <2>3, <2>4, <2>5, <2>8, <3>1, <3>2, ArgMeant, Zenon
  <2>10. args = said
    BY <2>7, <2>9 DEF TopoArity
  <2>11. DOMAIN said = 1..2 /\ Len(said) = 2 /\ TopoArity = 2
    BY DEF TopoArity
  <2>12. judged.reply =
            IF from_idx(asked[1]) = {} \/ Len(args) # TopoArity THEN Reply("U", "none")
            ELSE IF \E n \in DOMAIN args : args[n] = {} THEN Reply("U", "none")
            ELSE call(Only(from_idx(asked[1])), net, Only(args[1]), Only(args[2]))
    BY <2>8, Zenon DEF eval_topo
  <2>13. NetworkShape(net)
    BY <2>8, NetworkAssumption, Zenon
  <2>14. from_idx(asked[1]) = {topo.fn} /\ (topo.fn = "upstream_of" \/ topo.fn \in SameRelations)
    BY <2>6, <2>7, FuncIndexed
  <2> HIDE DEF args, said, asked, topo, net, i, k, r, x
  <2>15. Only(from_idx(asked[1])) = topo.fn
    BY <2>14 DEF Only
  <2>16. judged.reply = IF \E n \in 1..2 : said[n] = {} THEN Reply("U", "none")
                        ELSE call(topo.fn, net, a, b)
    BY <2>10, <2>11, <2>12, <2>14, <2>15
  <2> HIDE DEF a, b
  <2>17. CASE \E n \in 1..2 : said[n] = {}
    BY <2>11, <2>16, <2>17
  <2>18. CASE ~\E n \in 1..2 : said[n] = {}
    <3>1. judged.reply = call(topo.fn, net, a, b)
      BY <2>16, <2>18
    <3>2. CASE topo.fn = "upstream_of"
      <4>1. judged.reply = upstream_of(net, a, b)
        BY <3>1, <3>2 DEF call
      <4>2. CASE a # b /\ ~({a, b} \subseteq net.known)
        <5>1. judged.reply = Reply("U", "none")
          BY <4>1, <4>2, Zenon DEF upstream_of
        <5> QED
          BY <2>11, <2>18, <4>2, <5>1
      <4>3. CASE ~(a # b /\ ~({a, b} \subseteq net.known))
        <5>1. UpstreamAnswered(net, a, b, judged.reply)
          BY <2>13, <4>1, <4>3, UpstreamRight, Zenon
        <5> QED
          BY <2>11, <2>18, <3>2, <4>3, <5>1
      <4> QED
        BY <4>2, <4>3
    <3>3. CASE topo.fn # "upstream_of"
      <4>1. judged.reply = Reply(query(net, topo.fn, a, b), "none") /\ topo.fn \in SameRelations
        BY <2>14, <3>1, <3>3 DEF call
      <4>2. {a, b} \in net.relations[topo.fn] => {a, b} \subseteq net.known
        BY <2>13, <4>1, Zenon DEF NetworkShape
      <4>3. CASE a # b /\ ~({a, b} \subseteq net.known)
        <5>1. query(net, topo.fn, a, b) = "U"
          BY <4>2, <4>3, Zenon DEF query
        <5> QED
          BY <2>11, <2>18, <4>1, <4>3, <5>1
      <4>4. CASE ~(a # b /\ ~({a, b} \subseteq net.known))
        <5>1. query(net, topo.fn, a, b) = IF a = b \/ {a, b} \in net.relations[topo.fn] THEN "T" ELSE "F"
          BY <4>4, Zenon DEF query
        <5>2. SameAnswer(net, topo.fn, a, b, judged.reply)
          BY <4>1, <5>1, Zenon DEF SameAnswer
        <5> QED
          BY <2>11, <2>18, <3>3, <4>4, <5>2
      <4> QED
        BY <4>3, <4>4
    <3> QED
      BY <3>2, <3>3
  <2> QED
    BY <2>17, <2>18
<1> QED
  BY <1>1, FrontInvariant, OracleAsked, PTL
================================================================================
