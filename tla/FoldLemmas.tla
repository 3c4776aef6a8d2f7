----------------------------- MODULE FoldLemmas -----------------------------
(***************************************************************************)
(* Induction for the components whose state is what a sequence of records  *)
(* folds to.  The induction theorems of the library take the formula as an *)
(* operator; here it is a set, which a prover can instantiate: the numbers *)
(* or the sequences the formula holds of.  A fold is then the value of a   *)
(* function on the prefixes of a sequence, step by step.                   *)
(***************************************************************************)
EXTENDS Integers, SequencesExt, SequenceTheorems, FiniteSetTheorems, WellFoundedInduction, TLAPS

(* A set of numbers with zero and the successor of each is all of them:    *)
(* the least number outside has a predecessor inside.                      *)
LEMMA NatSetInduction ==
  ASSUME NEW T, T \subseteq Nat, 0 \in T, \A n \in T : n + 1 \in T
  PROVE  T = Nat
<1> DEFINE U == Nat \ T
           R == OpToRel(<, Nat)
<1>1. SUFFICES ASSUME U # {} PROVE FALSE
  OBVIOUS
<1>2. IsWellFoundedOn(R, Nat)
  BY NatLessThanWellFounded
<1>3. PICK x \in U : \A y \in U : ~ (<<y, x>> \in R)
  BY <1>1, <1>2, WFMin
<1>4. x \in Nat /\ x # 0
  OBVIOUS
<1>5. x - 1 \in Nat /\ x - 1 < x /\ (x - 1) + 1 = x
  BY <1>4
<1>6. x - 1 \in T
  BY <1>3, <1>4, <1>5 DEF OpToRel
<1> QED
  BY <1>3, <1>4, <1>5, <1>6

(* A set of sequences with the empty one and with every sequence one       *)
(* element longer is all of them.                                          *)
LEMMA SeqSetInduction ==
  ASSUME NEW S, NEW T, T \subseteq Seq(S), <<>> \in T,
         \A s \in T, e \in S : Append(s, e) \in T
  PROVE  T = Seq(S)
<1> DEFINE N == {n \in Nat : \A s \in Seq(S) : Len(s) = n => s \in T}
<1>1. 0 \in N
  <2> SUFFICES ASSUME NEW s \in Seq(S), Len(s) = 0 PROVE s \in T
    OBVIOUS
  <2> QED BY EmptySeq
<1>2. ASSUME NEW n \in N PROVE n + 1 \in N
  <2> SUFFICES ASSUME NEW s \in Seq(S), Len(s) = n + 1 PROVE s \in T
    OBVIOUS
  <2>1. s # <<>>
    BY EmptySeq
  <2>2. PICK t \in Seq(S), e \in S : s = Append(t, e)
    BY <2>1, SequenceEmptyOrAppend
  <2>3. Len(t) = n
    BY <2>2, AppendProperties, LenProperties
  <2> QED BY <2>2, <2>3
<1> HIDE DEF N
<1>3. N = Nat
  <2>1. N \subseteq Nat BY DEF N
  <2> QED BY <1>1, <1>2, <2>1, NatSetInduction
<1>4. ASSUME NEW s \in Seq(S) PROVE s \in T
  BY <1>3, LenProperties DEF N
<1> QED BY <1>4

-----------------------------------------------------------------------------
(* The function a fold evaluates: its value on the first n positions is    *)
(* the fold of the first n elements.                                       *)

LEMMA MaxIs ==
  ASSUME NEW S \in SUBSET Nat, NEW n \in S, \A i \in S : i <= n
  PROVE  Max(S) = n
<1> DEFINE m == Max(S)
<1>1. n >= n /\ \A y \in S : n >= y
  OBVIOUS
<1>2. m \in S /\ \A y \in S : m >= y
  BY <1>1 DEF Max
<1> HIDE DEF m
<1>3. m = n
  BY <1>1, <1>2
<1> QED BY <1>3 DEF m

LEMMA MaxIn ==
  ASSUME NEW N \in Nat, NEW s \in SUBSET (1..N), s # {}
  PROVE  Max(s) \in s
<1> DEFINE T == {n \in Nat : \A t \in SUBSET (1..n) : t # {} => Max(t) \in t}
<1>1. 0 \in T
  <2>1. \A t \in SUBSET (1..0) : t = {}
    OBVIOUS
  <2> QED BY <2>1
<1>2. ASSUME NEW n \in T PROVE n + 1 \in T
  <2> SUFFICES ASSUME NEW t \in SUBSET (1..(n + 1)), t # {} PROVE Max(t) \in t
    OBVIOUS
  <2>1. CASE n + 1 \in t
    BY <2>1, MaxIs
  <2>2. CASE n + 1 \notin t
    <3>1. t \in SUBSET (1..n)
      BY <2>2
    <3> QED BY <3>1
  <2> QED BY <2>1, <2>2
<1> HIDE DEF T
<1>3. T = Nat
  <2>1. T \subseteq Nat BY DEF T
  <2> QED BY <1>1, <1>2, <2>1, NatSetInduction
<1> QED BY <1>3 DEF T

(* The largest of the first n + 1 positions, and what is left without it.  *)
LEMMA MaxOfPositions ==
  ASSUME NEW n \in Nat
  PROVE  /\ Max(1..(n + 1)) = n + 1
         /\ (1..(n + 1)) \ {Max(1..(n + 1))} = 1..n
         /\ 1..(n + 1) # {}
<1>1. Max(1..(n + 1)) = n + 1
  BY MaxIs
<1> QED BY <1>1

FoldsTo(g, base, step, seq, N) ==
  g = [s \in SUBSET (1..N) |->
         IF s = {} THEN base ELSE step[<<g[s \ {Max(s)}], seq[Max(s)]>>]]

Folded(base, step, seq) ==
  (CHOOSE g : FoldsTo(g, base, step, seq, Len(seq)))[1..Len(seq)]

LEMMA FoldsExist ==
  ASSUME NEW base, NEW step, NEW seq, NEW N \in Nat
  PROVE  \E g : FoldsTo(g, base, step, seq, N)
<1> DEFINE T == {n \in Nat : \E g : FoldsTo(g, base, step, seq, n)}
<1>1. 0 \in T
  <2> DEFINE f == [s \in SUBSET (1..0) |-> base]
  <2>1. \A s \in SUBSET (1..0) : s = {}
    OBVIOUS
  <2>2. FoldsTo(f, base, step, seq, 0)
    BY <2>1 DEF FoldsTo
  <2> QED BY <2>2
<1>2. ASSUME NEW n \in T PROVE n + 1 \in T
  <2> USE DEF FoldsTo
  <2>1. PICK f : FoldsTo(f, base, step, seq, n)
    OBVIOUS
  <2> DEFINE g == [s \in SUBSET (1..(n + 1)) |->
                     IF n + 1 \in s THEN step[<<f[s \ {n + 1}], seq[n + 1]>>] ELSE f[s]]
  <2>2. ASSUME NEW s \in SUBSET (1..(n + 1)), s # {}
        PROVE  g[s] = step[<<g[s \ {Max(s)}], seq[Max(s)]>>]
    <3>1. CASE n + 1 \in s
      <4>1. Max(s) = n + 1
        BY <3>1, MaxIs
      <4>2. g[s] = step[<<f[s \ {n + 1}], seq[n + 1]>>]
        BY <3>1
      <4>3. s \ {n + 1} \in SUBSET (1..(n + 1)) /\ n + 1 \notin s \ {n + 1}
        OBVIOUS
      <4>4. g[s \ {n + 1}] = f[s \ {n + 1}]
        BY <4>3
      <4> QED BY <4>1, <4>2, <4>4
    <3>2. CASE n + 1 \notin s
      <4>1. s \in SUBSET (1..n)
        BY <3>2
      <4>2. s \ {Max(s)} \in SUBSET (1..(n + 1)) /\ n + 1 \notin s \ {Max(s)}
        BY <3>2
      <4>3. g[s] = f[s] /\ g[s \ {Max(s)}] = f[s \ {Max(s)}]
        BY <4>2, <3>2
      <4>4. f[s] = step[<<f[s \ {Max(s)}], seq[Max(s)]>>]
        BY <2>1, <2>2, <4>1
      <4> QED BY <4>3, <4>4
    <3> QED BY <3>1, <3>2
  <2>3. g[{}] = base
    <3>1. f[{}] = base
      BY <2>1
    <3> QED BY <3>1
  <2>4. FoldsTo(g, base, step, seq, n + 1)
    <3>1. \A s \in SUBSET (1..(n + 1)) :
            g[s] = IF s = {} THEN base ELSE step[<<g[s \ {Max(s)}], seq[Max(s)]>>]
      BY <2>2, <2>3
    <3>2. g = [s \in SUBSET (1..(n + 1)) |-> g[s]]
      OBVIOUS
    <3> HIDE DEF g
    <3> QED BY <3>1, <3>2
  <2> HIDE DEF g
  <2> QED BY <2>4
<1> HIDE DEF T
<1>3. T = Nat
  <2>1. T \subseteq Nat BY DEF T
  <2> QED BY <1>1, <1>2, <2>1, NatSetInduction
<1> QED BY <1>3 DEF T

(* Two such functions agree on a sequence the other one begins with.       *)
LEMMA FoldsAgree ==
  ASSUME NEW base, NEW step, NEW s, NEW t, NEW N \in Nat, NEW M \in Nat,
         NEW g, NEW h, FoldsTo(g, base, step, s, N), FoldsTo(h, base, step, t, M),
         N <= M, \A i \in 1..N : s[i] = t[i]
  PROVE  g[1..N] = h[1..N]
<1> DEFINE T == {m \in Nat : m <= N => g[1..m] = h[1..m]}
<1>1. 0 \in T
  <2>1. 1..0 = {} /\ g[{}] = base /\ h[{}] = base
    BY DEF FoldsTo
  <2> QED BY <2>1
<1>2. ASSUME NEW m \in T PROVE m + 1 \in T
  <2> SUFFICES ASSUME m + 1 <= N PROVE g[1..(m + 1)] = h[1..(m + 1)]
    OBVIOUS
  <2>1. g[1..m] = h[1..m] /\ s[m + 1] = t[m + 1]
    OBVIOUS
  <2> DEFINE P == 1..(m + 1)
  <2>2. P \in SUBSET (1..N) /\ P \in SUBSET (1..M)
    OBVIOUS
  <2>3. Max(P) = m + 1 /\ P \ {Max(P)} = 1..m /\ P # {}
    BY MaxOfPositions
  <2> HIDE DEF P
  <2>4. g[P] = step[<<g[1..m], s[m + 1]>>]
    BY <2>2, <2>3 DEF FoldsTo
  <2>5. h[P] = step[<<h[1..m], t[m + 1]>>]
    BY <2>2, <2>3 DEF FoldsTo
  <2> QED BY <2>1, <2>4, <2>5 DEF P
<1> HIDE DEF T
<1>3. T = Nat
  <2>1. T \subseteq Nat BY DEF T
  <2> QED BY <1>1, <1>2, <2>1, NatSetInduction
<1> QED BY <1>3 DEF T

LEMMA FoldedIs ==
  ASSUME NEW base, NEW step, NEW seq, Len(seq) \in Nat,
         NEW g, FoldsTo(g, base, step, seq, Len(seq))
  PROVE  Folded(base, step, seq) = g[1..Len(seq)]
<1> DEFINE h == CHOOSE h : FoldsTo(h, base, step, seq, Len(seq))
<1>1. FoldsTo(h, base, step, seq, Len(seq))
  BY FoldsExist
<1> HIDE DEF h
<1>2. g[1..Len(seq)] = h[1..Len(seq)]
  BY <1>1, FoldsAgree
<1> QED BY <1>2 DEF h, Folded

LEMMA FoldedEmpty ==
  ASSUME NEW base, NEW step
  PROVE  Folded(base, step, <<>>) = base
<1>1. PICK g : FoldsTo(g, base, step, <<>>, 0)
  BY FoldsExist
<1>2. Len(<<>>) = 0 /\ 1..0 = {}
  OBVIOUS
<1>3. g[{}] = base
  BY <1>1 DEF FoldsTo
<1> QED BY <1>1, <1>2, <1>3, FoldedIs

LEMMA FoldedAppend ==
  ASSUME NEW base, NEW step, NEW S, NEW seq \in Seq(S), NEW e \in S
  PROVE  Folded(base, step, Append(seq, e)) = step[<<Folded(base, step, seq), e>>]
<1> DEFINE n == Len(seq)
           t == Append(seq, e)
           P == 1..(n + 1)
<1>1. n \in Nat /\ Len(t) = n + 1 /\ t[n + 1] = e /\ \A i \in 1..n : t[i] = seq[i]
  BY LenProperties, AppendProperties
<1> HIDE DEF n, t
<1> DEFINE N == n + 1
<1>0. N \in Nat /\ n <= N
  BY <1>1
<1> HIDE DEF N
<1>2. PICK g : FoldsTo(g, base, step, seq, n)
  BY <1>1, FoldsExist
<1>3. PICK h : FoldsTo(h, base, step, t, N)
  BY <1>0, FoldsExist
<1>4. g[1..n] = h[1..n]
  <2>1. \A i \in 1..n : seq[i] = t[i]
    BY <1>1
  <2> QED BY <1>0, <1>1, <1>2, <1>3, <2>1, FoldsAgree
<1>5. Max(P) = n + 1 /\ P \ {Max(P)} = 1..n /\ P # {} /\ P \in SUBSET (1..(n + 1))
  BY <1>1, MaxOfPositions
<1> HIDE DEF P
<1>6. h[P] = step[<<h[1..n], t[n + 1]>>]
  BY <1>3, <1>5 DEF FoldsTo, N
<1>7. Folded(base, step, t) = h[P]
  BY <1>0, <1>1, <1>3, FoldedIs DEF P, N
<1>8. Folded(base, step, seq) = g[1..n]
  BY <1>1, <1>2, FoldedIs DEF n
<1> QED BY <1>1, <1>4, <1>6, <1>7, <1>8 DEF t

(* A fold stays in the set its base is in and its steps lead to.           *)
LEMMA FoldsTyped ==
  ASSUME NEW N \in Nat, NEW A, NEW g, g[{}] \in A,
         \A s \in SUBSET (1..N) : s # {} /\ g[s \ {Max(s)}] \in A => g[s] \in A
  PROVE  \A s \in SUBSET (1..N) : g[s] \in A
<1> DEFINE T == {n \in Nat : n <= N => \A s \in SUBSET (1..n) : g[s] \in A}
<1>1. 0 \in T
  <2>1. \A s \in SUBSET (1..0) : s = {}
    OBVIOUS
  <2> QED BY <2>1
<1>2. ASSUME NEW n \in T PROVE n + 1 \in T
  <2> SUFFICES ASSUME n + 1 <= N, NEW s \in SUBSET (1..(n + 1)) PROVE g[s] \in A
    OBVIOUS
  <2>0. n <= N /\ s \in SUBSET (1..N)
    OBVIOUS
  <2>1. CASE n + 1 \notin s
    <3>1. s \in SUBSET (1..n)
      BY <2>1
    <3> QED BY <2>0, <3>1
  <2>2. CASE n + 1 \in s
    <3>1. Max(s) = n + 1
      BY <2>2, MaxIs
    <3>2. s \ {Max(s)} \in SUBSET (1..n)
      BY <3>1
    <3>3. g[s \ {Max(s)}] \in A
      BY <2>0, <3>2
    <3> QED BY <2>0, <2>2, <3>3
  <2> QED BY <2>1, <2>2
<1> HIDE DEF T
<1>3. T = Nat
  <2>1. T \subseteq Nat BY DEF T
  <2> QED BY <1>1, <1>2, <2>1, NatSetInduction
<1>4. N \in T /\ N <= N
  BY <1>3
<1>5. N \in T => (N <= N => \A s \in SUBSET (1..N) : g[s] \in A)
  BY Zenon DEF T
<1> QED BY <1>4, <1>5, Zenon

(* The fold of a sequence over B by steps that stay in A, and the test     *)
(* that a function which satisfies a fold's equation on A is that fold.    *)
LEMMA FoldsToTyped ==
  ASSUME NEW A, NEW B, NEW base \in A, NEW step \in [A \X B -> A], NEW seq \in Seq(B),
         NEW g, FoldsTo(g, base, step, seq, Len(seq))
  PROVE  \A s \in SUBSET (1..Len(seq)) :
           /\ g[s] \in A
           /\ s # {} => Max(s) \in 1..Len(seq) /\ s \ {Max(s)} \in SUBSET (1..Len(seq))
<1> DEFINE N == Len(seq)
<1>1. N \in Nat /\ \A i \in 1..N : seq[i] \in B
  BY LenProperties, ElementOfSeq
<1>2. \A s \in SUBSET (1..N) : s # {} => Max(s) \in 1..N /\ s \ {Max(s)} \in SUBSET (1..N)
  BY <1>1, MaxIn
<1> HIDE DEF N
<1>3. g[{}] = base
  BY DEF FoldsTo
<1>4. ASSUME NEW s \in SUBSET (1..N), s # {}, g[s \ {Max(s)}] \in A
      PROVE  g[s] \in A
  <2>1. g[s] = step[<<g[s \ {Max(s)}], seq[Max(s)]>>]
    BY <1>4 DEF FoldsTo, N
  <2>2. seq[Max(s)] \in B
    BY <1>1, <1>2, <1>4
  <2> QED BY <1>4, <2>1, <2>2
<1>5. \A s \in SUBSET (1..N) : g[s] \in A
  <2>1. N \in Nat /\ g[{}] \in A
    BY <1>1, <1>3
  <2>2. \A s \in SUBSET (1..N) : s # {} /\ g[s \ {Max(s)}] \in A => g[s] \in A
    BY <1>4
  <2> QED BY <2>1, <2>2, FoldsTyped, ZenonT(60)
<1> QED BY <1>2, <1>5 DEF N

LEMMA FoldsToFrom ==
  ASSUME NEW A, NEW B, NEW base \in A, NEW step \in [A \X B -> A], NEW seq \in Seq(B),
         NEW g, g = [s \in SUBSET (1..Len(seq)) |-> g[s]], g[{}] = base,
         \A s \in SUBSET (1..Len(seq)) :
           s # {} /\ g[s \ {Max(s)}] \in A /\ seq[Max(s)] \in B
             => g[s] = step[<<g[s \ {Max(s)}], seq[Max(s)]>>]
  PROVE  FoldsTo(g, base, step, seq, Len(seq))
<1> DEFINE N == Len(seq)
<1>1. N \in Nat /\ \A i \in 1..N : seq[i] \in B
  BY LenProperties, ElementOfSeq
<1>2. \A s \in SUBSET (1..N) : s # {} => Max(s) \in 1..N /\ s \ {Max(s)} \in SUBSET (1..N)
  BY <1>1, MaxIn
<1>3. \A s \in SUBSET (1..N) :
        s # {} /\ g[s \ {Max(s)}] \in A => g[s] = step[<<g[s \ {Max(s)}], seq[Max(s)]>>]
  BY <1>1, <1>2
<1>0. g = [s \in SUBSET (1..N) |-> g[s]]
  OBVIOUS
<1> HIDE DEF N
<1>4. ASSUME NEW s \in SUBSET (1..N), s # {}, g[s \ {Max(s)}] \in A
      PROVE  g[s] \in A
  <2>1. g[s] = step[<<g[s \ {Max(s)}], seq[Max(s)]>>]
    BY <1>3, <1>4
  <2>2. seq[Max(s)] \in B
    BY <1>1, <1>2, <1>4
  <2> QED BY <1>4, <2>1, <2>2
<1>5. \A s \in SUBSET (1..N) : g[s] \in A
  BY <1>1, <1>4, FoldsTyped
<1>6. ASSUME NEW s \in SUBSET (1..N)
      PROVE  g[s] = IF s = {} THEN base ELSE step[<<g[s \ {Max(s)}], seq[Max(s)]>>]
  BY <1>2, <1>3, <1>5
<1> QED BY <1>0, <1>6 DEF FoldsTo, N

(* The fold of a sequence over B stays in A.                               *)
LEMMA FoldedTyped ==
  ASSUME NEW A, NEW B, NEW base \in A, NEW step \in [A \X B -> A], NEW seq \in Seq(B)
  PROVE  Folded(base, step, seq) \in A
<1>1. Len(seq) \in Nat
  BY LenProperties
<1>2. PICK g : FoldsTo(g, base, step, seq, Len(seq))
  BY <1>1, FoldsExist
<1>3. g[1..Len(seq)] \in A
  BY <1>2, FoldsToTyped
<1> QED BY <1>1, <1>2, <1>3, FoldedIs

-----------------------------------------------------------------------------
(* SetToSeq lists every element of a finite set once.                      *)
LEMMA SetToSeqLists ==
  ASSUME NEW S, IsFiniteSet(S)
  PROVE  /\ SetToSeq(S) \in Seq(S)
         /\ \A i, j \in DOMAIN SetToSeq(S) : SetToSeq(S)[i] = SetToSeq(S)[j] => i = j
         /\ \A x \in S : \E i \in DOMAIN SetToSeq(S) : SetToSeq(S)[i] = x
<1> DEFINE n == Cardinality(S)
           f == SetToSeq(S)
<1>1. n \in Nat /\ ExistsBijection(1..n, S)
  BY FS_CardinalityType
<1>2. \E b : b \in [1..n -> S] /\ IsInjective(b)
  BY <1>1 DEF ExistsBijection, Bijection, Injection, IsInjective
<1>3. f \in [1..n -> S] /\ IsInjective(f)
  BY <1>2 DEF SetToSeq
<1> HIDE DEF f
<1>4. f \in Seq(S)
  BY <1>1, <1>3, SeqDef
<1>5. f \in Injection(1..n, S)
  BY <1>3 DEF Injection, IsInjective
<1>6. IsFiniteSet(1..n) /\ Cardinality(1..n) = n
  BY <1>1, FS_Interval
<1>7. f \in Surjection(1..n, S)
  BY <1>5, <1>6, FS_Injection
<1> QED BY <1>3, <1>4, <1>7 DEF f, Surjection, IsInjective

-----------------------------------------------------------------------------
(* Sums over finite sets: the value MapThenSumSet has, and how it follows  *)
(* one element that comes, goes or changes.                                *)

(* The function the sum over a finite set evaluates on its subsets.        *)
SumsTo(g, a, S) ==
  g = [s \in SUBSET S |->
         IF s = {} THEN 0
         ELSE a[CHOOSE x \in s : TRUE] + g[s \ {CHOOSE x \in s : TRUE}]]

SetSum(a, S) == (CHOOSE g : SumsTo(g, a, S))[S]

(* Induction over the finite subsets of a set, by how many elements they have. *)
LEMMA SubsetInduction ==
  ASSUME NEW S, IsFiniteSet(S), NEW T, {} \in T,
         \A s \in SUBSET S : s # {} /\ (\A x \in s : s \ {x} \in T) => s \in T
  PROVE  SUBSET S \subseteq T
<1> DEFINE N == {n \in Nat : \A s \in SUBSET S : Cardinality(s) = n => s \in T}
<1>0. \A s \in SUBSET S : IsFiniteSet(s) /\ Cardinality(s) \in Nat
  BY FS_Subset, FS_CardinalityType
<1>1. 0 \in N
  BY <1>0, FS_EmptySet
<1>2. ASSUME NEW n \in N PROVE n + 1 \in N
  <2> SUFFICES ASSUME NEW s \in SUBSET S, Cardinality(s) = n + 1 PROVE s \in T
    OBVIOUS
  <2>1. s # {}
    BY FS_EmptySet
  <2>2. ASSUME NEW x \in s PROVE s \ {x} \in T
    <3>1. Cardinality(s \ {x}) = n
      BY <1>0, FS_RemoveElement
    <3> QED BY <3>1
  <2> QED BY <2>1, <2>2
<1> HIDE DEF N
<1>3. N = Nat
  <2>1. N \subseteq Nat BY DEF N
  <2> QED BY <1>1, <1>2, <2>1, NatSetInduction
<1> QED BY <1>0, <1>3 DEF N

(* What the function is at one subset.                                     *)
SumIs(g, a, s) ==
  g[s] = IF s = {} THEN 0
         ELSE a[CHOOSE x \in s : TRUE] + g[s \ {CHOOSE x \in s : TRUE}]

LEMMA SumsExist ==
  ASSUME NEW S, IsFiniteSet(S), NEW a
  PROVE  \E g : SumsTo(g, a, S)
<1> DEFINE At(s) == CHOOSE x \in s : TRUE
           Up(g, n) == \A s \in SUBSET S : Cardinality(s) <= n => SumIs(g, a, s)
           T == {n \in Nat : \E g : g = [s \in SUBSET S |-> g[s]] /\ Up(g, n)}
<1>0. \A s \in SUBSET S : IsFiniteSet(s) /\ Cardinality(s) \in Nat
  BY FS_Subset, FS_CardinalityType
<1>1. \A s \in SUBSET S : s # {} => At(s) \in s /\ s \ {At(s)} \in SUBSET S
                                   /\ Cardinality(s \ {At(s)}) = Cardinality(s) - 1
  BY <1>0, FS_RemoveElement
<1>2. 0 \in T
  <2> DEFINE g == [s \in SUBSET S |-> 0]
  <2>1. \A s \in SUBSET S : Cardinality(s) <= 0 => s = {}
    BY <1>0, FS_EmptySet
  <2>2. g = [s \in SUBSET S |-> g[s]] /\ Up(g, 0)
    BY <2>1 DEF SumIs
  <2> QED BY <2>2
<1>3. ASSUME NEW n \in T PROVE n + 1 \in T
  <2>1. PICK f : f = [s \in SUBSET S |-> f[s]] /\ Up(f, n)
    OBVIOUS
  <2> DEFINE g == [s \in SUBSET S |-> IF Cardinality(s) = n + 1
                                      THEN a[At(s)] + f[s \ {At(s)}] ELSE f[s]]
  <2> HIDE DEF T
  <2>2. ASSUME NEW s \in SUBSET S, Cardinality(s) <= n + 1 PROVE SumIs(g, a, s)
    <3>0. n \in Nat /\ Cardinality(s) \in Nat
      BY <1>0 DEF T
    <3>1. CASE Cardinality(s) = n + 1
      <4>1. s # {}
        BY <3>0, <3>1, FS_EmptySet
      <4>2. g[s \ {At(s)}] = f[s \ {At(s)}]
        BY <1>1, <3>0, <3>1, <4>1
      <4>3. g[s] = a[At(s)] + f[s \ {At(s)}]
        BY <3>1
      <4> HIDE DEF g
      <4> QED BY <4>1, <4>2, <4>3 DEF SumIs
    <3>2. CASE Cardinality(s) <= n
      <4>1. SumIs(f, a, s)
        BY <2>1, <3>2
      <4>3. g[s] = f[s]
        BY <3>0, <3>2
      <4>2. s # {} => g[s \ {At(s)}] = f[s \ {At(s)}]
        BY <1>1, <3>0, <3>2
      <4> HIDE DEF g
      <4> QED BY <4>1, <4>2, <4>3 DEF SumIs
    <3> QED BY <3>0, <2>2, <3>1, <3>2
  <2>3. g = [s \in SUBSET S |-> g[s]]
    OBVIOUS
  <2>4. Up(g, n + 1)
    BY <2>2
  <2>5. n + 1 \in Nat
    BY DEF T
  <2> HIDE DEF g, Up
  <2> QED BY <2>3, <2>4, <2>5 DEF T
<1>4. T = Nat
  <2>1. T \subseteq Nat BY DEF T
  <2> HIDE DEF T
  <2> QED BY <1>2, <1>3, <2>1, NatSetInduction
<1>5. PICK g : g = [s \in SUBSET S |-> g[s]] /\ Up(g, Cardinality(S))
  BY <1>0, <1>4
<1>6. \A s \in SUBSET S : SumIs(g, a, s)
  BY <1>0, <1>5, FS_Subset
<1>7. SumsTo(g, a, S)
  BY <1>5, <1>6 DEF SumsTo, SumIs
<1> QED BY <1>7

(* Two such functions agree where their addends do.                        *)
LEMMA SumsAgree ==
  ASSUME NEW S, NEW R, NEW a, NEW b, NEW g, NEW h, SumsTo(g, a, S), SumsTo(h, b, R),
         NEW C, C \subseteq S, C \subseteq R, IsFiniteSet(C), \A x \in C : a[x] = b[x]
  PROVE  g[C] = h[C]
<1> DEFINE T == {s \in SUBSET C : g[s] = h[s]}
<1>1. {} \in T
  BY DEF SumsTo
<1>2. ASSUME NEW s \in SUBSET C, s # {}, \A x \in s : s \ {x} \in T PROVE s \in T
  <2> DEFINE x == CHOOSE y \in s : TRUE
  <2>1. x \in s /\ x \in C
    BY <1>2
  <2>2. g[s \ {x}] = h[s \ {x}] /\ a[x] = b[x]
    BY <1>2, <2>1
  <2>3. s \in SUBSET S /\ s \in SUBSET R
    OBVIOUS
  <2>4. g[s] = a[x] + g[s \ {x}] /\ h[s] = b[x] + h[s \ {x}]
    BY <1>2, <2>3 DEF SumsTo
  <2> QED BY <2>2, <2>4
<1> HIDE DEF T
<1>3. SUBSET C \subseteq T
  BY <1>1, <1>2, SubsetInduction
<1> QED BY <1>3 DEF T

LEMMA SumsTyped ==
  ASSUME NEW S, IsFiniteSet(S), NEW a, NEW g, SumsTo(g, a, S), \A x \in S : a[x] \in Int
  PROVE  \A s \in SUBSET S : g[s] \in Int
<1> DEFINE T == {s \in SUBSET S : g[s] \in Int}
<1>1. {} \in T
  BY DEF SumsTo
<1>2. ASSUME NEW s \in SUBSET S, s # {}, \A x \in s : s \ {x} \in T PROVE s \in T
  <2> DEFINE x == CHOOSE y \in s : TRUE
  <2>1. x \in s /\ x \in S
    BY <1>2
  <2>2. g[s \ {x}] \in Int /\ a[x] \in Int
    BY <1>2, <2>1
  <2>3. g[s] = a[x] + g[s \ {x}]
    BY <1>2 DEF SumsTo
  <2> QED BY <2>2, <2>3
<1> HIDE DEF T
<1>3. SUBSET S \subseteq T
  BY <1>1, <1>2, SubsetInduction
<1> QED BY <1>3 DEF T

(* Whichever element is taken out first, the sum is the same.              *)
LEMMA SumsInAnyOrder ==
  ASSUME NEW S, IsFiniteSet(S), NEW a, NEW g, SumsTo(g, a, S), \A x \in S : a[x] \in Int
  PROVE  \A s \in SUBSET S : \A y \in s : g[s] = a[y] + g[s \ {y}]
<1> DEFINE T == {s \in SUBSET S : \A y \in s : g[s] = a[y] + g[s \ {y}]}
<1>0. \A s \in SUBSET S : g[s] \in Int
  BY SumsTyped
<1>1. {} \in T
  OBVIOUS
<1>2. ASSUME NEW s \in SUBSET S, s # {}, \A x \in s : s \ {x} \in T PROVE s \in T
  <2> SUFFICES ASSUME NEW y \in s PROVE g[s] = a[y] + g[s \ {y}]
    OBVIOUS
  <2> DEFINE x == CHOOSE z \in s : TRUE
  <2>1. x \in s
    BY <1>2
  <2>2. g[s] = a[x] + g[s \ {x}]
    BY <1>2 DEF SumsTo
  <2> HIDE DEF x
  <2>3. CASE x = y
    BY <2>2, <2>3
  <2>4. CASE x # y
    <3>1. g[s \ {x}] = a[y] + g[(s \ {x}) \ {y}]
      BY <1>2, <2>1, <2>4
    <3>2. g[s \ {y}] = a[x] + g[(s \ {y}) \ {x}]
      BY <1>2, <2>1, <2>4
    <3> DEFINE c == g[(s \ {x}) \ {y}]
    <3>3. (s \ {x}) \ {y} = (s \ {y}) \ {x}
      OBVIOUS
    <3>4. a[x] \in Int /\ a[y] \in Int /\ c \in Int
      BY <1>0, <2>1
    <3>5. g[s] = a[x] + (a[y] + c) /\ g[s \ {y}] = a[x] + c
      BY <2>2, <3>1, <3>2, <3>3
    <3> HIDE DEF c, T
    <3>6. a[x] + (a[y] + c) = a[y] + (a[x] + c)
      BY <3>4
    <3> QED BY <3>5, <3>6
  <2> QED BY <2>3, <2>4
<1> HIDE DEF T
<1>3. SUBSET S \subseteq T
  BY <1>1, <1>2, SubsetInduction
<1> QED BY <1>3 DEF T

-----------------------------------------------------------------------------
LEMMA SetSumIs ==
  ASSUME NEW S, IsFiniteSet(S), NEW a, NEW g, SumsTo(g, a, S)
  PROVE  SetSum(a, S) = g[S]
<1> DEFINE h == CHOOSE h : SumsTo(h, a, S)
<1>1. SumsTo(h, a, S)
  BY SumsExist
<1> HIDE DEF h
<1>2. h[S] = g[S]
  BY <1>1, SumsAgree
<1> QED BY <1>2 DEF h, SetSum

LEMMA SetSumEmpty ==
  ASSUME NEW a
  PROVE  SetSum(a, {}) = 0
<1>1. IsFiniteSet({})
  BY FS_EmptySet
<1>2. PICK g : SumsTo(g, a, {})
  BY <1>1, SumsExist
<1>3. g[{}] = 0
  BY <1>2 DEF SumsTo
<1> QED BY <1>1, <1>2, <1>3, SetSumIs

LEMMA SetSumType ==
  ASSUME NEW S, IsFiniteSet(S), NEW a, \A x \in S : a[x] \in Int
  PROVE  SetSum(a, S) \in Int
<1>1. PICK g : SumsTo(g, a, S)
  BY SumsExist
<1> QED BY <1>1, SetSumIs, SumsTyped

(* Equal addends have equal sums.                                          *)
LEMMA SetSumEqual ==
  ASSUME NEW S, IsFiniteSet(S), NEW a, NEW b, \A x \in S : a[x] = b[x]
  PROVE  SetSum(a, S) = SetSum(b, S)
<1>1. PICK g : SumsTo(g, a, S)
  BY SumsExist
<1>2. PICK h : SumsTo(h, b, S)
  BY SumsExist
<1> QED BY <1>1, <1>2, SetSumIs, SumsAgree

(* One element more adds its own.                                          *)
LEMMA SetSumAdd ==
  ASSUME NEW S, IsFiniteSet(S), NEW y, y \notin S, NEW a, NEW b,
         \A x \in S \cup {y} : a[x] \in Int, \A x \in S : a[x] = b[x]
  PROVE  SetSum(a, S \cup {y}) = a[y] + SetSum(b, S)
<1> DEFINE R == S \cup {y}
<1>1. IsFiniteSet(R)
  BY FS_AddElement
<1>2. PICK g : SumsTo(g, a, R)
  BY <1>1, SumsExist
<1>3. PICK h : SumsTo(h, b, S)
  BY SumsExist
<1>4. g[R] = a[y] + g[R \ {y}]
  BY <1>1, <1>2, SumsInAnyOrder
<1>5. R \ {y} = S
  OBVIOUS
<1>6. g[S] = h[S]
  BY <1>2, <1>3, SumsAgree
<1>7. SetSum(a, R) = g[R] /\ SetSum(b, S) = h[S]
  BY <1>1, <1>2, <1>3, SetSumIs
<1> QED BY <1>4, <1>5, <1>6, <1>7

=============================================================================
