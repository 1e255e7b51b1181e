----------------------------- MODULE FoldLemmas -----------------------------
(***************************************************************************)
(* What holds of the result of a fold: what its base has and each of its   *)
(* steps keeps.  A step may depend on a parameter k, and what it keeps on  *)
(* k and on a value c, such as the one the fold began with.                *)
(***************************************************************************)
EXTENDS Integers, Sequences, Folds, WellFoundedInduction, TLAPS

CONSTANTS Step(_, _, _),  \* Step(k, x, y): x after the element y
          Kept(_, _, _)   \* Kept(k, c, x): what is kept

(* The elements of seq folded into base: FoldLeft of SequencesExt, with Max *)
(* of FiniteSetsExt, written out, so that an instance of this module brings *)
(* no more than it needs.                                                   *)
Max(s) == CHOOSE x \in s : \A y \in s : x >= y
Fold(k, base, seq) ==
  MapThenFoldSet(LAMBDA x, y : Step(k, y, x), base, LAMBDA i : seq[i], LAMBDA s : Max(s), DOMAIN seq)

(* The function by which Fold is defined, up to position n.                 *)
Iterates(f, k, base, seq, n) ==
  f = [s \in SUBSET (1 .. n) |->
         IF s = {} THEN base ELSE Step(k, f[s \ {Max(s)}], seq[Max(s)])]

(* A set of natural numbers that is not empty has a least element.          *)
LEMMA LeastNatural ==
  ASSUME NEW T \in SUBSET Nat, T # {}
  PROVE  \E x \in T : \A y \in T : x <= y
<1>1. PICK x \in T : \A y \in T : ~ (<< y, x >> \in OpToRel(<, Nat))
  BY WFMin, NatLessThanWellFounded
<1>2. ASSUME NEW y \in T
      PROVE  x <= y
  <2>1. << y, x >> \notin OpToRel(<, Nat)
    BY <1>1
  <2>2. x \in Nat /\ y \in Nat
    OBVIOUS
  <2>3. ~(y < x)
    BY <2>1, <2>2 DEF OpToRel
  <2> QED
    BY <2>2, <2>3
<1> QED
  BY <1>2

LEMMA MaxOfPositions ==
  ASSUME NEW n \in Nat, NEW s \in SUBSET (1 .. n), s # {}
  PROVE  Max(s) \in s /\ \A y \in s : y <= Max(s)
<1> DEFINE T == {n - x : x \in s}
<1>1. T \in SUBSET Nat
  <2>1. \A x \in s : n - x \in Nat
    OBVIOUS
  <2> QED
    BY <2>1
<1>2. PICK m \in T : \A y \in T : m <= y
  <2>1. T # {}
    OBVIOUS
  <2> QED
    BY <1>1, <2>1, LeastNatural
<1>3. PICK x \in s : m = n - x
  OBVIOUS
<1>4. ASSUME NEW y \in s
      PROVE  y <= x
  <2>1. m <= n - y
    BY <1>2
  <2>2. x \in Nat /\ y \in Nat
    OBVIOUS
  <2> QED
    BY <2>1, <2>2, <1>3
<1>5. \E z \in s : \A y \in s : z >= y
  BY <1>4
<1> QED
  BY <1>5 DEF Max

(* Removing the last position leaves positions before it.                   *)
LEMMA WithoutLast ==
  ASSUME NEW n \in Nat, NEW s \in SUBSET (1 .. n + 1), s # {}
  PROVE  s \ {Max(s)} \in SUBSET (1 .. n)
<1>1. Max(s) \in s /\ \A y \in s : y <= Max(s)
  <2>1. n + 1 \in Nat
    OBVIOUS
  <2> QED
    BY <2>1, MaxOfPositions
<1>2. ASSUME NEW y \in s \ {Max(s)}
      PROVE  y \in 1 .. n
  <2>1. y <= Max(s) /\ y # Max(s) /\ Max(s) \in 1 .. n + 1 /\ y \in 1 .. n + 1
    BY <1>1
  <2> QED
    BY <2>1
<1> QED
  BY <1>2

LEMMA IterationExists ==
  ASSUME NEW k, NEW base, NEW seq, NEW N \in Nat
  PROVE  \E f : Iterates(f, k, base, seq, N)
<1> DEFINE Bad == {n \in Nat : ~ \E f : Iterates(f, k, base, seq, n)}
<1> SUFFICES ASSUME Bad # {}
             PROVE  FALSE
  OBVIOUS
<1>1. PICK n \in Bad : \A m \in Bad : n <= m
  BY LeastNatural
<1>2. CASE n = 0
  <2> DEFINE f == [s \in SUBSET (1 .. 0) |-> base]
  <2>1. \A s \in SUBSET (1 .. 0) : s = {}
    OBVIOUS
  <2>2. Iterates(f, k, base, seq, 0)
    BY <2>1 DEF Iterates
  <2> QED
    BY <2>2, <1>2
<1>3. CASE n # 0
  <2>1. n - 1 \in Nat /\ n - 1 + 1 = n /\ n - 1 \notin Bad
    BY <1>1, <1>3
  <2>2. PICK g : Iterates(g, k, base, seq, n - 1)
    BY <2>1
  <2> DEFINE f == [s \in SUBSET (1 .. n) |->
                     IF s = {} THEN base ELSE Step(k, g[s \ {Max(s)}], seq[Max(s)])]
  <2>3. \A s \in SUBSET (1 .. n - 1) : f[s] = g[s]
    <3> TAKE s \in SUBSET (1 .. n - 1)
    <3>1. s \in SUBSET (1 .. n)
      BY <2>1
    <3>2. g[s] = IF s = {} THEN base ELSE Step(k, g[s \ {Max(s)}], seq[Max(s)])
      BY <2>2 DEF Iterates
    <3> QED
      BY <3>1, <3>2
  <2>4. ASSUME NEW s \in SUBSET (1 .. n), s # {}
        PROVE  g[s \ {Max(s)}] = f[s \ {Max(s)}]
    <3>1. s \ {Max(s)} \in SUBSET (1 .. n - 1)
      BY <2>1, <2>4, WithoutLast
    <3> HIDE DEF f
    <3> QED
      BY <3>1, <2>3
  <2>5. \A s \in SUBSET (1 .. n) :
          f[s] = IF s = {} THEN base ELSE Step(k, f[s \ {Max(s)}], seq[Max(s)])
    <3> TAKE s \in SUBSET (1 .. n)
    <3>1. f[s] = IF s = {} THEN base ELSE Step(k, g[s \ {Max(s)}], seq[Max(s)])
      OBVIOUS
    <3> HIDE DEF f
    <3> QED
      BY <3>1, <2>4
  <2>6. f = [s \in SUBSET (1 .. n) |-> f[s]]
    OBVIOUS
  <2> HIDE DEF f
  <2>7. Iterates(f, k, base, seq, n)
    BY <2>5, <2>6 DEF Iterates
  <2> QED
    BY <2>7
<1> QED
  BY <1>2, <1>3

(* What the base has and a step keeps, the fold has.                        *)
LEMMA FoldKeeps ==
  \A k, c, S, base : \A seq \in Seq(S) :
    /\ Kept(k, c, base)
    /\ \A x : \A y \in S : Kept(k, c, x) => Kept(k, c, Step(k, x, y))
    => Kept(k, c, Fold(k, base, seq))
<1> TAKE k, c, S, base
<1> TAKE seq \in Seq(S)
<1> HAVE /\ Kept(k, c, base)
         /\ \A x : \A y \in S : Kept(k, c, x) => Kept(k, c, Step(k, x, y))
<1> DEFINE N == Len(seq)
           iter == CHOOSE f : Iterates(f, k, base, seq, N)
<1>1. N \in Nat /\ DOMAIN seq = 1 .. N
  OBVIOUS
<1>2. Fold(k, base, seq) = iter[1 .. N]
  BY <1>1, Zenon DEF Fold, MapThenFoldSet, Iterates
<1>3. Iterates(iter, k, base, seq, N)
  BY <1>1, IterationExists
<1> HIDE DEF iter
<1>4. \A s \in SUBSET (1 .. N) :
        iter[s] = IF s = {} THEN base ELSE Step(k, iter[s \ {Max(s)}], seq[Max(s)])
  BY <1>3 DEF Iterates
<1> DEFINE Bad == {n \in 0 .. N : \E s \in SUBSET (1 .. n) : ~ Kept(k, c, iter[s])}
<1>5. Bad = {}
  <2> SUFFICES ASSUME Bad # {}
               PROVE  FALSE
    OBVIOUS
  <2>1. Bad \in SUBSET Nat
    BY <1>1
  <2>2. PICK n \in Bad : \A m \in Bad : n <= m
    BY <2>1, LeastNatural
  <2>3. PICK s \in SUBSET (1 .. n) : ~ Kept(k, c, iter[s])
    OBVIOUS
  <2>4. s \in SUBSET (1 .. N) /\ n \in 0 .. N
    BY <1>1
  <2>5. s # {}
    BY <1>4, <2>3, <2>4
  <2>6. n # 0
    <3>1. CASE n = 0
      <4>1. SUBSET (1 .. n) = {{}}
        BY <3>1
      <4> QED
        BY <4>1, <2>3, <2>5
    <3> QED
      BY <3>1
  <2>7. n - 1 \in 0 .. N /\ n - 1 + 1 = n /\ n - 1 \in Nat
    BY <2>4, <2>6, <1>1
  <2>8. s \ {Max(s)} \in SUBSET (1 .. n - 1)
    BY <2>5, <2>7, WithoutLast
  <2>9. n - 1 \notin Bad
    <3>1. ~ (n <= n - 1)
      BY <2>4
    <3> HIDE DEF Bad
    <3> QED
      BY <2>2, <3>1
  <2>10. Kept(k, c, iter[s \ {Max(s)}])
    BY <2>7, <2>8, <2>9
  <2>11. seq[Max(s)] \in S
    <3>1. Max(s) \in s
      BY <1>1, <2>4, <2>5, MaxOfPositions
    <3>2. Max(s) \in 1 .. N
      BY <3>1, <2>4
    <3> QED
      BY <3>2
  <2>12. iter[s] = Step(k, iter[s \ {Max(s)}], seq[Max(s)])
    BY <1>4, <2>4, <2>5
  <2> QED
    BY <2>3, <2>10, <2>11, <2>12
<1>6. N \in 0 .. N /\ 1 .. N \in SUBSET (1 .. N)
  BY <1>1
<1>7. Kept(k, c, iter[1 .. N])
  BY <1>5, <1>6
<1> QED
  BY <1>2, <1>7
(* What is kept may depend on how far the fold has come: c says on what.    *)
LEMMA FoldReaches ==
  \A k, c, S, base : \A seq \in Seq(S) :
    /\ Kept(k, c[0], base)
    /\ \A x : \A i \in 1 .. Len(seq) : Kept(k, c[i - 1], x) => Kept(k, c[i], Step(k, x, seq[i]))
    => Kept(k, c[Len(seq)], Fold(k, base, seq))
<1> TAKE k, c, S, base
<1> TAKE seq \in Seq(S)
<1> HAVE /\ Kept(k, c[0], base)
         /\ \A x : \A i \in 1 .. Len(seq) : Kept(k, c[i - 1], x) => Kept(k, c[i], Step(k, x, seq[i]))
<1> DEFINE N == Len(seq)
           iter == CHOOSE f : Iterates(f, k, base, seq, N)
<1>1. N \in Nat /\ DOMAIN seq = 1 .. N
  OBVIOUS
<1>2. Fold(k, base, seq) = iter[1 .. N]
  BY <1>1, Zenon DEF Fold, MapThenFoldSet, Iterates
<1>3. Iterates(iter, k, base, seq, N)
  BY <1>1, IterationExists
<1> HIDE DEF iter
<1>4. \A s \in SUBSET (1 .. N) :
        iter[s] = IF s = {} THEN base ELSE Step(k, iter[s \ {Max(s)}], seq[Max(s)])
  BY <1>3 DEF Iterates
<1> DEFINE Bad == {n \in 0 .. N : ~ Kept(k, c[n], iter[1 .. n])}
<1>5. Bad = {}
  <2> SUFFICES ASSUME Bad # {}
               PROVE  FALSE
    OBVIOUS
  <2>1. Bad \in SUBSET Nat
    BY <1>1
  <2>2. PICK n \in Bad : \A m \in Bad : n <= m
    BY <2>1, LeastNatural
  <2>3. n \in 0 .. N /\ ~ Kept(k, c[n], iter[1 .. n]) /\ 1 .. n \in SUBSET (1 .. N)
    BY <1>1
  <2>4. n # 0
    <3>1. CASE n = 0
      <4>1. 1 .. n = {}
        BY <3>1
      <4>2. iter[1 .. n] = base
        BY <1>4, <2>3, <4>1
      <4> QED
        BY <3>1, <4>2, <2>3
    <3> QED
      BY <3>1
  <2>5. n \in 1 .. N /\ n - 1 \in 0 .. N /\ n \in Nat
    BY <1>1, <2>3, <2>4
  <2>6. n - 1 \notin Bad
    <3>1. ~ (n <= n - 1)
      BY <2>5
    <3> HIDE DEF Bad
    <3> QED
      BY <2>2, <3>1
  <2>7. Kept(k, c[n - 1], iter[1 .. n - 1])
    BY <2>5, <2>6
  <2>8. Max(1 .. n) = n
    <3>1. Max(1 .. n) \in 1 .. n /\ \A y \in 1 .. n : y <= Max(1 .. n)
      <4> HIDE DEF Bad
      <4>1. n \in 1 .. n
        BY <2>5
      <4>2. 1 .. n # {} /\ 1 .. n \in SUBSET (1 .. n)
        BY <4>1
      <4> QED
        BY <2>5, <4>2, MaxOfPositions
    <3> HIDE DEF Bad
    <3>2. n \in 1 .. n
      BY <2>5
    <3>3. n <= Max(1 .. n)
      BY <3>1, <3>2
    <3> QED
      BY <2>5, <3>1, <3>3
  <2>9. (1 .. n) \ {n} = 1 .. n - 1 /\ 1 .. n # {}
    <3> HIDE DEF Bad
    <3>1. n \in 1 .. n
      BY <2>5
    <3>2. \A y : y \in 1 .. n - 1 <=> y \in 1 .. n /\ y # n
      BY <2>5
    <3> QED
      BY <3>1, <3>2
  <2>10. iter[1 .. n] = Step(k, iter[1 .. n - 1], seq[n])
    BY <1>4, <2>3, <2>8, <2>9
  <2> QED
    BY <2>3, <2>5, <2>7, <2>10
<1>6. Kept(k, c[N], iter[1 .. N])
  BY <1>1, <1>5
<1> QED
  BY <1>2, <1>6
=============================================================================
