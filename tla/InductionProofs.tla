--------------------------- MODULE InductionProofs ---------------------------
(***************************************************************************)
(* Induction and recursion over data, as facts about sets and functions: a  *)
(* set of naturals that is closed under successor is all of them, a set of  *)
(* subsets that is closed under one more element is all of them.  From the  *)
(* first follows that the recursive functions the folds of the community    *)
(* modules choose exist, and what they are.                                 *)
(***************************************************************************)
EXTENDS FiniteSetTheorems, TLAPS

-----------------------------------------------------------------------------
(* Induction, as facts about sets.                                          *)

LEMMA LeastNatural ==
  ASSUME NEW T \in SUBSET Nat, T # {}
  PROVE  \E m \in T : \A k \in T : m <= k
<1>1. \A k, m \in Nat : <<k, m>> \in OpToRel(<, Nat) <=> k < m
  BY DEF OpToRel
<1>2. PICK m \in T : \A k \in T : ~(<<k, m>> \in OpToRel(<, Nat))
  BY NatLessThanWellFounded, WFMin
<1>3. ASSUME NEW k \in T PROVE m <= k
  <2>1. k \in Nat /\ m \in Nat
    OBVIOUS
  <2>2. ~(<<k, m>> \in OpToRel(<, Nat))
    BY <1>2
  <2>3. ~(k < m)
    BY <1>1, <2>1, <2>2
  <2> QED BY <2>1, <2>3
<1> QED BY <1>3

LEMMA NaturalsBySteps ==
  ASSUME NEW T \in SUBSET Nat, 0 \in T, \A n \in Nat : n \in T => n + 1 \in T
  PROVE  T = Nat
<1> SUFFICES ASSUME T # Nat PROVE FALSE
  OBVIOUS
<1>1. PICK m \in Nat \ T : \A k \in Nat \ T : m <= k
  BY LeastNatural
<1>2. m # 0 /\ m - 1 \in Nat /\ m = (m - 1) + 1
  BY <1>1
<1>3. m - 1 \in T
  BY <1>1, <1>2
<1> QED BY <1>1, <1>2, <1>3

\* A property of sets that the empty one has and that survives every further
\* element is one of all finite sets.
LEMMA FiniteByElements ==
  ASSUME NEW S, IsFiniteSet(S), NEW P \in SUBSET SUBSET S, {} \in P,
         \A U \in P : \A x \in S \ U : U \cup {x} \in P
  PROVE  P = SUBSET S
<1> DEFINE T == {n \in Nat : \A U \in SUBSET S : Cardinality(U) = n => U \in P}
<1>1. 0 \in T
  <2>1. \A U \in SUBSET S : Cardinality(U) = 0 => U = {}
    BY FS_EmptySet, FS_Subset
  <2> QED BY <2>1
<1>2. \A n \in Nat : n \in T => n + 1 \in T
  <2> SUFFICES ASSUME NEW n \in T, NEW U \in SUBSET S, Cardinality(U) = n + 1
               PROVE  U \in P
    OBVIOUS
  <2>1. U # {}
    <3>1. n + 1 # 0
      OBVIOUS
    <3>2. Cardinality({}) = 0
      BY FS_EmptySet
    <3> QED BY <3>1, <3>2
  <2>2. PICK x \in U : TRUE
    BY <2>1
  <2>3. IsFiniteSet(U)
    BY FS_Subset
  <2>4. Cardinality(U \ {x}) = n
    <3>1. Cardinality(U \ {x}) = Cardinality(U) - 1
      BY <2>2, <2>3, FS_RemoveElement
    <3> QED BY <3>1
  <2>5. U \ {x} \in P
    BY <2>4
  <2>6. U = (U \ {x}) \cup {x}
    BY <2>2
  <2> QED BY <2>2, <2>5, <2>6
<1>3. T = Nat
  <2> HIDE DEF T
  <2>1. T \in SUBSET Nat
    BY DEF T
  <2> QED BY <1>1, <1>2, <2>1, NaturalsBySteps
<1>4. \A U \in SUBSET S : Cardinality(U) \in Nat
  BY FS_Subset, FS_CardinalityType
<1> QED BY <1>3, <1>4

-----------------------------------------------------------------------------
(* Recursion over an initial segment, and over the subsets of a finite set.  *)
(* A step is a function of where it is taken and of the value so far.        *)

IsStep(step, n, V) == step \in [(1 .. n) \X V -> V]

Iteration(h, n, V, base, step) ==
  /\ h \in [0 .. n -> V] /\ h[0] = base
  /\ \A i \in 1 .. n : h[i] = step[<<i, h[i - 1]>>]

LEMMA IterationExists ==
  ASSUME NEW n \in Nat, NEW V, NEW base \in V, NEW step, IsStep(step, n, V)
  PROVE  \E h : Iteration(h, n, V, base, step)
<1> DEFINE Upto(m) == \E h \in [0 .. m -> V] :
            /\ h[0] = base
            /\ \A i \in 1 .. m : h[i] = step[<<i, h[i - 1]>>]
<1> DEFINE T == {m \in Nat : m <= n => Upto(m)}
<1>1. 0 \in T
  <2> DEFINE h == [i \in 0 .. 0 |-> base]
  <2>1. h \in [0 .. 0 -> V] /\ h[0] = base /\ 1 .. 0 = {}
    OBVIOUS
  <2> HIDE DEF h
  <2>2. \A i \in 1 .. 0 : h[i] = step[<<i, h[i - 1]>>]
    BY <2>1
  <2>3. Upto(0)
    BY <2>1, <2>2
  <2> QED BY <2>3
<1>2. ASSUME NEW m \in Nat, m \in T PROVE m + 1 \in T
  <2>0. m <= n => Upto(m)
    BY <1>2
  <2> SUFFICES ASSUME m + 1 <= n PROVE Upto(m + 1)
    OBVIOUS
  <2>1. PICK h \in [0 .. m -> V] :
            /\ h[0] = base
            /\ \A i \in 1 .. m : h[i] = step[<<i, h[i - 1]>>]
    <3>1. m <= n
      OBVIOUS
    <3> QED BY <2>0, <3>1
  <2> DEFINE g == [i \in 0 .. m + 1 |-> IF i = m + 1 THEN step[<<i, h[m]>>] ELSE h[i]]
  <2>2. h[m] \in V /\ m + 1 \in 1 .. n
    BY <2>1
  <2>3. step[<<m + 1, h[m]>>] \in V
    BY <2>2 DEF IsStep
  <2>4. g \in [0 .. m + 1 -> V]
    BY <2>1, <2>3
  <2>5. g[0] = base /\ g[m + 1] = step[<<m + 1, h[m]>>] /\ \A i \in 0 .. m : g[i] = h[i]
    BY <2>1
  <2> HIDE DEF g
  <2>6. ASSUME NEW i \in 1 .. m + 1 PROVE g[i] = step[<<i, g[i - 1]>>]
    <3>1. CASE i = m + 1
      <4>1. g[m] = h[m] /\ (m + 1) - 1 = m
        BY <2>5
      <4> QED BY <2>5, <3>1, <4>1
    <3>2. CASE i # m + 1
      BY <2>1, <2>5, <3>2
    <3> QED BY <3>1, <3>2
  <2> QED BY <2>4, <2>5, <2>6
<1>3. T = Nat
  <2> HIDE DEF T
  <2>1. T \in SUBSET Nat
    BY DEF T
  <2> QED BY <1>1, <1>2, <2>1, NaturalsBySteps
<1>4. n \in T
  BY <1>3
<1>5. Upto(n)
  BY <1>4
<1> QED BY <1>5 DEF Iteration

\* FoldFunction's way through a set.
Pick(T) == CHOOSE x \in T : TRUE

IsFold(h, S, step) ==
  \A T \in SUBSET S : T # {} => h[T] = step[<<Pick(T), h[T \ {Pick(T)}]>>]

FoldIn(h, S, V, step) == h \in [SUBSET S -> V] /\ IsFold(h, S, step)

Folded(value, T, V, base, step) ==
  \E h \in [SUBSET T -> V] : h[{}] = base /\ IsFold(h, T, step) /\ value = h[T]

AllFolded(total, S, V, base, step) ==
  \A T \in SUBSET S : Folded(total[T], T, V, base, step)

\* Any element may be the last.
AnyOrder(total, S, V, base, step) ==
  /\ total[{}] = base
  /\ \A T \in SUBSET S : total[T] \in V
  /\ \A T \in SUBSET S : \A x \in T : total[T] = step[<<x, total[T \ {x}]>>]

\* The order of two steps does not matter.
Commutes(step, S, V) ==
  \A x, y \in S : \A v \in V : step[<<x, step[<<y, v>>]>>] = step[<<y, step[<<x, v>>]>>]

LEMMA FoldExists ==
  ASSUME NEW S, IsFiniteSet(S), NEW V, NEW base \in V, NEW step \in [S \X V -> V]
  PROVE  \E h \in [SUBSET S -> V] : h[{}] = base /\ IsFold(h, S, step)
<1>1. \A T \in SUBSET S : T # {} => Pick(T) \in T
  BY DEF Pick
<1> DEFINE FoldsUpto(h, n) ==
      /\ h \in [SUBSET S -> V] /\ h[{}] = base
      /\ \A T \in SUBSET S : T # {} /\ Cardinality(T) <= n
            => h[T] = step[<<Pick(T), h[T \ {Pick(T)}]>>]
<1> DEFINE N == {n \in Nat : \E h : FoldsUpto(h, n)}
<1>2. 0 \in N
  <2>1. FoldsUpto([T \in SUBSET S |-> base], 0)
    <3>1. \A T \in SUBSET S : T # {} => ~(Cardinality(T) <= 0)
      BY FS_Subset, FS_EmptySet, FS_CardinalityType
    <3> QED BY <3>1
  <2> QED BY <2>1
<1>3. ASSUME NEW n \in Nat, n \in N PROVE n + 1 \in N
  <2>0. PICK f : FoldsUpto(f, n)
    BY <1>3
  <2> HIDE DEF FoldsUpto
  <2> SUFFICES \E g : FoldsUpto(g, n + 1)
    OBVIOUS
  <2> DEFINE h == f
  <2>1. FoldsUpto(h, n)
    BY <2>0
  <2> HIDE DEF h
  <2> USE DEF FoldsUpto
  <2> DEFINE g == [T \in SUBSET S |-> IF T = {} THEN base
                                      ELSE step[<<Pick(T), h[T \ {Pick(T)}]>>]]
  <2>2. \A T \in SUBSET S : T # {} => step[<<Pick(T), h[T \ {Pick(T)}]>>] \in V
    BY <1>1, <2>1
  <2>3. g \in [SUBSET S -> V]
    BY <2>2
  <2>4. ASSUME NEW T \in SUBSET S, Cardinality(T) <= n PROVE g[T] = h[T]
    BY <2>1, <2>4
  <2>5. ASSUME NEW T \in SUBSET S, T # {}, Cardinality(T) <= n + 1
        PROVE  g[T] = step[<<Pick(T), g[T \ {Pick(T)}]>>]
    <3>1. IsFiniteSet(T) /\ Pick(T) \in T /\ Cardinality(T) \in Nat
      BY <1>1, <2>5, FS_Subset, FS_CardinalityType
    <3>2. Cardinality(T \ {Pick(T)}) = Cardinality(T) - 1
      <4> DEFINE x == Pick(T)
      <4>1. x \in T /\ IsFiniteSet(T)
        BY <3>1
      <4> HIDE DEF x
      <4>2. Cardinality(T \ {x}) = Cardinality(T) - 1
        BY <4>1, FS_RemoveElement
      <4> QED BY <4>2 DEF x
    <3>3. Cardinality(T \ {Pick(T)}) <= n
      BY <2>5, <3>1, <3>2
    <3>4. g[T \ {Pick(T)}] = h[T \ {Pick(T)}]
      BY <2>4, <3>3
    <3> QED BY <2>5, <3>4
  <2>6. g[{}] = base
    OBVIOUS
  <2> HIDE DEF g
  <2>7. FoldsUpto(g, n + 1)
    BY <2>3, <2>5, <2>6
  <2> QED BY <2>7
<1>4. N = Nat
  <2> HIDE DEF N
  <2>1. N \in SUBSET Nat
    BY DEF N
  <2> QED BY <1>2, <1>3, <2>1, NaturalsBySteps
<1>5. Cardinality(S) \in Nat
  BY FS_CardinalityType
<1>6. PICK h : FoldsUpto(h, Cardinality(S))
  BY <1>4, <1>5
<1>7. \A T \in SUBSET S : Cardinality(T) <= Cardinality(S)
  BY FS_Subset
<1> QED BY <1>6, <1>7 DEF IsFold

\* If the order of two steps does not matter, any element may be the last.
LEMMA FoldInAnyOrder ==
  ASSUME NEW S, IsFiniteSet(S), NEW V, NEW step, Commutes(step, S, V),
         NEW h, FoldIn(h, S, V, step)
  PROVE  \A T \in SUBSET S : \A x \in T : h[T] = step[<<x, h[T \ {x}]>>]
<1> DEFINE Any(T) == \A x \in T : h[T] = step[<<x, h[T \ {x}]>>]
<1> DEFINE N == {n \in Nat : \A T \in SUBSET S : Cardinality(T) = n => Any(T)}
<1>1. 0 \in N
  <2>1. \A T \in SUBSET S : Cardinality(T) = 0 => T = {}
    BY FS_EmptySet, FS_Subset
  <2> QED BY <2>1
<1>2. ASSUME NEW n \in Nat, n \in N PROVE n + 1 \in N
  <2>0. \A U \in SUBSET S : Cardinality(U) = n => Any(U)
    BY <1>2
  <2> SUFFICES ASSUME NEW T \in SUBSET S, Cardinality(T) = n + 1, NEW x \in T
               PROVE  h[T] = step[<<x, h[T \ {x}]>>]
    OBVIOUS
  <2> DEFINE y == Pick(T)
  <2>1. y \in T /\ h[T] = step[<<y, h[T \ {y}]>>]
    BY DEF Pick, IsFold, FoldIn
  <2> HIDE DEF y
  <2>2. ASSUME NEW z \in T PROVE Cardinality(T \ {z}) = n
    <3>1. IsFiniteSet(T)
      BY FS_Subset
    <3>2. Cardinality(T \ {z}) = Cardinality(T) - 1
      BY <3>1, FS_RemoveElement
    <3> QED BY <3>2
  <2>3. CASE x = y
    BY <2>1, <2>3
  <2>4. CASE x # y
    <3>1. Any(T \ {y}) /\ Any(T \ {x})
      <4>1. T \ {y} \in SUBSET S /\ T \ {x} \in SUBSET S
        OBVIOUS
      <4>2. Cardinality(T \ {y}) = n /\ Cardinality(T \ {x}) = n
        BY <2>1, <2>2
      <4> HIDE DEF Any
      <4> QED BY <2>0, <4>1, <4>2
    <3> DEFINE rest == T \ {x, y}
    <3>2. (T \ {y}) \ {x} = rest /\ (T \ {x}) \ {y} = rest
      OBVIOUS
    <3>3. h[T \ {y}] = step[<<x, h[rest]>>] /\ h[T \ {x}] = step[<<y, h[rest]>>]
      <4>1. x \in T \ {y} /\ y \in T \ {x}
        BY <2>1, <2>4
      <4>2. /\ h[T \ {y}] = step[<<x, h[(T \ {y}) \ {x}]>>]
            /\ h[T \ {x}] = step[<<y, h[(T \ {x}) \ {y}]>>]
        BY <3>1, <4>1
      <4> HIDE DEF rest
      <4> QED BY <3>2, <4>2
    <3>4. h[rest] \in V /\ x \in S /\ y \in S
      BY <2>1 DEF FoldIn
    <3> HIDE DEF rest
    <3> QED BY <2>1, <3>3, <3>4 DEF Commutes
  <2> QED BY <2>3, <2>4
<1>3. N = Nat
  <2> HIDE DEF N
  <2>1. N \in SUBSET Nat
    BY DEF N
  <2> QED BY <1>1, <1>2, <2>1, NaturalsBySteps
<1>4. \A T \in SUBSET S : Cardinality(T) \in Nat
  BY FS_Subset, FS_CardinalityType
<1> QED BY <1>3, <1>4

LEMMA FoldUnique ==
  ASSUME NEW S, IsFiniteSet(S), NEW step, NEW g, NEW h, g[{}] = h[{}],
         IsFold(g, S, step), IsFold(h, S, step)
  PROVE  \A T \in SUBSET S : g[T] = h[T]
<1> DEFINE N == {n \in Nat : \A T \in SUBSET S : Cardinality(T) = n => g[T] = h[T]}
<1>1. 0 \in N
  <2>1. \A T \in SUBSET S : Cardinality(T) = 0 => T = {}
    BY FS_EmptySet, FS_Subset
  <2> QED BY <2>1
<1>2. \A n \in Nat : n \in N => n + 1 \in N
  <2> SUFFICES ASSUME NEW n \in N, NEW T \in SUBSET S, Cardinality(T) = n + 1
               PROVE  g[T] = h[T]
    OBVIOUS
  <2>1. T # {}
    <3>1. n + 1 # 0
      OBVIOUS
    <3>2. Cardinality({}) = 0
      BY FS_EmptySet
    <3> QED BY <3>1, <3>2
  <2>2. Pick(T) \in T
    BY <2>1 DEF Pick
  <2>3. Cardinality(T \ {Pick(T)}) = n
    <3>1. IsFiniteSet(T)
      BY FS_Subset
    <3>2. Cardinality(T \ {Pick(T)}) = Cardinality(T) - 1
      BY <2>2, <3>1, FS_RemoveElement
    <3> QED BY <3>2
  <2>4. g[T \ {Pick(T)}] = h[T \ {Pick(T)}]
    BY <2>3
  <2> QED BY <2>1, <2>4 DEF IsFold
<1>3. N = Nat
  <2> HIDE DEF N
  <2>1. N \in SUBSET Nat
    BY DEF N
  <2> QED BY <1>1, <1>2, <2>1, NaturalsBySteps
<1>4. \A T \in SUBSET S : Cardinality(T) \in Nat
  BY FS_Subset, FS_CardinalityType
<1> QED BY <1>3, <1>4

-----------------------------------------------------------------------------
(* Folds from left to right, over the indices of a sequence.                *)

\* FoldLeft's way through a set of indices.
Greatest(T) == CHOOSE i \in T : \A j \in T : i >= j

IsLeftFold(h, n, step) ==
  \A T \in SUBSET (1 .. n) :
     T # {} => h[T] = step[<<Greatest(T), h[T \ {Greatest(T)}]>>]

LeftFold(h, n, V, base, step) ==
  h \in [SUBSET (1 .. n) -> V] /\ h[{}] = base /\ IsLeftFold(h, n, step)

\* A set of indices has a greatest one.
LEMMA GreatestLaw ==
  ASSUME NEW n \in Nat, NEW T \in SUBSET (1 .. n), T # {}
  PROVE  Greatest(T) \in T /\ \A j \in T : Greatest(T) >= j
<1> DEFINE D == {n - j : j \in T}
<1>0. \A j \in T : j \in Nat /\ j <= n
  <2>1. \A j \in T : j \in 1 .. n
    OBVIOUS
  <2> QED BY <2>1
<1>1. D \in SUBSET Nat /\ D # {}
  <2>1. \A j \in T : n - j \in Nat
    BY <1>0
  <2> QED BY <2>1
<1>2. PICK m \in D : \A k \in D : m <= k
  <2> HIDE DEF D
  <2> QED BY <1>1, LeastNatural
<1>3. PICK i \in T : m = n - i
  BY <1>2
<1>4. ASSUME NEW j \in T PROVE i >= j
  <2>1. n - i <= n - j
    BY <1>2, <1>3
  <2> QED BY <1>0, <2>1
<1> QED BY <1>4 DEF Greatest

\* It is known once it is found.
LEMMA GreatestIs ==
  ASSUME NEW n \in Nat, NEW T \in SUBSET (1 .. n), NEW i \in T, \A j \in T : i >= j
  PROVE  Greatest(T) = i
<1>1. Greatest(T) \in T /\ Greatest(T) >= i
  BY GreatestLaw
<1>2. i >= Greatest(T)
  BY <1>1
<1>3. Greatest(T) \in Nat /\ i \in Nat
  <2>1. Greatest(T) \in 1 .. n /\ i \in 1 .. n
    BY <1>1
  <2> QED BY <2>1
<1> QED BY <1>1, <1>2, <1>3

\* There is a fold from left to right.
LEMMA LeftFoldExists ==
  ASSUME NEW n \in Nat, NEW V, NEW base \in V, NEW step, IsStep(step, n, V)
  PROVE  \E h : LeftFold(h, n, V, base, step)
<1> DEFINE N == {m \in Nat : m <= n => \E h : LeftFold(h, m, V, base, step)}
<1>1. 0 \in N
  <2> DEFINE h == [T \in SUBSET (1 .. 0) |-> base]
  <2>1. h \in [SUBSET (1 .. 0) -> V] /\ h[{}] = base
    OBVIOUS
  <2>2. \A T \in SUBSET (1 .. 0) : T = {}
    OBVIOUS
  <2> HIDE DEF h
  <2>3. LeftFold(h, 0, V, base, step)
    BY <2>1, <2>2 DEF LeftFold, IsLeftFold
  <2> QED BY <2>3
<1>2. ASSUME NEW m \in Nat, m \in N PROVE m + 1 \in N
  <2>0. m <= n => \E h : LeftFold(h, m, V, base, step)
    BY <1>2
  <2> SUFFICES ASSUME m + 1 <= n PROVE \E g : LeftFold(g, m + 1, V, base, step)
    OBVIOUS
  <2>1. PICK h : LeftFold(h, m, V, base, step)
    <3>1. m <= n
      OBVIOUS
    <3> QED BY <2>0, <3>1
  <2>2. /\ h \in [SUBSET (1 .. m) -> V] /\ h[{}] = base
        /\ \A T \in SUBSET (1 .. m) :
              T # {} => h[T] = step[<<Greatest(T), h[T \ {Greatest(T)}]>>]
    BY <2>1 DEF LeftFold, IsLeftFold
  <2> DEFINE g == [T \in SUBSET (1 .. m + 1) |->
                     IF m + 1 \in T THEN step[<<m + 1, h[T \ {m + 1}]>>] ELSE h[T]]
  <2>3. ASSUME NEW T \in SUBSET (1 .. m + 1)
        PROVE  /\ T \ {m + 1} \in SUBSET (1 .. m)
               /\ m + 1 \notin T => T \in SUBSET (1 .. m)
               /\ g[T] \in V
    <3>1. T \ {m + 1} \in SUBSET (1 .. m)
      OBVIOUS
    <3>2. m + 1 \notin T => T \in SUBSET (1 .. m)
      BY <3>1
    <3>3. m + 1 \in 1 .. n
      OBVIOUS
    <3>4. CASE m + 1 \in T
      <4>1. h[T \ {m + 1}] \in V
        BY <2>2, <3>1
      <4>2. step[<<m + 1, h[T \ {m + 1}]>>] \in V
        BY <3>3, <4>1 DEF IsStep
      <4> QED BY <3>1, <3>4, <4>2
    <3>5. CASE m + 1 \notin T
      <4>1. h[T] \in V
        BY <2>2, <3>2, <3>5
      <4> QED BY <3>1, <3>2, <3>5, <4>1
    <3> QED BY <3>4, <3>5
  <2>4. g \in [SUBSET (1 .. m + 1) -> V]
    BY <2>3
  <2>5. /\ \A T \in SUBSET (1 .. m + 1) : m + 1 \in T
              => g[T] = step[<<m + 1, h[T \ {m + 1}]>>]
        /\ \A T \in SUBSET (1 .. m + 1) : m + 1 \notin T => g[T] = h[T]
    OBVIOUS
  <2> HIDE DEF g
  <2>6. g[{}] = base
    BY <2>2, <2>5
  <2>7. ASSUME NEW T \in SUBSET (1 .. m + 1), T # {}
        PROVE  g[T] = step[<<Greatest(T), g[T \ {Greatest(T)}]>>]
    <3>1. CASE m + 1 \in T
      <4>1. Greatest(T) = m + 1
        <5>1. \A j \in T : m + 1 >= j
          OBVIOUS
        <5>2. m + 1 \in Nat
          OBVIOUS
        <5> DEFINE top == m + 1
        <5>3. top \in Nat /\ T \in SUBSET (1 .. top) /\ top \in T /\ \A j \in T : top >= j
          BY <3>1, <5>1
        <5> HIDE DEF top
        <5>4. Greatest(T) = top
          BY <5>3, GreatestIs
        <5> QED BY <5>4 DEF top
      <4>2. g[T \ {m + 1}] = h[T \ {m + 1}]
        BY <2>5
      <4>3. g[T] = step[<<m + 1, h[T \ {m + 1}]>>]
        BY <2>5, <3>1
      <4> QED BY <4>1, <4>2, <4>3
    <3>2. CASE m + 1 \notin T
      <4>1. T \in SUBSET (1 .. m)
        BY <2>3, <3>2
      <4>2. h[T] = step[<<Greatest(T), h[T \ {Greatest(T)}]>>]
        BY <2>2, <2>7, <4>1
      <4>3. g[T] = h[T] /\ g[T \ {Greatest(T)}] = h[T \ {Greatest(T)}]
        BY <2>5, <3>2
      <4> QED BY <4>2, <4>3
    <3> QED BY <3>1, <3>2
  <2> QED BY <2>4, <2>6, <2>7 DEF LeftFold, IsLeftFold
<1>3. N = Nat
  <2> HIDE DEF N
  <2>1. N \in SUBSET Nat
    BY DEF N
  <2> QED BY <1>1, <1>2, <2>1, NaturalsBySteps
<1> QED BY <1>3

=============================================================================
