---------------------------- MODULE ShamirProofs ----------------------------
(***************************************************************************)
(* The promises of secret sharing (Shamir.tla), for every prime, base,      *)
(* string and draw.  The argument:                                          *)
(*   - the integers below PRIME, with the code's arithmetic, are a field,   *)
(*     in which every number but 0 has an inverse;                          *)
(*   - interpolation at 0 is linear, gives 1 for the constant 1 and 0 for   *)
(*     the powers 1 .. m if there are more than m points; so it gives the   *)
(*     constant of any polynomial of lower degree than there are points;    *)
(*   - packing and unpacking a string are inverse to each other             *)
(*     (SecretComesBack);                                                   *)
(*   - no point has weight 0 in it, so damage to a point changes its        *)
(*     integer, and the unpacked string (DamageIsNoticed);                  *)
(*   - with fewer points than coefficients there is a polynomial that is 1  *)
(*     at 0 and 0 at every point, whose multiples move the constant without *)
(*     being seen (FewSharesAreSilent).                                     *)
(***************************************************************************)
EXTENDS Shamir, InductionProofs

-----------------------------------------------------------------------------
(* Sums and products.                                                       *)

\* A fold of commuting steps, over all parts of a set: any element may be last.
LEMMA FoldTotals ==
  ASSUME NEW S, IsFiniteSet(S), NEW V, NEW base, NEW step,
         Commutes(step, S, V), NEW total, AllFolded(total, S, V, base, step)
  PROVE  AnyOrder(total, S, V, base, step)
<1>1. PICK h \in [SUBSET S -> V] : h[{}] = base /\ IsFold(h, S, step) /\ total[S] = h[S]
  BY DEF AllFolded, Folded
<1>2. ASSUME NEW T \in SUBSET S PROVE total[T] = h[T]
  <2>1. PICK g \in [SUBSET T -> V] : g[{}] = base /\ IsFold(g, T, step) /\ total[T] = g[T]
    BY DEF AllFolded, Folded
  <2>2. IsFiniteSet(T)
    BY FS_Subset
  <2>3. IsFold(h, T, step)
    BY <1>1 DEF IsFold
  <2>4. g[{}] = h[{}]
    BY <1>1, <2>1
  <2>5. IsFold(g, T, step)
    BY <2>1
  <2>6. \A U \in SUBSET T : g[U] = h[U]
    BY <2>2, <2>3, <2>4, <2>5, FoldUnique
  <2> QED BY <2>1, <2>6
<1>3. \A T \in SUBSET S : \A x \in T : h[T] = step[<<x, h[T \ {x}]>>]
  <2>1. FoldIn(h, S, V, step)
    BY <1>1 DEF FoldIn
  <2> QED BY <2>1, FoldInAnyOrder
<1>4. total[{}] = base
  BY <1>1, <1>2
<1>5. \A T \in SUBSET S : total[T] \in V
  BY <1>2
<1>6. ASSUME NEW T \in SUBSET S, NEW x \in T PROVE total[T] = step[<<x, total[T \ {x}]>>]
  <2>1. total[T \ {x}] = h[T \ {x}] /\ total[T] = h[T]
    BY <1>2
  <2>2. h[T] = step[<<x, h[T \ {x}]>>]
    BY <1>3
  <2> QED BY <2>1, <2>2
<1> QED BY <1>4, <1>5, <1>6 DEF AnyOrder

\* What the assumption on PRIME gives.
LEMMA PrimeFacts ==
  /\ PRIME \in Nat /\ PRIME > 1 /\ 0 \in Field /\ 1 \in Field
  /\ \A a \in Int : a % PRIME \in Field
  /\ Field \in SUBSET Nat
BY FieldAssumption DEF Field

\* Division by PRIME.
LEMMA DivisionLaw ==
  ASSUME NEW a \in Int
  PROVE  /\ a \div PRIME \in Int /\ (a % PRIME) \in Field
         /\ a = PRIME * (a \div PRIME) + (a % PRIME)
BY PrimeFacts DEF Field

\* A remainder is determined by what it leaves.
LEMMA RemainderLaw ==
  ASSUME NEW a \in Int, NEW q \in Int, NEW r \in Field, a = PRIME * q + r
  PROVE  (a % PRIME) = r
BY PrimeFacts DEF Field

\* Multiples of PRIME do not count.
LEMMA SameRemainder ==
  ASSUME NEW a \in Int, NEW b \in Int, NEW q \in Int, a = b + PRIME * q
  PROVE  (a % PRIME) = (b % PRIME)
<1> DEFINE d == b \div PRIME
<1> DEFINE r == b % PRIME
<1>1. d \in Int /\ r \in Field /\ b = PRIME * d + r
  BY DivisionLaw
<1> HIDE DEF d, r
<1>2. a = PRIME * (d + q) + r
  <2>1. PRIME \in Int /\ r \in Int
    BY PrimeFacts, <1>1
  <2> QED BY <1>1, <2>1
<1>3. (a % PRIME) = r
  <2>1. d + q \in Int
    BY <1>1
  <2> QED BY <1>1, <1>2, <2>1, RemainderLaw
<1> QED BY <1>3 DEF r

\* A remainder may be taken of either summand first.
LEMMA SumIn ==
  ASSUME NEW a \in Int, NEW b \in Int
  PROVE  /\ ((a + (b % PRIME)) % PRIME) = ((a + b) % PRIME)
         /\ (((a % PRIME) + b) % PRIME) = ((a + b) % PRIME)
<1> DEFINE q == b \div PRIME
<1> DEFINE r == b % PRIME
<1> DEFINE s == a \div PRIME
<1> DEFINE t == a % PRIME
<1>1. q \in Int /\ r \in Int /\ b = PRIME * q + r
  BY DivisionLaw, PrimeFacts
<1>2. s \in Int /\ t \in Int /\ a = PRIME * s + t
  BY DivisionLaw, PrimeFacts
<1> HIDE DEF q, r, s, t
<1>3. a + b = (a + r) + PRIME * q
  BY <1>1, PrimeFacts
<1>4. a + b = (t + b) + PRIME * s
  BY <1>2, PrimeFacts
<1>5. ((a + b) % PRIME) = ((a + r) % PRIME)
  BY <1>1, <1>3, SameRemainder
<1>6. ((a + b) % PRIME) = ((t + b) % PRIME)
  BY <1>2, <1>4, SameRemainder
<1> QED BY <1>5, <1>6 DEF r, t

\* A remainder may be taken of either factor first.
LEMMA ProductIn ==
  ASSUME NEW a \in Int, NEW b \in Int
  PROVE  /\ ((a * (b % PRIME)) % PRIME) = ((a * b) % PRIME)
         /\ (((a % PRIME) * b) % PRIME) = ((a * b) % PRIME)
<1> DEFINE q == b \div PRIME
<1> DEFINE r == b % PRIME
<1> DEFINE s == a \div PRIME
<1> DEFINE t == a % PRIME
<1>1. q \in Int /\ r \in Int /\ b = PRIME * q + r
  BY DivisionLaw, PrimeFacts
<1>2. s \in Int /\ t \in Int /\ a = PRIME * s + t
  BY DivisionLaw, PrimeFacts
<1> HIDE DEF q, r, s, t
<1>3. a * b = (a * r) + PRIME * (a * q) /\ a * q \in Int /\ a * r \in Int /\ a * b \in Int
  BY <1>1, PrimeFacts
<1>4. a * b = (t * b) + PRIME * (s * b) /\ s * b \in Int /\ t * b \in Int
  BY <1>2, PrimeFacts
<1>5. ((a * b) % PRIME) = ((a * r) % PRIME)
  BY <1>3, SameRemainder
<1>6. ((a * b) % PRIME) = ((t * b) % PRIME)
  BY <1>3, <1>4, SameRemainder
<1> QED BY <1>5, <1>6 DEF r, t

\* FoldExists, for values in the field.
LEMMA FieldFold ==
  ASSUME NEW T, IsFiniteSet(T), NEW base \in Field, NEW step \in [T \X Field -> Field]
  PROVE  \E h \in [SUBSET T -> Field] : h[{}] = base /\ IsFold(h, T, step)
BY FoldExists

\* A fold whose step is only known for values of the field stays in it.
LEMMA FoldStaysInField ==
  ASSUME NEW T, IsFiniteSet(T), NEW step \in [T \X Field -> Field],
         NEW it, it[{}] \in Field,
         \A U \in SUBSET T : U # {} /\ it[U \ {Pick(U)}] \in Field
            => it[U] = step[<<Pick(U), it[U \ {Pick(U)}]>>]
  PROVE  \A U \in SUBSET T : it[U] \in Field
<1> DEFINE N == {n \in Nat : \A U \in SUBSET T : Cardinality(U) = n => it[U] \in Field}
<1>1. 0 \in N
  <2>1. \A U \in SUBSET T : Cardinality(U) = 0 => U = {}
    BY FS_EmptySet, FS_Subset
  <2> QED BY <2>1
<1>2. ASSUME NEW n \in Nat, n \in N PROVE n + 1 \in N
  <2>0. \A U \in SUBSET T : Cardinality(U) = n => it[U] \in Field
    BY <1>2
  <2> SUFFICES ASSUME NEW U \in SUBSET T, Cardinality(U) = n + 1 PROVE it[U] \in Field
    OBVIOUS
  <2>1. U # {}
    <3>1. n + 1 # 0
      OBVIOUS
    <3>2. Cardinality({}) = 0
      BY FS_EmptySet
    <3> QED BY <3>1, <3>2
  <2> DEFINE x == Pick(U)
  <2>2. x \in U
    BY <2>1 DEF Pick
  <2>3. it[U \ {x}] \in Field => it[U] = step[<<x, it[U \ {x}]>>]
    BY <2>1
  <2> HIDE DEF x
  <2>4. Cardinality(U \ {x}) = n
    <3>1. IsFiniteSet(U)
      BY FS_Subset
    <3>2. Cardinality(U \ {x}) = Cardinality(U) - 1
      BY <2>2, <3>1, FS_RemoveElement
    <3> QED BY <3>2
  <2>5. it[U \ {x}] \in Field
    BY <2>0, <2>4
  <2> QED BY <2>2, <2>3, <2>5
<1>3. N = Nat
  <2> HIDE DEF N
  <2>1. N \in SUBSET Nat
    BY DEF N
  <2> QED BY <1>1, <1>2, <2>1, NaturalsBySteps
<1>4. \A U \in SUBSET T : Cardinality(U) \in Nat
  BY FS_Subset, FS_CardinalityType
<1> QED BY <1>3, <1>4

\* SumOf, the fold of the model, is a fold of such steps.
LEMMA SumUnfolds ==
  ASSUME NEW T, IsFiniteSet(T), NEW f \in [T -> Nat],
         NEW step, step = [s \in T \X Field |-> (f[s[1]] + s[2]) % PRIME]
  PROVE  /\ step \in [T \X Field -> Field]
         /\ Folded(SumOf(f), T, Field, 0, step)
<1>1. ASSUME NEW x \in T, NEW v \in Field
      PROVE  step[<<x, v>>] = ((f[x] + v) % PRIME) /\ (f[x] + v) % PRIME \in Field
  <2>1. f[x] + v \in Int
    <3>1. f[x] \in Nat /\ v \in Nat
      BY PrimeFacts
    <3> QED BY <3>1
  <2> QED BY <2>1, PrimeFacts
<1>2. step \in [T \X Field -> Field]
  BY <1>1
<1> DEFINE Eq(h) == h = [U \in SUBSET T |->
                           IF U = {} THEN 0 ELSE (f[Pick(U)] + h[U \ {Pick(U)}]) % PRIME]
<1> DEFINE it == CHOOSE h : Eq(h)
<1>3. SumOf(f) = it[T]
  BY DEF SumOf, FoldFunction, FoldFunctionOnSet, MapThenFoldSet, Pick
<1>4. \E h : Eq(h)
  <2>1. PICK h \in [SUBSET T -> Field] : h[{}] = 0 /\ IsFold(h, T, step)
    BY <1>2, FieldFold, PrimeFacts
  <2>2. ASSUME NEW U \in SUBSET T
        PROVE  h[U] = IF U = {} THEN 0 ELSE (f[Pick(U)] + h[U \ {Pick(U)}]) % PRIME
    <3>1. CASE U = {}
      BY <2>1, <3>1
    <3>2. CASE U # {}
      <4>1. Pick(U) \in T /\ h[U \ {Pick(U)}] \in Field
        BY <2>1, <3>2 DEF Pick
      <4> QED BY <1>1, <2>1, <3>2, <4>1 DEF IsFold
    <3> QED BY <3>1, <3>2
  <2>3. Eq(h)
    BY <2>1, <2>2
  <2> QED BY <2>3
<1> HIDE DEF Eq
<1>5. Eq(it)
  BY <1>4
<1> HIDE DEF it
<1>6. it = [U \in SUBSET T |->
              IF U = {} THEN 0 ELSE (f[Pick(U)] + it[U \ {Pick(U)}]) % PRIME]
  BY <1>5 DEF Eq
<1>7. it[{}] = 0
  BY <1>6
<1>8. \A U \in SUBSET T : U # {} => it[U] = ((f[Pick(U)] + it[U \ {Pick(U)}]) % PRIME)
  BY <1>6
<1>9. ASSUME NEW U \in SUBSET T, U # {}, it[U \ {Pick(U)}] \in Field
      PROVE  it[U] = step[<<Pick(U), it[U \ {Pick(U)}]>>]
  <2>1. Pick(U) \in T
    BY <1>9 DEF Pick
  <2> QED BY <1>1, <1>8, <1>9, <2>1
<1>10. \A U \in SUBSET T : it[U] \in Field
  <2>1. it[{}] \in Field
    BY <1>7, PrimeFacts
  <2>2. \A U \in SUBSET T : U # {} /\ it[U \ {Pick(U)}] \in Field
            => it[U] = step[<<Pick(U), it[U \ {Pick(U)}]>>]
    BY <1>9
  <2> QED BY <1>2, <2>1, <2>2, FoldStaysInField
<1>11. it \in [SUBSET T -> Field]
  <2>1. it = [U \in SUBSET T |-> it[U]]
    BY <1>6
  <2> QED BY <1>10, <2>1
<1>12. IsFold(it, T, step)
  BY <1>9, <1>10 DEF IsFold
<1> QED BY <1>2, <1>3, <1>7, <1>11, <1>12 DEF Folded

\* So is ProductOf.
LEMMA ProductUnfolds ==
  ASSUME NEW T, IsFiniteSet(T), NEW f \in [T -> Nat],
         NEW step, step = [s \in T \X Field |-> (f[s[1]] * s[2]) % PRIME]
  PROVE  /\ step \in [T \X Field -> Field]
         /\ Folded(ProductOf(f), T, Field, 1, step)
<1>1. ASSUME NEW x \in T, NEW v \in Field
      PROVE  step[<<x, v>>] = ((f[x] * v) % PRIME) /\ (f[x] * v) % PRIME \in Field
  <2>1. f[x] * v \in Int
    <3>1. f[x] \in Nat /\ v \in Nat
      BY PrimeFacts
    <3> QED BY <3>1
  <2> QED BY <2>1, PrimeFacts
<1>2. step \in [T \X Field -> Field]
  BY <1>1
<1> DEFINE Eq(h) == h = [U \in SUBSET T |->
                           IF U = {} THEN 1 ELSE (f[Pick(U)] * h[U \ {Pick(U)}]) % PRIME]
<1> DEFINE it == CHOOSE h : Eq(h)
<1>3. ProductOf(f) = it[T]
  BY DEF ProductOf, FoldFunction, FoldFunctionOnSet, MapThenFoldSet, Pick
<1>4. \E h : Eq(h)
  <2>1. PICK h \in [SUBSET T -> Field] : h[{}] = 1 /\ IsFold(h, T, step)
    BY <1>2, FieldFold, PrimeFacts
  <2>2. ASSUME NEW U \in SUBSET T
        PROVE  h[U] = IF U = {} THEN 1 ELSE (f[Pick(U)] * h[U \ {Pick(U)}]) % PRIME
    <3>1. CASE U = {}
      BY <2>1, <3>1
    <3>2. CASE U # {}
      <4>1. Pick(U) \in T /\ h[U \ {Pick(U)}] \in Field
        BY <2>1, <3>2 DEF Pick
      <4> QED BY <1>1, <2>1, <3>2, <4>1 DEF IsFold
    <3> QED BY <3>1, <3>2
  <2>3. Eq(h)
    BY <2>1, <2>2
  <2> QED BY <2>3
<1> HIDE DEF Eq
<1>5. Eq(it)
  BY <1>4
<1> HIDE DEF it
<1>6. it = [U \in SUBSET T |->
              IF U = {} THEN 1 ELSE (f[Pick(U)] * it[U \ {Pick(U)}]) % PRIME]
  BY <1>5 DEF Eq
<1>7. it[{}] = 1
  BY <1>6
<1>8. \A U \in SUBSET T : U # {} => it[U] = ((f[Pick(U)] * it[U \ {Pick(U)}]) % PRIME)
  BY <1>6
<1>9. ASSUME NEW U \in SUBSET T, U # {}, it[U \ {Pick(U)}] \in Field
      PROVE  it[U] = step[<<Pick(U), it[U \ {Pick(U)}]>>]
  <2>1. Pick(U) \in T
    BY <1>9 DEF Pick
  <2> QED BY <1>1, <1>8, <1>9, <2>1
<1>10. \A U \in SUBSET T : it[U] \in Field
  <2>1. it[{}] \in Field
    BY <1>7, PrimeFacts
  <2>2. \A U \in SUBSET T : U # {} /\ it[U \ {Pick(U)}] \in Field
            => it[U] = step[<<Pick(U), it[U \ {Pick(U)}]>>]
    BY <1>9
  <2> QED BY <1>2, <2>1, <2>2, FoldStaysInField
<1>11. it \in [SUBSET T -> Field]
  <2>1. it = [U \in SUBSET T |-> it[U]]
    BY <1>6
  <2> QED BY <1>10, <2>1
<1>12. IsFold(it, T, step)
  BY <1>9, <1>10 DEF IsFold
<1> QED BY <1>2, <1>3, <1>7, <1>11, <1>12 DEF Folded

\* The order of summands does not matter.
LEMMA SumCommutes ==
  ASSUME NEW S, NEW f \in [S -> Nat], NEW step,
         step = [s \in S \X Field |-> (f[s[1]] + s[2]) % PRIME]
  PROVE  Commutes(step, S, Field)
<1>1. ASSUME NEW x \in S, NEW v \in Field
      PROVE  /\ step[<<x, v>>] = ((f[x] + v) % PRIME) /\ (f[x] + v) % PRIME \in Field
             /\ f[x] \in Int /\ v \in Int /\ f[x] + v \in Int
  <2>1. f[x] \in Int /\ v \in Int /\ f[x] + v \in Int
    <3>1. f[x] \in Nat /\ v \in Nat
      BY PrimeFacts
    <3> QED BY <3>1
  <2> QED BY <2>1, PrimeFacts
<1>2. ASSUME NEW x \in S, NEW y \in S, NEW v \in Field
      PROVE  step[<<x, step[<<y, v>>]>>] = ((f[x] + (f[y] + v)) % PRIME)
  <2>1. step[<<x, step[<<y, v>>]>>] = ((f[x] + ((f[y] + v) % PRIME)) % PRIME)
    BY <1>1
  <2>2. f[y] + v \in Int /\ f[x] \in Int
    BY <1>1
  <2> QED BY <2>1, <2>2, SumIn
<1>3. ASSUME NEW x \in S, NEW y \in S, NEW v \in Field
      PROVE  step[<<x, step[<<y, v>>]>>] = step[<<y, step[<<x, v>>]>>]
  <2>1. f[x] \in Int /\ f[y] \in Int /\ v \in Int
    BY <1>1
  <2>2. f[x] + (f[y] + v) = f[y] + (f[x] + v)
    BY <2>1
  <2> DEFINE a == f[x] + (f[y] + v)
  <2> DEFINE b == f[y] + (f[x] + v)
  <2>3. a = b
    BY <2>2
  <2>4. step[<<x, step[<<y, v>>]>>] = (a % PRIME) /\ step[<<y, step[<<x, v>>]>>] = (b % PRIME)
    BY <1>2
  <2> HIDE DEF a, b
  <2> QED BY <2>3, <2>4
<1> QED BY <1>3 DEF Commutes

\* The sum over a set, with any element taken last.
LEMMA SumLaw ==
  ASSUME NEW S, IsFiniteSet(S), NEW f \in [S -> Nat]
  PROVE  /\ SumOf([y \in {} |-> f[y]]) = 0
         /\ \A T \in SUBSET S : SumOf([y \in T |-> f[y]]) \in Field
         /\ \A T \in SUBSET S : \A x \in T :
                SumOf([y \in T |-> f[y]]) = ((f[x] + SumOf([y \in T \ {x} |-> f[y]])) % PRIME)
<1> DEFINE step == [s \in S \X Field |-> (f[s[1]] + s[2]) % PRIME]
<1> DEFINE total == [T \in SUBSET S |-> SumOf([y \in T |-> f[y]])]
<1>1. step \in [S \X Field -> Field]
  <2>1. step = [s \in S \X Field |-> (f[s[1]] + s[2]) % PRIME]
    OBVIOUS
  <2> HIDE DEF step
  <2> QED BY <2>1, SumUnfolds
<1>2. ASSUME NEW T \in SUBSET S
      PROVE  Folded(total[T], T, Field, 0, step)
  <2> DEFINE g == [y \in T |-> f[y]]
  <2> DEFINE part == [s \in T \X Field |-> (g[s[1]] + s[2]) % PRIME]
  <2>1. IsFiniteSet(T) /\ g \in [T -> Nat]
    BY FS_Subset
  <2>2. PICK h \in [SUBSET T -> Field] : h[{}] = 0 /\ IsFold(h, T, part) /\ SumOf(g) = h[T]
    <3>1. part = [s \in T \X Field |-> (g[s[1]] + s[2]) % PRIME]
      OBVIOUS
    <3> HIDE DEF g, part
    <3>2. Folded(SumOf(g), T, Field, 0, part)
      BY <2>1, <3>1, SumUnfolds
    <3> QED BY <3>2 DEF Folded
  <2>3. \A x \in T : \A v \in Field : part[<<x, v>>] = step[<<x, v>>]
    OBVIOUS
  <2>4. IsFold(h, T, step)
    <3> HIDE DEF part, step
    <3>1. ASSUME NEW U \in SUBSET T, U # {}
          PROVE  h[U] = step[<<Pick(U), h[U \ {Pick(U)}]>>]
      <4>1. Pick(U) \in T /\ h[U \ {Pick(U)}] \in Field
        BY <3>1 DEF Pick
      <4>2. h[U] = part[<<Pick(U), h[U \ {Pick(U)}]>>]
        BY <2>2, <3>1 DEF IsFold
      <4> QED BY <2>3, <4>1, <4>2
    <3> QED BY <3>1 DEF IsFold
  <2>5. total[T] = SumOf(g)
    OBVIOUS
  <2> HIDE DEF total, step
  <2> QED BY <2>2, <2>4, <2>5 DEF Folded
<1>3. Commutes(step, S, Field)
  BY SumCommutes
<1>4. \A x \in S : \A v \in Field : step[<<x, v>>] = ((f[x] + v) % PRIME)
  OBVIOUS
<1>5. \A T \in SUBSET S : total[T] = SumOf([y \in T |-> f[y]])
  OBVIOUS
<1> HIDE DEF step, total
<1>6. /\ total[{}] = 0
      /\ \A T \in SUBSET S : total[T] \in Field
      /\ \A T \in SUBSET S : \A x \in T : total[T] = step[<<x, total[T \ {x}]>>]
  <2> DEFINE base == 0
  <2>1. AllFolded(total, S, Field, base, step)
    BY <1>2 DEF AllFolded
  <2> HIDE DEF base
  <2>2. AnyOrder(total, S, Field, base, step)
    BY <1>3, <2>1, FoldTotals
  <2> QED BY <2>2 DEF base, AnyOrder
<1>7. ASSUME NEW T \in SUBSET S, NEW x \in T
      PROVE  SumOf([y \in T |-> f[y]]) = ((f[x] + SumOf([y \in T \ {x} |-> f[y]])) % PRIME)
  <2>1. total[T] = step[<<x, total[T \ {x}]>>] /\ total[T \ {x}] \in Field
    BY <1>6
  <2>2. total[T] = ((f[x] + total[T \ {x}]) % PRIME)
    BY <1>4, <2>1
  <2> QED BY <1>5, <2>2
<1>8. SumOf([y \in {} |-> f[y]]) = 0
  BY <1>5, <1>6
<1>9. \A T \in SUBSET S : SumOf([y \in T |-> f[y]]) \in Field
  BY <1>5, <1>6
<1> QED BY <1>7, <1>8, <1>9

\* Nor does that of factors.
LEMMA ProductCommutes ==
  ASSUME NEW S, NEW f \in [S -> Nat], NEW step,
         step = [s \in S \X Field |-> (f[s[1]] * s[2]) % PRIME]
  PROVE  Commutes(step, S, Field)
<1>1. ASSUME NEW x \in S, NEW v \in Field
      PROVE  /\ step[<<x, v>>] = ((f[x] * v) % PRIME) /\ (f[x] * v) % PRIME \in Field
             /\ f[x] \in Int /\ v \in Int /\ f[x] * v \in Int
  <2>1. f[x] \in Int /\ v \in Int /\ f[x] * v \in Int
    <3>1. f[x] \in Nat /\ v \in Nat
      BY PrimeFacts
    <3> QED BY <3>1
  <2> QED BY <2>1, PrimeFacts
<1>2. ASSUME NEW x \in S, NEW y \in S, NEW v \in Field
      PROVE  step[<<x, step[<<y, v>>]>>] = ((f[x] * (f[y] * v)) % PRIME)
  <2>1. step[<<x, step[<<y, v>>]>>] = ((f[x] * ((f[y] * v) % PRIME)) % PRIME)
    BY <1>1
  <2>2. f[y] * v \in Int /\ f[x] \in Int
    BY <1>1
  <2> QED BY <2>1, <2>2, ProductIn
<1>3. ASSUME NEW x \in S, NEW y \in S, NEW v \in Field
      PROVE  step[<<x, step[<<y, v>>]>>] = step[<<y, step[<<x, v>>]>>]
  <2>1. f[x] \in Int /\ f[y] \in Int /\ v \in Int
    BY <1>1
  <2>2. f[x] * (f[y] * v) = f[y] * (f[x] * v)
    BY <2>1
  <2> DEFINE a == f[x] * (f[y] * v)
  <2> DEFINE b == f[y] * (f[x] * v)
  <2>3. a = b
    BY <2>2
  <2>4. step[<<x, step[<<y, v>>]>>] = (a % PRIME) /\ step[<<y, step[<<x, v>>]>>] = (b % PRIME)
    BY <1>2
  <2> HIDE DEF a, b
  <2> QED BY <2>3, <2>4
<1> QED BY <1>3 DEF Commutes

\* The product over a set, with any element taken last.
LEMMA ProductLaw ==
  ASSUME NEW S, IsFiniteSet(S), NEW f \in [S -> Nat]
  PROVE  /\ ProductOf([y \in {} |-> f[y]]) = 1
         /\ \A T \in SUBSET S : ProductOf([y \in T |-> f[y]]) \in Field
         /\ \A T \in SUBSET S : \A x \in T :
                ProductOf([y \in T |-> f[y]])
                  = ((f[x] * ProductOf([y \in T \ {x} |-> f[y]])) % PRIME)
<1> DEFINE step == [s \in S \X Field |-> (f[s[1]] * s[2]) % PRIME]
<1> DEFINE total == [T \in SUBSET S |-> ProductOf([y \in T |-> f[y]])]
<1>1. step \in [S \X Field -> Field]
  <2>1. step = [s \in S \X Field |-> (f[s[1]] * s[2]) % PRIME]
    OBVIOUS
  <2> HIDE DEF step
  <2> QED BY <2>1, ProductUnfolds
<1>2. ASSUME NEW T \in SUBSET S
      PROVE  Folded(total[T], T, Field, 1, step)
  <2> DEFINE g == [y \in T |-> f[y]]
  <2> DEFINE part == [s \in T \X Field |-> (g[s[1]] * s[2]) % PRIME]
  <2>1. IsFiniteSet(T) /\ g \in [T -> Nat]
    BY FS_Subset
  <2>2. PICK h \in [SUBSET T -> Field] : h[{}] = 1 /\ IsFold(h, T, part) /\ ProductOf(g) = h[T]
    <3>1. part = [s \in T \X Field |-> (g[s[1]] * s[2]) % PRIME]
      OBVIOUS
    <3> HIDE DEF g, part
    <3>2. Folded(ProductOf(g), T, Field, 1, part)
      BY <2>1, <3>1, ProductUnfolds
    <3> QED BY <3>2 DEF Folded
  <2>3. \A x \in T : \A v \in Field : part[<<x, v>>] = step[<<x, v>>]
    OBVIOUS
  <2>4. IsFold(h, T, step)
    <3> HIDE DEF part, step
    <3>1. ASSUME NEW U \in SUBSET T, U # {}
          PROVE  h[U] = step[<<Pick(U), h[U \ {Pick(U)}]>>]
      <4>1. Pick(U) \in T /\ h[U \ {Pick(U)}] \in Field
        BY <3>1 DEF Pick
      <4>2. h[U] = part[<<Pick(U), h[U \ {Pick(U)}]>>]
        BY <2>2, <3>1 DEF IsFold
      <4> QED BY <2>3, <4>1, <4>2
    <3> QED BY <3>1 DEF IsFold
  <2>5. total[T] = ProductOf(g)
    OBVIOUS
  <2> HIDE DEF total, step
  <2> QED BY <2>2, <2>4, <2>5 DEF Folded
<1>3. Commutes(step, S, Field)
  BY ProductCommutes
<1>4. \A x \in S : \A v \in Field : step[<<x, v>>] = ((f[x] * v) % PRIME)
  OBVIOUS
<1>5. \A T \in SUBSET S : total[T] = ProductOf([y \in T |-> f[y]])
  OBVIOUS
<1> HIDE DEF step, total
<1>6. /\ total[{}] = 1
      /\ \A T \in SUBSET S : total[T] \in Field
      /\ \A T \in SUBSET S : \A x \in T : total[T] = step[<<x, total[T \ {x}]>>]
  <2> DEFINE base == 1
  <2>1. AllFolded(total, S, Field, base, step)
    BY <1>2 DEF AllFolded
  <2> HIDE DEF base
  <2>2. AnyOrder(total, S, Field, base, step)
    BY <1>3, <2>1, FoldTotals
  <2> QED BY <2>2 DEF base, AnyOrder
<1>7. ASSUME NEW T \in SUBSET S, NEW x \in T
      PROVE  ProductOf([y \in T |-> f[y]]) = ((f[x] * ProductOf([y \in T \ {x} |-> f[y]])) % PRIME)
  <2>1. total[T] = step[<<x, total[T \ {x}]>>] /\ total[T \ {x}] \in Field
    BY <1>6
  <2>2. total[T] = ((f[x] * total[T \ {x}]) % PRIME)
    BY <1>4, <2>1
  <2> QED BY <1>5, <2>2
<1>8. ProductOf([y \in {} |-> f[y]]) = 1
  BY <1>5, <1>6
<1>9. \A T \in SUBSET S : ProductOf([y \in T |-> f[y]]) \in Field
  BY <1>5, <1>6
<1> QED BY <1>7, <1>8, <1>9

\* Sums and products over part of a function.
SumOver(S, f) == SumOf([y \in S |-> f[y]])
ProductOver(S, f) == ProductOf([y \in S |-> f[y]])

\* Natural values.
NatMap(f, S) == \A x \in S : f[x] \in Nat

\* SumLaw in these terms, for anything that takes natural values.
LEMMA SumOverLaw ==
  ASSUME NEW S, IsFiniteSet(S), NEW f, NatMap(f, S)
  PROVE  /\ SumOver({}, f) = 0
         /\ SumOver(S, f) \in Field
         /\ \A x \in S : SumOver(S, f) = ((f[x] + SumOver(S \ {x}, f)) % PRIME)
<1> DEFINE g == [y \in S |-> f[y]]
<1>1. g \in [S -> Nat]
  BY DEF NatMap
<1>2. ASSUME NEW T \in SUBSET S PROVE SumOver(T, f) = SumOf([y \in T |-> g[y]])
  <2>1. [y \in T |-> g[y]] = [y \in T |-> f[y]]
    OBVIOUS
  <2> QED BY <2>1 DEF SumOver
<1>3. \A x \in S : g[x] = f[x]
  OBVIOUS
<1> HIDE DEF g
<1>4. /\ SumOf([y \in {} |-> g[y]]) = 0
      /\ \A T \in SUBSET S : SumOf([y \in T |-> g[y]]) \in Field
      /\ \A T \in SUBSET S : \A x \in T :
            SumOf([y \in T |-> g[y]]) = ((g[x] + SumOf([y \in T \ {x} |-> g[y]])) % PRIME)
  BY <1>1, SumLaw
<1>5. SumOver({}, f) = 0
  <2>1. {} \in SUBSET S
    OBVIOUS
  <2> QED BY <1>2, <1>4, <2>1
<1>6. SumOver(S, f) \in Field
  <2>1. S \in SUBSET S
    OBVIOUS
  <2>2. SumOf([y \in S |-> g[y]]) \in Field
    BY <1>4, <2>1
  <2> QED BY <1>2, <2>1, <2>2
<1>7. ASSUME NEW x \in S PROVE SumOver(S, f) = ((f[x] + SumOver(S \ {x}, f)) % PRIME)
  <2>1. S \in SUBSET S /\ S \ {x} \in SUBSET S
    OBVIOUS
  <2>2. SumOf([y \in S |-> g[y]]) = ((g[x] + SumOf([y \in S \ {x} |-> g[y]])) % PRIME)
    BY <1>4, <2>1
  <2>3. /\ SumOver(S, f) = SumOf([y \in S |-> g[y]])
        /\ SumOver(S \ {x}, f) = SumOf([y \in S \ {x} |-> g[y]])
    BY <1>2, <2>1
  <2> QED BY <1>3, <2>2, <2>3
<1> QED BY <1>5, <1>6, <1>7

\* One more summand.
LEMMA SumOverOne ==
  ASSUME NEW S, IsFiniteSet(S), NEW x, x \notin S, NEW f, NatMap(f, S \cup {x})
  PROVE  /\ SumOver(S \cup {x}, f) = ((f[x] + SumOver(S, f)) % PRIME)
         /\ SumOver(S, f) \in Field /\ f[x] \in Nat
<1> DEFINE U == S \cup {x}
<1>1. IsFiniteSet(U)
  BY FS_AddElement
<1>2. x \in U /\ U \ {x} = S
  OBVIOUS
<1>3. NatMap(f, U) /\ NatMap(f, S) /\ f[x] \in Nat
  BY DEF NatMap
<1> HIDE DEF U
<1>4. SumOver(U, f) = ((f[x] + SumOver(U \ {x}, f)) % PRIME)
  BY <1>1, <1>2, <1>3, SumOverLaw
<1>5. SumOver(S, f) \in Field
  BY <1>3, SumOverLaw
<1> QED BY <1>2, <1>3, <1>4, <1>5 DEF U

\* Only the remainders of the terms matter.
LEMMA SumCongruent ==
  ASSUME NEW S, IsFiniteSet(S), NEW f, NEW g, NatMap(f, S), NatMap(g, S),
         \A x \in S : (f[x] % PRIME) = (g[x] % PRIME)
  PROVE  SumOver(S, f) = SumOver(S, g)
<1> DEFINE P == {T \in SUBSET S : SumOver(T, f) = SumOver(T, g)}
<1>1. {} \in P
  <2>1. NatMap(f, {}) /\ NatMap(g, {}) /\ IsFiniteSet({})
    BY FS_EmptySet DEF NatMap
  <2> QED BY <2>1, SumOverLaw
<1>2. ASSUME NEW T \in P, NEW x \in S \ T PROVE T \cup {x} \in P
  <2>1. IsFiniteSet(T) /\ x \notin T /\ NatMap(f, T \cup {x}) /\ NatMap(g, T \cup {x})
    BY FS_Subset DEF NatMap
  <2> DEFINE v == SumOver(T, f)
  <2> DEFINE a == f[x]
  <2> DEFINE b == g[x]
  <2>2. SumOver(T \cup {x}, f) = ((a + v) % PRIME) /\ v \in Field /\ a \in Nat
    BY <2>1, SumOverOne
  <2>3. SumOver(T \cup {x}, g) = ((b + SumOver(T, g)) % PRIME) /\ b \in Nat
    BY <2>1, SumOverOne
  <2>4. SumOver(T, g) = v /\ (a % PRIME) = (b % PRIME)
    OBVIOUS
  <2> HIDE DEF a, b, v
  <2>5. a \in Int /\ b \in Int /\ v \in Int
    BY <2>2, <2>3, PrimeFacts
  <2>6. ((a + v) % PRIME) = (((a % PRIME) + v) % PRIME)
    BY <2>5, SumIn
  <2>7. ((b + v) % PRIME) = (((b % PRIME) + v) % PRIME)
    BY <2>5, SumIn
  <2>8. SumOver(T \cup {x}, f) = SumOver(T \cup {x}, g)
    BY <2>2, <2>3, <2>4, <2>6, <2>7
  <2> QED BY <2>8
<1>3. P = SUBSET S
  <2>1. P \in SUBSET SUBSET S
    OBVIOUS
  <2> HIDE DEF P
  <2> QED BY <1>1, <1>2, <2>1, FiniteByElements
<1> QED BY <1>3

\* ProductLaw in these terms.
LEMMA ProductOverLaw ==
  ASSUME NEW S, IsFiniteSet(S), NEW f, NatMap(f, S)
  PROVE  /\ ProductOver({}, f) = 1
         /\ ProductOver(S, f) \in Field
         /\ \A x \in S : ProductOver(S, f) = ((f[x] * ProductOver(S \ {x}, f)) % PRIME)
<1> DEFINE g == [y \in S |-> f[y]]
<1>1. g \in [S -> Nat]
  BY DEF NatMap
<1>2. ASSUME NEW T \in SUBSET S PROVE ProductOver(T, f) = ProductOf([y \in T |-> g[y]])
  <2>1. [y \in T |-> g[y]] = [y \in T |-> f[y]]
    OBVIOUS
  <2> QED BY <2>1 DEF ProductOver
<1>3. \A x \in S : g[x] = f[x]
  OBVIOUS
<1> HIDE DEF g
<1>4. /\ ProductOf([y \in {} |-> g[y]]) = 1
      /\ \A T \in SUBSET S : ProductOf([y \in T |-> g[y]]) \in Field
      /\ \A T \in SUBSET S : \A x \in T :
            ProductOf([y \in T |-> g[y]]) = ((g[x] * ProductOf([y \in T \ {x} |-> g[y]])) % PRIME)
  BY <1>1, ProductLaw
<1>5. ProductOver({}, f) = 1
  <2>1. {} \in SUBSET S
    OBVIOUS
  <2> QED BY <1>2, <1>4, <2>1
<1>6. ProductOver(S, f) \in Field
  <2>1. S \in SUBSET S
    OBVIOUS
  <2>2. ProductOf([y \in S |-> g[y]]) \in Field
    BY <1>4, <2>1
  <2> QED BY <1>2, <2>1, <2>2
<1>7. ASSUME NEW x \in S PROVE ProductOver(S, f) = ((f[x] * ProductOver(S \ {x}, f)) % PRIME)
  <2>1. S \in SUBSET S /\ S \ {x} \in SUBSET S
    OBVIOUS
  <2>2. ProductOf([y \in S |-> g[y]]) = ((g[x] * ProductOf([y \in S \ {x} |-> g[y]])) % PRIME)
    BY <1>4, <2>1
  <2>3. /\ ProductOver(S, f) = ProductOf([y \in S |-> g[y]])
        /\ ProductOver(S \ {x}, f) = ProductOf([y \in S \ {x} |-> g[y]])
    BY <1>2, <2>1
  <2> QED BY <1>3, <2>2, <2>3
<1> QED BY <1>5, <1>6, <1>7

\* One more factor.
LEMMA ProductOverOne ==
  ASSUME NEW S, IsFiniteSet(S), NEW x, x \notin S, NEW f, NatMap(f, S \cup {x})
  PROVE  /\ ProductOver(S \cup {x}, f) = ((f[x] * ProductOver(S, f)) % PRIME)
         /\ ProductOver(S, f) \in Field /\ f[x] \in Nat
<1> DEFINE U == S \cup {x}
<1>1. IsFiniteSet(U)
  BY FS_AddElement
<1>2. x \in U /\ U \ {x} = S
  OBVIOUS
<1>3. NatMap(f, U) /\ NatMap(f, S) /\ f[x] \in Nat
  BY DEF NatMap
<1> HIDE DEF U
<1>4. ProductOver(U, f) = ((f[x] * ProductOver(U \ {x}, f)) % PRIME)
  BY <1>1, <1>2, <1>3, ProductOverLaw
<1>5. ProductOver(S, f) \in Field
  BY <1>3, ProductOverLaw
<1> QED BY <1>2, <1>3, <1>4, <1>5 DEF U

\* Only the remainders of the terms matter.
LEMMA ProductCongruent ==
  ASSUME NEW S, IsFiniteSet(S), NEW f, NEW g, NatMap(f, S), NatMap(g, S),
         \A x \in S : (f[x] % PRIME) = (g[x] % PRIME)
  PROVE  ProductOver(S, f) = ProductOver(S, g)
<1> DEFINE P == {T \in SUBSET S : ProductOver(T, f) = ProductOver(T, g)}
<1>1. {} \in P
  <2>1. NatMap(f, {}) /\ NatMap(g, {}) /\ IsFiniteSet({})
    BY FS_EmptySet DEF NatMap
  <2> QED BY <2>1, ProductOverLaw
<1>2. ASSUME NEW T \in P, NEW x \in S \ T PROVE T \cup {x} \in P
  <2>1. IsFiniteSet(T) /\ x \notin T /\ NatMap(f, T \cup {x}) /\ NatMap(g, T \cup {x})
    BY FS_Subset DEF NatMap
  <2> DEFINE v == ProductOver(T, f)
  <2> DEFINE a == f[x]
  <2> DEFINE b == g[x]
  <2>2. ProductOver(T \cup {x}, f) = ((a * v) % PRIME) /\ v \in Field /\ a \in Nat
    BY <2>1, ProductOverOne
  <2>3. ProductOver(T \cup {x}, g) = ((b * ProductOver(T, g)) % PRIME) /\ b \in Nat
    BY <2>1, ProductOverOne
  <2>4. ProductOver(T, g) = v /\ (a % PRIME) = (b % PRIME)
    OBVIOUS
  <2> HIDE DEF a, b, v
  <2>5. a \in Int /\ b \in Int /\ v \in Int
    BY <2>2, <2>3, PrimeFacts
  <2>6. ((a * v) % PRIME) = (((a % PRIME) * v) % PRIME)
    BY <2>5, ProductIn
  <2>7. ((b * v) % PRIME) = (((b % PRIME) * v) % PRIME)
    BY <2>5, ProductIn
  <2>8. ProductOver(T \cup {x}, f) = ProductOver(T \cup {x}, g)
    BY <2>2, <2>3, <2>4, <2>6, <2>7
  <2> QED BY <2>8
<1>3. P = SUBSET S
  <2>1. P \in SUBSET SUBSET S
    OBVIOUS
  <2> HIDE DEF P
  <2> QED BY <1>1, <1>2, <2>1, FiniteByElements
<1> QED BY <1>3

-----------------------------------------------------------------------------
(* The field.                                                               *)

\* The arithmetic of the field.
Add(a, b) == (a + b) % PRIME
Mul(a, b) == (a * b) % PRIME
Neg(a) == (PRIME - a) % PRIME
Sub(a, b) == Add(a, Neg(b))

\* Arithmetic stays in the field.
LEMMA FieldIsClosed ==
  ASSUME NEW a \in Field, NEW b \in Field
  PROVE  Add(a, b) \in Field /\ Mul(a, b) \in Field /\ Neg(a) \in Field /\ Sub(a, b) \in Field
<1>1. a \in Int /\ b \in Int /\ PRIME \in Int
  BY PrimeFacts
<1>2. a + b \in Int /\ a * b \in Int /\ PRIME - a \in Int /\ PRIME - b \in Int
  BY <1>1
<1>3. Add(a, b) \in Field /\ Mul(a, b) \in Field /\ Neg(a) \in Field /\ Neg(b) \in Field
  BY <1>2, PrimeFacts DEF Add, Mul, Neg
<1>4. a + Neg(b) \in Int
  <2>1. Neg(b) \in Int
    BY <1>1, <1>3 DEF Field
  <2> QED BY <1>1, <2>1
<1> QED BY <1>3, <1>4, PrimeFacts DEF Sub, Add

\* An element of the field is its own remainder.
LEMMA SmallRemainder ==
  ASSUME NEW a \in Field
  PROVE  (a % PRIME) = a
BY PrimeFacts DEF Field

\* The field is a commutative group under addition,
LEMMA AddLaws ==
  ASSUME NEW a \in Field, NEW b \in Field, NEW c \in Field
  PROVE  /\ Add(a, b) = Add(b, a)
         /\ Add(a, Add(b, c)) = Add(Add(a, b), c)
         /\ Add(a, 0) = a /\ Add(0, a) = a
         /\ Add(a, Neg(a)) = 0
<1>1. a \in Int /\ b \in Int /\ c \in Int /\ PRIME \in Int
  BY PrimeFacts
<1>2. Add(a, b) = Add(b, a)
  <2>1. a + b = b + a
    BY <1>1
  <2> QED BY <2>1 DEF Add
<1>3. Add(a, Add(b, c)) = Add(Add(a, b), c)
  <2>1. b + c \in Int /\ a + b \in Int
    BY <1>1
  <2>2. ((a + ((b + c) % PRIME)) % PRIME) = ((a + (b + c)) % PRIME)
    BY <1>1, <2>1, SumIn
  <2>3. ((((a + b) % PRIME) + c) % PRIME) = (((a + b) + c) % PRIME)
    BY <1>1, <2>1, SumIn
  <2>4. a + (b + c) = (a + b) + c
    BY <1>1
  <2> QED BY <2>2, <2>3, <2>4 DEF Add
<1>4. Add(a, 0) = a /\ Add(0, a) = a
  <2>1. a + 0 = a /\ 0 + a = a
    BY <1>1
  <2> QED BY <2>1, SmallRemainder DEF Add
<1>5. Add(a, Neg(a)) = 0
  <2>1. PRIME - a \in Int /\ a + (PRIME - a) = PRIME * 1 + 0
    BY <1>1
  <2>2. ((a + ((PRIME - a) % PRIME)) % PRIME) = ((a + (PRIME - a)) % PRIME)
    BY <1>1, <2>1, SumIn
  <2>3. ((a + (PRIME - a)) % PRIME) = 0
    <3>1. a + (PRIME - a) \in Int /\ 0 \in Field
      BY <1>1, PrimeFacts
    <3> QED BY <2>1, <3>1, RemainderLaw
  <2> QED BY <2>2, <2>3 DEF Add, Neg
<1> QED BY <1>2, <1>3, <1>4, <1>5

\* a commutative monoid under multiplication, which distributes over it.
LEMMA MulLaws ==
  ASSUME NEW a \in Field, NEW b \in Field, NEW c \in Field
  PROVE  /\ Mul(a, b) = Mul(b, a)
         /\ Mul(a, Mul(b, c)) = Mul(Mul(a, b), c)
         /\ Mul(a, 1) = a /\ Mul(1, a) = a
         /\ Mul(a, 0) = 0 /\ Mul(0, a) = 0
         /\ Mul(a, Add(b, c)) = Add(Mul(a, b), Mul(a, c))
<1>1. a \in Int /\ b \in Int /\ c \in Int /\ PRIME \in Int
  BY PrimeFacts
<1>2. Mul(a, b) = Mul(b, a)
  <2>1. a * b = b * a
    BY <1>1
  <2> QED BY <2>1 DEF Mul
<1>3. Mul(a, Mul(b, c)) = Mul(Mul(a, b), c)
  <2>1. b * c \in Int /\ a * b \in Int
    BY <1>1
  <2>2. ((a * ((b * c) % PRIME)) % PRIME) = ((a * (b * c)) % PRIME)
    BY <1>1, <2>1, ProductIn
  <2>3. ((((a * b) % PRIME) * c) % PRIME) = (((a * b) * c) % PRIME)
    BY <1>1, <2>1, ProductIn
  <2>4. a * (b * c) = (a * b) * c
    BY <1>1
  <2> QED BY <2>2, <2>3, <2>4 DEF Mul
<1>4. Mul(a, 1) = a /\ Mul(1, a) = a
  <2>1. a * 1 = a /\ 1 * a = a
    BY <1>1
  <2> QED BY <2>1, SmallRemainder DEF Mul
<1>5. Mul(a, 0) = 0 /\ Mul(0, a) = 0
  <2>1. a * 0 = 0 /\ 0 * a = 0
    BY <1>1
  <2>2. (0 % PRIME) = 0
    BY SmallRemainder, PrimeFacts
  <2> QED BY <2>1, <2>2 DEF Mul
<1>6. Mul(a, Add(b, c)) = Add(Mul(a, b), Mul(a, c))
  <2> DEFINE u == a * b
  <2> DEFINE v == a * c
  <2>1. b + c \in Int /\ u \in Int /\ v \in Int /\ a * (b + c) = u + v
    BY <1>1
  <2>2. Mul(a, b) = (u % PRIME) /\ Mul(a, c) = (v % PRIME)
    BY DEF Mul
  <2>3. Mul(a, Add(b, c)) = ((a * (b + c)) % PRIME)
    BY <1>1, <2>1, ProductIn DEF Mul, Add
  <2> HIDE DEF u, v
  <2>4. ((u + v) % PRIME) = (((u % PRIME) + v) % PRIME)
    BY <2>1, SumIn
  <2>5. (((u % PRIME) + v) % PRIME) = (((u % PRIME) + (v % PRIME)) % PRIME)
    <3>1. (u % PRIME) \in Int
      BY <2>1, PrimeFacts
    <3> QED BY <2>1, <3>1, SumIn
  <2> QED BY <2>1, <2>2, <2>3, <2>4, <2>5 DEF Add
<1> QED BY <1>2, <1>3, <1>4, <1>5, <1>6

\* Four summands.
LEMMA Regroup ==
  ASSUME NEW a \in Field, NEW b \in Field, NEW u \in Field, NEW v \in Field
  PROVE  Add(Add(a, b), Add(u, v)) = Add(Add(a, u), Add(b, v))
<1>1. Add(u, v) \in Field /\ Add(b, u) \in Field /\ Add(b, v) \in Field /\ Add(a, u) \in Field
  BY FieldIsClosed
<1>2. Add(Add(a, b), Add(u, v)) = Add(a, Add(b, Add(u, v)))
  BY <1>1, AddLaws
<1>3. Add(b, Add(u, v)) = Add(Add(b, u), v) /\ Add(b, u) = Add(u, b)
  BY AddLaws
<1>4. Add(Add(u, b), v) = Add(u, Add(b, v))
  BY AddLaws
<1>5. Add(a, Add(u, Add(b, v))) = Add(Add(a, u), Add(b, v))
  BY <1>1, AddLaws
<1> QED BY <1>2, <1>3, <1>4, <1>5

\* Negation and subtraction.
LEMMA NegLaws ==
  ASSUME NEW a \in Field, NEW b \in Field
  PROVE  /\ Add(a, b) = 0 => b = Neg(a)
         /\ Add(Neg(a), a) = 0
         /\ Sub(a, a) = 0 /\ Sub(a, 0) = a
         /\ (Sub(a, b) = 0 => a = b)
         /\ Add(Sub(a, b), b) = a
         /\ Mul(Neg(a), b) = Neg(Mul(a, b)) /\ Mul(a, Neg(b)) = Neg(Mul(a, b))
         /\ Sub(a, b) = Neg(Sub(b, a))
<1>0. Neg(a) \in Field /\ Neg(b) \in Field /\ Mul(a, b) \in Field /\ 0 \in Field
  BY FieldIsClosed, PrimeFacts
<1>1. \A x, y \in Field : Add(x, y) = 0 => y = Neg(x)
  <2> SUFFICES ASSUME NEW x \in Field, NEW y \in Field, Add(x, y) = 0 PROVE y = Neg(x)
    OBVIOUS
  <2>0. Neg(x) \in Field
    BY FieldIsClosed
  <2>1. Add(Add(Neg(x), x), y) = Add(Neg(x), Add(x, y))
    BY <2>0, AddLaws
  <2>2. Add(Neg(x), x) = 0
    BY <2>0, AddLaws
  <2>3. Add(0, y) = y /\ Add(Neg(x), 0) = Neg(x)
    BY <2>0, AddLaws
  <2> QED BY <2>1, <2>2, <2>3
<1>2. Add(Neg(a), a) = 0 /\ Add(a, Neg(a)) = 0 /\ Add(Neg(b), b) = 0
  BY <1>0, AddLaws
<1>3. Sub(a, a) = 0
  BY <1>2 DEF Sub
<1>4. Neg(0) = 0
  <2>1. Add(0, 0) = 0
    BY <1>0, AddLaws
  <2> QED BY <1>0, <1>1, <2>1
<1>5. Sub(a, 0) = a
  BY <1>4, AddLaws DEF Sub
<1>6. Add(Sub(a, b), b) = a
  <2>1. Add(Add(a, Neg(b)), b) = Add(a, Add(Neg(b), b))
    BY <1>0, AddLaws
  <2>2. Add(a, 0) = a
    BY AddLaws
  <2> QED BY <1>2, <2>1, <2>2 DEF Sub
<1>7. Sub(a, b) = 0 => a = b
  <2>1. Add(0, b) = b
    BY AddLaws
  <2> QED BY <1>6, <2>1
<1>8. Mul(a, Neg(b)) = Neg(Mul(a, b))
  <2>1. Add(Mul(a, b), Mul(a, Neg(b))) = Mul(a, Add(b, Neg(b)))
    BY <1>0, MulLaws
  <2>2. Add(b, Neg(b)) = 0 /\ Mul(a, 0) = 0
    BY AddLaws, MulLaws
  <2>3. Mul(a, Neg(b)) \in Field
    BY <1>0, FieldIsClosed
  <2> QED BY <1>0, <1>1, <2>1, <2>2, <2>3
<1>9. Mul(Neg(a), b) = Neg(Mul(a, b))
  <2>1. Add(Mul(b, a), Mul(b, Neg(a))) = Mul(b, Add(a, Neg(a)))
    BY <1>0, MulLaws
  <2>2. Mul(b, 0) = 0 /\ Mul(b, a) = Mul(a, b) /\ Mul(b, Neg(a)) = Mul(Neg(a), b)
    BY <1>0, MulLaws
  <2>3. Mul(b, Neg(a)) \in Field
    BY <1>0, FieldIsClosed
  <2> QED BY <1>0, <1>1, <1>2, <2>1, <2>2, <2>3
<1>10. Sub(a, b) = Neg(Sub(b, a))
  <2>1. Sub(b, a) \in Field /\ Sub(a, b) \in Field
    BY FieldIsClosed
  <2>2. Add(Add(b, Neg(a)), Add(a, Neg(b))) = Add(Add(b, Neg(a)), Add(Neg(b), a))
    BY <1>0, AddLaws
  <2>3. Add(Add(b, Neg(a)), Add(Neg(b), a)) = Add(Add(b, Neg(b)), Add(Neg(a), a))
    BY <1>0, Regroup
  <2>4. Add(b, Neg(b)) = 0 /\ Add(0, 0) = 0
    BY <1>0, AddLaws
  <2>5. Add(Sub(b, a), Sub(a, b)) = 0
    BY <1>2, <2>2, <2>3, <2>4 DEF Sub
  <2> QED BY <1>1, <2>1, <2>5
<1> QED BY <1>1, <1>2, <1>3, <1>5, <1>6, <1>7, <1>8, <1>9, <1>10

\* PRIME divides no product of two smaller numbers: the least d with d * b
\* divisible by it would divide PRIME.
LEMMA NoZeroDivisors ==
  ASSUME NEW a \in Field, NEW b \in Field, Mul(a, b) = 0, b # 0
  PROVE  a = 0
<1> SUFFICES ASSUME a # 0 PROVE FALSE
  OBVIOUS
<1>0. a \in Nat /\ b \in Nat /\ a < PRIME /\ b < PRIME /\ PRIME \in Nat /\ PRIME > 1
  BY PrimeFacts DEF Field
<1> DEFINE T == {d \in Nat : d > 0 /\ Mul(d, b) = 0}
<1>1. a \in T
  BY <1>0
<1>2. PICK d \in T : \A e \in T : d <= e
  <2>1. T \in SUBSET Nat /\ T # {}
    BY <1>1
  <2> HIDE DEF T
  <2> QED BY <2>1, LeastNatural
<1>3. d \in Nat /\ d > 0 /\ d <= a /\ ((d * b) % PRIME) = 0
  BY <1>1, <1>2 DEF Mul
<1>4. d # 1
  <2>1. 1 * b = b /\ (b % PRIME) = b
    BY <1>0, SmallRemainder
  <2> QED BY <1>3, <2>1
<1>5. d \in 2 .. PRIME - 1
  BY <1>0, <1>3, <1>4
<1> DEFINE q == PRIME \div d
<1> DEFINE r == PRIME % d
<1>6. q \in Int /\ r \in 0 .. d - 1 /\ PRIME = d * q + r
  BY <1>0, <1>3
<1>7. r # 0
  BY <1>5, FieldAssumption
<1> DEFINE s == (d * b) \div PRIME
<1>8. s \in Int /\ d * b = PRIME * s
  <2>1. d * b \in Int
    BY <1>0, <1>3
  <2>2. s \in Int /\ d * b = PRIME * s + ((d * b) % PRIME)
    BY <2>1, DivisionLaw
  <2>3. PRIME * s \in Int
    BY <1>0, <2>2
  <2> HIDE DEF s
  <2> QED BY <1>3, <2>2, <2>3
<1> HIDE DEF q, r, s
<1>9. r * b = PRIME * (b - q * s) + 0
  <2>1. r = PRIME - d * q
    BY <1>0, <1>3, <1>6
  <2>2. r * b = (PRIME - d * q) * b
    BY <2>1
  <2>3. (PRIME - d * q) * b = PRIME * b - (d * b) * q
    BY <1>0, <1>3, <1>6
  <2>4. (d * b) * q = (PRIME * s) * q
    BY <1>8
  <2>5. PRIME * b - (PRIME * s) * q = PRIME * (b - q * s) + 0
    BY <1>0, <1>6, <1>8
  <2> QED BY <2>2, <2>3, <2>4, <2>5
<1>10. ((r * b) % PRIME) = 0
  <2>1. r * b \in Int /\ b - q * s \in Int /\ 0 \in Field
    BY <1>0, <1>6, <1>8, PrimeFacts
  <2> QED BY <1>9, <2>1, RemainderLaw
<1>11. r \in T
  BY <1>6, <1>7, <1>10 DEF Mul
<1>12. d <= r
  BY <1>2, <1>11
<1> QED BY <1>3, <1>6, <1>12
\* A factor that is not 0 can be cancelled.
LEMMA MulCancel ==
  ASSUME NEW a \in Field, NEW b \in Field, NEW c \in Field, a # 0, Mul(a, b) = Mul(a, c)
  PROVE  b = c
<1>1. Sub(b, c) \in Field /\ Neg(c) \in Field
  BY FieldIsClosed
<1>2. Mul(a, Sub(b, c)) = Add(Mul(a, b), Mul(a, Neg(c)))
  BY <1>1, MulLaws DEF Sub
<1>3. Mul(a, Neg(c)) = Neg(Mul(a, c))
  BY NegLaws
<1>4. Mul(a, c) \in Field
  BY FieldIsClosed
<1>5. Add(Mul(a, c), Neg(Mul(a, c))) = 0
  BY <1>4, AddLaws
<1>6. Mul(Sub(b, c), a) = 0
  BY <1>1, <1>2, <1>3, <1>5, MulLaws
<1>7. Sub(b, c) = 0
  BY <1>1, <1>6, NoZeroDivisors
<1> QED BY <1>7, NegLaws

\* pow(a, -1, PRIME): in the field of a prime every other number than 0 has an
\* inverse, because multiplying by it is one-to-one.
LEMMA InverseLaw ==
  ASSUME NEW a \in Field, a # 0
  PROVE  InverseModPrime(a) \in Field /\ Mul(a, InverseModPrime(a)) = 1
<1> DEFINE f == [b \in Field |-> Mul(a, b)]
<1>1. f \in [Field -> Field]
  BY FieldIsClosed
<1>2. \A b, c \in Field : f[b] = f[c] => b = c
  BY MulCancel
<1>3. f \in Injection(Field, Field)
  BY <1>1, <1>2 DEF Injection, IsInjective
<1>4. IsFiniteSet(Field)
  BY FS_Interval, PrimeFacts DEF Field
<1>5. f \in Surjection(Field, Field)
  BY <1>3, <1>4, FS_Injection
<1>6. \E b \in Field : f[b] = 1
  BY <1>5, PrimeFacts DEF Surjection
<1>7. \E b \in Field : (a * b) % PRIME = 1
  BY <1>6 DEF Mul
<1> QED BY <1>7 DEF InverseModPrime, Mul

\* Values in the field.
FieldMap(f, S) == \A x \in S : f[x] \in Field

\* One more summand, in the field.
LEMMA SumOne ==
  ASSUME NEW S, IsFiniteSet(S), NEW x, x \notin S, NEW f, FieldMap(f, S \cup {x})
  PROVE  /\ SumOver(S \cup {x}, f) = Add(f[x], SumOver(S, f))
         /\ SumOver(S, f) \in Field /\ f[x] \in Field
<1>1. NatMap(f, S \cup {x}) /\ f[x] \in Field
  BY PrimeFacts DEF NatMap, FieldMap
<1> QED BY <1>1, SumOverOne DEF Add

\* One more factor, in the field.
LEMMA ProductOne ==
  ASSUME NEW S, IsFiniteSet(S), NEW x, x \notin S, NEW f, FieldMap(f, S \cup {x})
  PROVE  /\ ProductOver(S \cup {x}, f) = Mul(f[x], ProductOver(S, f))
         /\ ProductOver(S, f) \in Field /\ f[x] \in Field
<1>1. NatMap(f, S \cup {x}) /\ f[x] \in Field
  BY PrimeFacts DEF NatMap, FieldMap
<1> QED BY <1>1, ProductOverOne DEF Mul

\* The empty sum and the empty product.
LEMMA OverNothing ==
  ASSUME NEW f
  PROVE  SumOver({}, f) = 0 /\ ProductOver({}, f) = 1
<1>1. NatMap(f, {}) /\ IsFiniteSet({})
  BY FS_EmptySet DEF NatMap
<1> QED BY <1>1, SumOverLaw, ProductOverLaw

\* Sums and products of elements of the field are in it.
LEMMA OverInField ==
  ASSUME NEW S, IsFiniteSet(S), NEW f, FieldMap(f, S)
  PROVE  SumOver(S, f) \in Field /\ ProductOver(S, f) \in Field
<1>1. NatMap(f, S)
  BY PrimeFacts DEF NatMap, FieldMap
<1> QED BY <1>1, SumOverLaw, ProductOverLaw

\* g = c * f + d * h
Combines(g, c, f, d, h, S) == \A x \in S : g[x] = Add(Mul(c, f[x]), Mul(d, h[x]))

\* A sum is linear in its summands.
LEMMA SumLinear ==
  ASSUME NEW S, IsFiniteSet(S), NEW f, NEW g, NEW h, NEW c \in Field, NEW d \in Field,
         FieldMap(f, S), FieldMap(g, S), FieldMap(h, S), Combines(g, c, f, d, h, S)
  PROVE  SumOver(S, g) = Add(Mul(c, SumOver(S, f)), Mul(d, SumOver(S, h)))
<1> DEFINE P == {T \in SUBSET S :
                    SumOver(T, g) = Add(Mul(c, SumOver(T, f)), Mul(d, SumOver(T, h)))}
<1>1. {} \in P
  <2>1. Mul(c, 0) = 0 /\ Mul(d, 0) = 0 /\ Add(0, 0) = 0
    BY MulLaws, AddLaws, PrimeFacts
  <2> QED BY <2>1, OverNothing
<1>2. ASSUME NEW T \in P, NEW x \in S \ T PROVE T \cup {x} \in P
  <2>1. /\ IsFiniteSet(T) /\ x \notin T /\ x \in S
        /\ FieldMap(f, T \cup {x}) /\ FieldMap(g, T \cup {x}) /\ FieldMap(h, T \cup {x})
    BY FS_Subset DEF FieldMap
  <2> DEFINE F == SumOver(T, f)
  <2> DEFINE H == SumOver(T, h)
  <2> DEFINE a == f[x]
  <2> DEFINE b == h[x]
  <2>2. SumOver(T \cup {x}, f) = Add(a, F) /\ F \in Field /\ a \in Field
    BY <2>1, SumOne
  <2>3. SumOver(T \cup {x}, h) = Add(b, H) /\ H \in Field /\ b \in Field
    BY <2>1, SumOne
  <2>4. SumOver(T \cup {x}, g) = Add(g[x], SumOver(T, g))
    BY <2>1, SumOne
  <2>5. SumOver(T, g) = Add(Mul(c, F), Mul(d, H))
    OBVIOUS
  <2>6. g[x] = Add(Mul(c, a), Mul(d, b))
    BY <2>1 DEF Combines
  <2> HIDE DEF F, H, a, b
  <2>7. Mul(c, a) \in Field /\ Mul(d, b) \in Field /\ Mul(c, F) \in Field /\ Mul(d, H) \in Field
    BY <2>2, <2>3, FieldIsClosed
  <2>8. Add(Add(Mul(c, a), Mul(d, b)), Add(Mul(c, F), Mul(d, H)))
          = Add(Add(Mul(c, a), Mul(c, F)), Add(Mul(d, b), Mul(d, H)))
    BY <2>7, Regroup
  <2>9. /\ Mul(c, Add(a, F)) = Add(Mul(c, a), Mul(c, F))
        /\ Mul(d, Add(b, H)) = Add(Mul(d, b), Mul(d, H))
    BY <2>2, <2>3, MulLaws
  <2>10. SumOver(T \cup {x}, g)
          = Add(Mul(c, SumOver(T \cup {x}, f)), Mul(d, SumOver(T \cup {x}, h)))
    BY <2>2, <2>3, <2>4, <2>5, <2>6, <2>8, <2>9
  <2> HIDE DEF P
  <2>11. T \cup {x} \in SUBSET S
    BY <2>1 DEF P
  <2> QED BY <2>10, <2>11 DEF P
<1>3. P = SUBSET S
  <2>1. P \in SUBSET SUBSET S
    OBVIOUS
  <2> HIDE DEF P
  <2> QED BY <1>1, <1>2, <2>1, FiniteByElements
<1> QED BY <1>3

\* A sum of zeros.
LEMMA SumZero ==
  ASSUME NEW S, IsFiniteSet(S), NEW f, \A x \in S : f[x] = 0
  PROVE  SumOver(S, f) = 0
<1>1. FieldMap(f, S) /\ 0 \in Field
  BY PrimeFacts DEF FieldMap
<1>2. Combines(f, 0, f, 0, f, S)
  <2>1. Mul(0, 0) = 0 /\ Add(0, 0) = 0
    BY <1>1, MulLaws, AddLaws
  <2> QED BY <2>1 DEF Combines
<1>3. SumOver(S, f) \in Field
  BY <1>1, OverInField
<1>4. SumOver(S, f) = Add(Mul(0, SumOver(S, f)), Mul(0, SumOver(S, f)))
  BY <1>1, <1>2, SumLinear
<1>5. Mul(0, SumOver(S, f)) = 0 /\ Add(0, 0) = 0
  BY <1>1, <1>3, MulLaws, AddLaws
<1> QED BY <1>4, <1>5

\* A product of factors that are not 0 is not 0.
LEMMA ProductNotZero ==
  ASSUME NEW S, IsFiniteSet(S), NEW f, FieldMap(f, S), \A x \in S : f[x] # 0
  PROVE  ProductOver(S, f) # 0
<1> DEFINE P == {T \in SUBSET S : ProductOver(T, f) # 0}
<1>1. {} \in P
  BY OverNothing
<1>2. ASSUME NEW T \in P, NEW x \in S \ T PROVE T \cup {x} \in P
  <2>1. IsFiniteSet(T) /\ x \notin T /\ x \in S /\ FieldMap(f, T \cup {x})
    BY FS_Subset DEF FieldMap
  <2>2. /\ ProductOver(T \cup {x}, f) = Mul(f[x], ProductOver(T, f))
        /\ ProductOver(T, f) \in Field /\ f[x] \in Field
    BY <2>1, ProductOne
  <2>3. f[x] # 0 /\ ProductOver(T, f) # 0
    BY <2>1
  <2>4. ProductOver(T \cup {x}, f) # 0
    BY <2>2, <2>3, NoZeroDivisors
  <2> QED BY <2>4
<1>3. P = SUBSET S
  <2>1. P \in SUBSET SUBSET S
    OBVIOUS
  <2> HIDE DEF P
  <2> QED BY <1>1, <1>2, <2>1, FiniteByElements
<1> QED BY <1>3

-----------------------------------------------------------------------------
(* Interpolation at 0, on a set J of points with the x-values X.            *)

\* The factors of a basis value, and the value itself: what the point j contributes.
NegOf(X) == [i \in DOMAIN X |-> Neg(X[i])]
DiffOf(X, j) == [i \in DOMAIN X |-> Sub(X[j], X[i])]

Basis(X, J, j) ==
  Mul(ProductOver(J \ {j}, NegOf(X)),
      InverseModPrime(ProductOver(J \ {j}, DiffOf(X, j))))

\* The interpolated value at 0 of the values F.
Weighted(X, J, F) == SumOver(J, [j \in J |-> Mul(F[j], Basis(X, J, j))])

\* Points with different x-coordinates, none of them 0.
Distinct(X, J) ==
  /\ J \subseteq DOMAIN X
  /\ \A i \in J : X[i] \in Field /\ X[i] # 0
  /\ \A i, j \in J : X[i] = X[j] => i = j

\* The two products of a basis value, the second of which can be inverted.
LEMMA BasisParts ==
  ASSUME NEW X, NEW J, IsFiniteSet(J), Distinct(X, J), NEW j \in J
  PROVE  /\ FieldMap(NegOf(X), J) /\ FieldMap(DiffOf(X, j), J)
         /\ ProductOver(J \ {j}, NegOf(X)) \in Field
         /\ ProductOver(J \ {j}, DiffOf(X, j)) \in Field
         /\ ProductOver(J \ {j}, DiffOf(X, j)) # 0
         /\ Basis(X, J, j) \in Field
<1> DEFINE others == J \ {j}
<1>1. IsFiniteSet(others)
  BY FS_Subset
<1>2. ASSUME NEW i \in J
      PROVE  /\ NegOf(X)[i] = Neg(X[i]) /\ DiffOf(X, j)[i] = Sub(X[j], X[i])
             /\ NegOf(X)[i] \in Field /\ DiffOf(X, j)[i] \in Field
  <2>1. i \in DOMAIN X /\ X[i] \in Field /\ X[j] \in Field
    BY DEF Distinct
  <2> QED BY <2>1, FieldIsClosed DEF NegOf, DiffOf
<1>3. FieldMap(NegOf(X), J) /\ FieldMap(DiffOf(X, j), J)
  BY <1>2 DEF FieldMap
<1>4. FieldMap(NegOf(X), others) /\ FieldMap(DiffOf(X, j), others)
  BY <1>2 DEF FieldMap
<1>5. \A i \in others : DiffOf(X, j)[i] # 0
  <2> SUFFICES ASSUME NEW i \in others, Sub(X[j], X[i]) = 0 PROVE FALSE
    BY <1>2
  <2>1. X[j] \in Field /\ X[i] \in Field /\ X[i] # X[j]
    BY DEF Distinct
  <2> QED BY <2>1, NegLaws
<1> HIDE DEF others
<1>6. ProductOver(others, NegOf(X)) \in Field /\ ProductOver(others, DiffOf(X, j)) \in Field
  BY <1>1, <1>4, OverInField
<1>7. ProductOver(others, DiffOf(X, j)) # 0
  BY <1>1, <1>4, <1>5, ProductNotZero
<1>8. InverseModPrime(ProductOver(others, DiffOf(X, j))) \in Field
  BY <1>6, <1>7, InverseLaw
<1>9. Basis(X, J, j) \in Field
  BY <1>6, <1>8, FieldIsClosed DEF Basis, others
<1> QED BY <1>3, <1>6, <1>7, <1>9 DEF others

\* The algebra of BasisStep.
LEMMA BasisAlgebra ==
  ASSUME NEW s \in Field, NEW d \in Field, NEW w \in Field, NEW v \in Field,
         NEW x \in Field, NEW n \in Field, d # 0, Mul(Mul(s, d), w) = 1, Mul(d, v) = 1
  PROVE  Mul(Neg(s), Mul(Mul(Neg(x), n), w)) = Mul(x, Mul(n, v))
<1>1. Mul(s, w) = v
  <2>1. Mul(d, Mul(s, w)) = Mul(Mul(d, s), w) /\ Mul(d, s) = Mul(s, d)
    BY MulLaws
  <2>2. Mul(s, w) \in Field
    BY FieldIsClosed
  <2> QED BY <2>1, <2>2, MulCancel
<1>2. Neg(s) \in Field /\ Neg(x) \in Field /\ Mul(n, w) \in Field /\ Mul(x, Mul(n, w)) \in Field
  BY FieldIsClosed
<1>3. Mul(Mul(Neg(x), n), w) = Mul(Neg(x), Mul(n, w))
  BY <1>2, MulLaws
<1>4. Mul(Neg(x), Mul(n, w)) = Neg(Mul(x, Mul(n, w)))
  BY <1>2, NegLaws
<1>5. Mul(Neg(s), Neg(Mul(x, Mul(n, w)))) = Neg(Mul(Neg(s), Mul(x, Mul(n, w))))
  BY <1>2, NegLaws
<1>6. Mul(Neg(s), Mul(x, Mul(n, w))) = Neg(Mul(s, Mul(x, Mul(n, w))))
  BY <1>2, NegLaws
<1>7. Neg(Neg(Mul(s, Mul(x, Mul(n, w))))) = Mul(s, Mul(x, Mul(n, w)))
  <2> DEFINE a == Mul(s, Mul(x, Mul(n, w)))
  <2>1. a \in Field
    BY <1>2, FieldIsClosed
  <2> HIDE DEF a
  <2>2. Neg(a) \in Field /\ Add(Neg(a), a) = 0
    BY <2>1, FieldIsClosed, NegLaws
  <2>3. a = Neg(Neg(a))
    BY <2>1, <2>2, NegLaws
  <2> QED BY <2>3 DEF a
<1>8. Mul(s, Mul(x, Mul(n, w))) = Mul(x, Mul(n, Mul(s, w)))
  <2>1. Mul(s, Mul(x, Mul(n, w))) = Mul(Mul(s, x), Mul(n, w))
    BY <1>2, MulLaws
  <2>2. Mul(s, x) = Mul(x, s)
    BY MulLaws
  <2>3. Mul(Mul(x, s), Mul(n, w)) = Mul(x, Mul(s, Mul(n, w)))
    BY <1>2, MulLaws
  <2>4. Mul(s, Mul(n, w)) = Mul(Mul(s, n), w) /\ Mul(s, n) = Mul(n, s)
    BY MulLaws
  <2>5. Mul(Mul(n, s), w) = Mul(n, Mul(s, w))
    BY MulLaws
  <2> QED BY <2>1, <2>2, <2>3, <2>4, <2>5
<1> QED BY <1>1, <1>3, <1>4, <1>5, <1>6, <1>7, <1>8

\* A point fewer: the factor the point z adds to the basis polynomial of j.
LEMMA BasisStep ==
  ASSUME NEW X, NEW J, IsFiniteSet(J), Distinct(X, J), NEW z \in J, NEW j \in J, j # z
  PROVE  Mul(Sub(X[z], X[j]), Basis(X, J, j)) = Mul(X[z], Basis(X, J \ {z}, j))
<1> DEFINE K == J \ {z}
<1> DEFINE rest == K \ {j}
<1>1. IsFiniteSet(K) /\ IsFiniteSet(rest)
  BY FS_Subset
<1>2. Distinct(X, K) /\ j \in K
  BY DEF Distinct
<1>3. J \ {j} = rest \cup {z} /\ z \notin rest /\ rest \cup {z} \subseteq J
  OBVIOUS
<1>4. X[z] \in Field /\ X[j] \in Field /\ z \in DOMAIN X
  BY DEF Distinct
<1> HIDE DEF K
<1>5. FieldMap(NegOf(X), J) /\ FieldMap(DiffOf(X, j), J)
  BY BasisParts
<1> HIDE DEF rest
<1>6. FieldMap(NegOf(X), rest \cup {z}) /\ FieldMap(DiffOf(X, j), rest \cup {z})
  BY <1>3, <1>5 DEF FieldMap
<1> DEFINE n == ProductOver(rest, NegOf(X))
<1> DEFINE d == ProductOver(rest, DiffOf(X, j))
<1> DEFINE s == Sub(X[j], X[z])
<1>7. ProductOver(J \ {j}, NegOf(X)) = Mul(Neg(X[z]), n) /\ n \in Field
  <2>1. ProductOver(rest \cup {z}, NegOf(X)) = Mul(NegOf(X)[z], n) /\ n \in Field
    BY <1>1, <1>3, <1>6, ProductOne
  <2>2. NegOf(X)[z] = Neg(X[z])
    BY <1>4 DEF NegOf
  <2> QED BY <1>3, <2>1, <2>2
<1>8. ProductOver(J \ {j}, DiffOf(X, j)) = Mul(s, d) /\ d \in Field /\ s \in Field
  <2>1. ProductOver(rest \cup {z}, DiffOf(X, j)) = Mul(DiffOf(X, j)[z], d) /\ d \in Field
    BY <1>1, <1>3, <1>6, ProductOne
  <2>2. DiffOf(X, j)[z] = s
    BY <1>4 DEF DiffOf
  <2>3. s \in Field
    BY <1>4, FieldIsClosed
  <2> QED BY <1>3, <2>1, <2>2, <2>3
<1>9. d # 0
  <2>1. ProductOver(K \ {j}, DiffOf(X, j)) # 0
    BY <1>1, <1>2, BasisParts
  <2> QED BY <2>1 DEF rest
<1> DEFINE w == InverseModPrime(Mul(s, d))
<1> DEFINE v == InverseModPrime(d)
<1>10. Mul(s, d) \in Field /\ Mul(s, d) # 0
  BY <1>8, BasisParts
<1>11. Basis(X, J, j) = Mul(Mul(Neg(X[z]), n), w)
  BY <1>7, <1>8 DEF Basis
<1>12. Basis(X, K, j) = Mul(n, v)
  BY DEF Basis, rest
<1> HIDE DEF n, d
<1>13. w \in Field /\ Mul(Mul(s, d), w) = 1
  BY <1>10, InverseLaw
<1>14. v \in Field /\ Mul(d, v) = 1
  BY <1>8, <1>9, InverseLaw
<1>15. Sub(X[z], X[j]) = Neg(s)
  BY <1>4, NegLaws
<1> HIDE DEF w, v, s
<1>16. Mul(Neg(s), Mul(Mul(Neg(X[z]), n), w)) = Mul(X[z], Mul(n, v))
  BY <1>4, <1>7, <1>8, <1>9, <1>13, <1>14, BasisAlgebra
<1> QED BY <1>11, <1>12, <1>15, <1>16 DEF K
\* Interpolation is linear in the y-values.
LEMMA WeightedLinear ==
  ASSUME NEW X, NEW J, IsFiniteSet(J), Distinct(X, J), NEW F, NEW G, NEW H,
         NEW c \in Field, NEW d \in Field,
         FieldMap(F, J), FieldMap(G, J), FieldMap(H, J), Combines(G, c, F, d, H, J)
  PROVE  /\ Weighted(X, J, G) = Add(Mul(c, Weighted(X, J, F)), Mul(d, Weighted(X, J, H)))
         /\ Weighted(X, J, F) \in Field /\ Weighted(X, J, G) \in Field
         /\ Weighted(X, J, H) \in Field
<1> DEFINE f == [j \in J |-> Mul(F[j], Basis(X, J, j))]
<1> DEFINE g == [j \in J |-> Mul(G[j], Basis(X, J, j))]
<1> DEFINE h == [j \in J |-> Mul(H[j], Basis(X, J, j))]
<1>1. ASSUME NEW j \in J
      PROVE  /\ f[j] \in Field /\ g[j] \in Field /\ h[j] \in Field
             /\ g[j] = Add(Mul(c, f[j]), Mul(d, h[j]))
  <2> DEFINE b == Basis(X, J, j)
  <2>1. b \in Field /\ F[j] \in Field /\ G[j] \in Field /\ H[j] \in Field
    BY BasisParts DEF FieldMap
  <2>2. G[j] = Add(Mul(c, F[j]), Mul(d, H[j]))
    BY DEF Combines
  <2>3. f[j] = Mul(F[j], b) /\ g[j] = Mul(G[j], b) /\ h[j] = Mul(H[j], b)
    OBVIOUS
  <2> HIDE DEF b, f, g, h
  <2>4. Mul(c, F[j]) \in Field /\ Mul(d, H[j]) \in Field
    BY <2>1, FieldIsClosed
  <2>5. Mul(b, Add(Mul(c, F[j]), Mul(d, H[j]))) = Add(Mul(b, Mul(c, F[j])), Mul(b, Mul(d, H[j])))
    BY <2>1, <2>4, MulLaws
  <2>6. Mul(b, Mul(c, F[j])) = Mul(c, Mul(F[j], b)) /\ Mul(b, Mul(d, H[j])) = Mul(d, Mul(H[j], b))
    <3>1. Mul(b, Mul(c, F[j])) = Mul(Mul(c, F[j]), b) /\ Mul(b, Mul(d, H[j])) = Mul(Mul(d, H[j]), b)
      BY <2>1, <2>4, MulLaws
    <3>2. Mul(Mul(c, F[j]), b) = Mul(c, Mul(F[j], b)) /\ Mul(Mul(d, H[j]), b) = Mul(d, Mul(H[j], b))
      BY <2>1, MulLaws
    <3> QED BY <3>1, <3>2
  <2>7. Mul(G[j], b) = Mul(b, G[j])
    BY <2>1, MulLaws
  <2>8. f[j] \in Field /\ g[j] \in Field /\ h[j] \in Field
    <3>1. Mul(F[j], b) \in Field /\ Mul(G[j], b) \in Field /\ Mul(H[j], b) \in Field
      BY <2>1, FieldIsClosed
    <3> QED BY <2>3, <3>1
  <2> QED BY <2>2, <2>3, <2>5, <2>6, <2>7, <2>8
<1> HIDE DEF f, g, h
<1>2. FieldMap(f, J) /\ FieldMap(g, J) /\ FieldMap(h, J) /\ Combines(g, c, f, d, h, J)
  BY <1>1 DEF FieldMap, Combines
<1>3. SumOver(J, g) = Add(Mul(c, SumOver(J, f)), Mul(d, SumOver(J, h)))
  BY <1>2, SumLinear
<1>4. SumOver(J, f) \in Field /\ SumOver(J, g) \in Field /\ SumOver(J, h) \in Field
  BY <1>2, OverInField
<1> QED BY <1>3, <1>4 DEF Weighted, f, g, h

\* The algebra of one summand in WeightedStep.
LEMMA TermAlgebra ==
  ASSUME NEW a \in Field, NEW b \in Field, NEW u \in Field, NEW v \in Field
  PROVE  Mul(u, Mul(Sub(a, b), v)) = Add(Mul(a, Mul(u, v)), Mul(Neg(1), Mul(Mul(b, u), v)))
<1>1. Neg(b) \in Field /\ Neg(1) \in Field /\ 1 \in Field
  BY FieldIsClosed, PrimeFacts
<1>2. Mul(u, v) \in Field /\ Sub(a, b) \in Field
  BY FieldIsClosed
<1>3. Mul(u, Mul(Sub(a, b), v)) = Mul(Mul(u, v), Add(a, Neg(b)))
  <2>1. Mul(Sub(a, b), v) = Mul(v, Sub(a, b))
    BY <1>2, MulLaws
  <2>2. Mul(u, Mul(v, Sub(a, b))) = Mul(Mul(u, v), Sub(a, b))
    BY <1>2, MulLaws
  <2> QED BY <2>1, <2>2 DEF Sub
<1>4. Mul(Mul(u, v), Add(a, Neg(b))) = Add(Mul(Mul(u, v), a), Mul(Mul(u, v), Neg(b)))
  BY <1>1, <1>2, MulLaws
<1>5. Mul(Mul(u, v), a) = Mul(a, Mul(u, v))
  BY <1>2, MulLaws
<1>6. Mul(Mul(u, v), Neg(b)) = Mul(Neg(1), Mul(Mul(b, u), v))
  <2>1. Mul(Mul(u, v), Neg(b)) = Neg(Mul(Mul(u, v), b))
    BY <1>2, NegLaws
  <2>2. Mul(Mul(u, v), b) = Mul(b, Mul(u, v)) /\ Mul(b, Mul(u, v)) = Mul(Mul(b, u), v)
    BY <1>2, MulLaws
  <2>3. Mul(b, Mul(u, v)) \in Field
    BY <1>2, FieldIsClosed
  <2>4. Mul(Neg(1), Mul(b, Mul(u, v))) = Neg(Mul(1, Mul(b, Mul(u, v))))
    BY <1>1, <2>3, NegLaws
  <2>5. Mul(1, Mul(b, Mul(u, v))) = Mul(b, Mul(u, v))
    BY <2>3, MulLaws
  <2> QED BY <2>1, <2>2, <2>4, <2>5
<1> QED BY <1>3, <1>4, <1>5, <1>6

\* Multiplying the values by x, against leaving out the point z.
LEMMA WeightedStep ==
  ASSUME NEW X, NEW J, IsFiniteSet(J), Distinct(X, J), NEW z \in J, NEW F, NEW G,
         FieldMap(F, J), \A j \in J : G[j] = Mul(X[j], F[j])
  PROVE  /\ Sub(Mul(X[z], Weighted(X, J, F)), Weighted(X, J, G))
              = Mul(X[z], Weighted(X, J \ {z}, F))
         /\ Weighted(X, J, F) \in Field /\ Weighted(X, J, G) \in Field
         /\ Weighted(X, J \ {z}, F) \in Field
<1> DEFINE K == J \ {z}
<1>1. IsFiniteSet(K) /\ Distinct(X, K) /\ K \cup {z} = J /\ z \notin K /\ K \subseteq J
  BY FS_Subset DEF Distinct
<1> HIDE DEF K
<1>2. \A j \in J : X[j] \in Field /\ F[j] \in Field /\ Basis(X, J, j) \in Field
  BY BasisParts DEF Distinct, FieldMap
<1>3. \A j \in K : Basis(X, K, j) \in Field
  BY <1>1, BasisParts
<1> DEFINE f == [j \in J |-> Mul(F[j], Basis(X, J, j))]
<1> DEFINE h == [j \in J |-> Mul(G[j], Basis(X, J, j))]
<1> DEFINE g == [j \in J |-> Mul(F[j], Mul(Sub(X[z], X[j]), Basis(X, J, j)))]
<1> DEFINE e == [j \in K |-> Mul(F[j], Basis(X, K, j))]
<1>4. ASSUME NEW j \in J
      PROVE  /\ f[j] \in Field /\ g[j] \in Field /\ h[j] \in Field
             /\ g[j] = Add(Mul(X[z], f[j]), Mul(Neg(1), h[j]))
  <2> DEFINE b == Basis(X, J, j)
  <2>1. f[j] = Mul(F[j], b) /\ h[j] = Mul(Mul(X[j], F[j]), b)
        /\ g[j] = Mul(F[j], Mul(Sub(X[z], X[j]), b))
    OBVIOUS
  <2>2. b \in Field /\ X[j] \in Field /\ X[z] \in Field /\ F[j] \in Field
    BY <1>2
  <2> HIDE DEF b, f, g, h
  <2>3. g[j] = Add(Mul(X[z], f[j]), Mul(Neg(1), h[j]))
    BY <2>1, <2>2, TermAlgebra
  <2>4. Mul(X[j], F[j]) \in Field /\ Sub(X[z], X[j]) \in Field
    BY <2>2, FieldIsClosed
  <2>5. Mul(Sub(X[z], X[j]), b) \in Field
    BY <2>2, <2>4, FieldIsClosed
  <2>6. f[j] \in Field /\ g[j] \in Field /\ h[j] \in Field
    BY <2>1, <2>2, <2>4, <2>5, FieldIsClosed
  <2> QED BY <2>3, <2>6
<1>5. g[z] = 0
  <2>1. Sub(X[z], X[z]) = 0 /\ Mul(0, Basis(X, J, z)) = 0 /\ Mul(F[z], 0) = 0
    BY <1>2, NegLaws, MulLaws
  <2> QED BY <2>1
<1>6. ASSUME NEW j \in K
      PROVE  e[j] \in Field /\ g[j] = Add(Mul(X[z], e[j]), Mul(0, e[j]))
  <2> DEFINE b == Basis(X, K, j)
  <2>1. b \in Field /\ X[z] \in Field /\ F[j] \in Field /\ j \in J /\ j # z
    BY <1>1, <1>2, <1>3
  <2>2. Mul(Sub(X[z], X[j]), Basis(X, J, j)) = Mul(X[z], b)
    BY <2>1, BasisStep DEF K
  <2>3. g[j] = Mul(F[j], Mul(X[z], b)) /\ e[j] = Mul(F[j], b)
    BY <2>1, <2>2
  <2> HIDE DEF b, e, g
  <2>4. Mul(F[j], Mul(X[z], b)) = Mul(X[z], Mul(F[j], b))
    <3>1. Mul(F[j], Mul(X[z], b)) = Mul(Mul(F[j], X[z]), b) /\ Mul(F[j], X[z]) = Mul(X[z], F[j])
      BY <2>1, MulLaws
    <3>2. Mul(Mul(X[z], F[j]), b) = Mul(X[z], Mul(F[j], b))
      BY <2>1, MulLaws
    <3> QED BY <3>1, <3>2
  <2>5. e[j] \in Field /\ Mul(X[z], e[j]) \in Field
    BY <2>1, <2>3, FieldIsClosed
  <2>6. Mul(0, e[j]) = 0 /\ Add(Mul(X[z], e[j]), 0) = Mul(X[z], e[j])
    BY <2>5, MulLaws, AddLaws
  <2> QED BY <2>3, <2>4, <2>5, <2>6
<1>7. X[z] \in Field /\ Neg(1) \in Field /\ 0 \in Field /\ 1 \in Field
  BY <1>2, FieldIsClosed, PrimeFacts
<1>8. Weighted(X, J, F) = SumOver(J, f) /\ Weighted(X, J, G) = SumOver(J, h)
      /\ Weighted(X, K, F) = SumOver(K, e)
  BY DEF Weighted
<1> HIDE DEF f, g, h, e
<1>9. SumOver(J, g) = Add(Mul(X[z], SumOver(J, f)), Mul(Neg(1), SumOver(J, h)))
  <2>1. FieldMap(f, J) /\ FieldMap(g, J) /\ FieldMap(h, J) /\ Combines(g, X[z], f, Neg(1), h, J)
    BY <1>4 DEF FieldMap, Combines
  <2> QED BY <1>7, <2>1, SumLinear
<1>10. SumOver(K, g) = Add(Mul(X[z], SumOver(K, e)), Mul(0, SumOver(K, e)))
  <2>1. FieldMap(e, K) /\ FieldMap(g, K) /\ Combines(g, X[z], e, 0, e, K)
    BY <1>1, <1>4, <1>6 DEF FieldMap, Combines
  <2> QED BY <1>1, <1>7, <2>1, SumLinear
<1>11. SumOver(J, g) = Add(0, SumOver(K, g)) /\ SumOver(K, g) \in Field
  <2>1. FieldMap(g, K \cup {z})
    BY <1>1, <1>4 DEF FieldMap
  <2> QED BY <1>1, <1>5, <2>1, SumOne
<1>12. SumOver(J, f) \in Field /\ SumOver(J, h) \in Field /\ SumOver(K, e) \in Field
  <2>1. FieldMap(f, J) /\ FieldMap(h, J) /\ FieldMap(e, K)
    BY <1>4, <1>6 DEF FieldMap
  <2> QED BY <1>1, <2>1, OverInField
<1> DEFINE p == SumOver(K, e)
<1> DEFINE q == SumOver(J, h)
<1>13. Add(Mul(X[z], p), Mul(0, p)) = Mul(X[z], p) /\ Mul(X[z], p) \in Field
  <2>1. Mul(0, p) = 0 /\ Mul(X[z], p) \in Field
    BY <1>7, <1>12, MulLaws, FieldIsClosed
  <2> QED BY <2>1, AddLaws
<1>14. Mul(Neg(1), q) = Neg(q)
  <2>1. Mul(Neg(1), q) = Neg(Mul(1, q)) /\ Mul(1, q) = q
    BY <1>7, <1>12, NegLaws, MulLaws
  <2> QED BY <2>1
<1>15. Add(0, SumOver(K, g)) = SumOver(K, g)
  BY <1>11, AddLaws
<1>16. Sub(Mul(X[z], SumOver(J, f)), q) = Mul(X[z], p)
  BY <1>9, <1>10, <1>11, <1>13, <1>14, <1>15 DEF Sub
<1> QED BY <1>8, <1>12, <1>16 DEF K
\* 1 is its own inverse.
LEMMA InverseOfOne == InverseModPrime(1) = 1
<1>1. 1 \in Field /\ 1 # 0
  BY PrimeFacts
<1>2. InverseModPrime(1) \in Field /\ Mul(1, InverseModPrime(1)) = 1
  BY <1>1, InverseLaw
<1> QED BY <1>1, <1>2, MulLaws

\* The algebra of WeightedOfOne.
LEMMA ScaleAlgebra ==
  ASSUME NEW a \in Field, NEW b \in Field, NEW u \in Field, NEW v \in Field, a # b,
         Sub(Mul(a, u), v) = a, Sub(Mul(b, u), v) = b
  PROVE  u = 1
<1>1. Mul(a, u) \in Field /\ Mul(b, u) \in Field /\ Neg(b) \in Field /\ Neg(v) \in Field
  BY FieldIsClosed
<1>2. Mul(a, u) = Add(a, v) /\ Mul(b, u) = Add(b, v)
  BY <1>1, NegLaws
<1>3. Mul(u, Sub(a, b)) = Add(Mul(u, a), Neg(Mul(u, b)))
  <2>1. Mul(u, Add(a, Neg(b))) = Add(Mul(u, a), Mul(u, Neg(b)))
    BY <1>1, MulLaws
  <2>2. Mul(u, Neg(b)) = Neg(Mul(u, b))
    BY NegLaws
  <2> QED BY <2>1, <2>2 DEF Sub
<1>4. Mul(u, a) = Add(a, v) /\ Mul(u, b) = Add(b, v)
  BY <1>2, MulLaws
<1>5. Sub(Add(a, v), Add(b, v)) = Sub(a, b)
  <2> DEFINE s == Add(b, v)
  <2>1. s \in Field /\ Sub(a, b) \in Field /\ Neg(s) \in Field
    BY FieldIsClosed
  <2>2. Add(Sub(a, b), s) = Add(a, v)
    <3>1. Add(Sub(a, b), Add(b, v)) = Add(Add(Sub(a, b), b), v) /\ Add(Sub(a, b), b) = a
      BY <2>1, AddLaws, NegLaws
    <3> QED BY <3>1
  <2> HIDE DEF s
  <2>3. Add(Add(Sub(a, b), s), Neg(s)) = Add(Sub(a, b), Add(s, Neg(s)))
    BY <2>1, AddLaws
  <2>4. Add(s, Neg(s)) = 0 /\ Add(Sub(a, b), 0) = Sub(a, b)
    BY <2>1, AddLaws
  <2>5. Sub(Add(a, v), s) = Sub(a, b)
    BY <2>2, <2>3, <2>4 DEF Sub
  <2> QED BY <2>5 DEF s
<1>6. Mul(u, Sub(a, b)) = Sub(a, b)
  BY <1>3, <1>4, <1>5 DEF Sub
<1>7. Sub(a, b) \in Field /\ Sub(a, b) # 0
  BY FieldIsClosed, NegLaws
<1>8. Mul(Sub(a, b), u) = Mul(Sub(a, b), 1)
  BY <1>6, <1>7, MulLaws
<1> QED BY <1>7, <1>8, MulCancel, PrimeFacts

\* What can be subtracted without effect is 0.
LEMMA SubSelf ==
  ASSUME NEW a \in Field, NEW v \in Field, Sub(a, v) = a
  PROVE  v = 0
<1>1. Add(a, v) = a
  BY NegLaws
<1>2. Neg(a) \in Field
  BY FieldIsClosed
<1>4. Add(Add(Neg(a), a), v) = Add(Neg(a), Add(a, v))
  BY <1>2, AddLaws
<1>3. Add(Neg(a), a) = 0 /\ Add(0, v) = v
  BY NegLaws, AddLaws
<1> QED BY <1>1, <1>3, <1>4

\* The value at 0 of the constant 1: the basis polynomials add up to it.
LEMMA WeightedOfOne ==
  ASSUME NEW X, NEW J, IsFiniteSet(J), Distinct(X, J), J # {}, NEW one, \A j \in J : one[j] = 1
  PROVE  Weighted(X, J, one) = 1
<1> DEFINE N == {n \in Nat : \A T \in SUBSET J : Cardinality(T) = n + 1 => Weighted(X, T, one) = 1}
<1>0. 1 \in Field /\ 0 \in Field
  BY PrimeFacts
<1>1. 0 \in N
  <2> SUFFICES ASSUME NEW T \in SUBSET J, Cardinality(T) = 0 + 1 PROVE Weighted(X, T, one) = 1
    OBVIOUS
  <2>1. IsFiniteSet(T) /\ Cardinality(T) = 1
    BY FS_Subset
  <2>2. PICK j : T = {j}
    BY <2>1, FS_Singleton
  <2>3. T \ {j} = {} /\ j \in J /\ {j} = {} \cup {j} /\ j \notin {}
    BY <2>2
  <2>4. Basis(X, T, j) = Mul(1, InverseModPrime(1))
    BY <2>3, OverNothing DEF Basis
  <2>5. Basis(X, T, j) = 1
    BY <1>0, <2>4, InverseOfOne, MulLaws
  <2> DEFINE f == [i \in T |-> Mul(one[i], Basis(X, T, i))]
  <2>6. f[j] = 1
    BY <1>0, <2>2, <2>3, <2>5, MulLaws
  <2>7. Weighted(X, T, one) = SumOver(T, f)
    BY DEF Weighted
  <2> HIDE DEF f
  <2>8. FieldMap(f, {} \cup {j}) /\ IsFiniteSet({})
    BY <1>0, <2>6, FS_EmptySet DEF FieldMap
  <2>9. SumOver({} \cup {j}, f) = Add(f[j], SumOver({}, f))
    BY <2>3, <2>8, SumOne
  <2>10. Add(1, 0) = 1
    BY <1>0, AddLaws
  <2> QED BY <2>2, <2>3, <2>6, <2>7, <2>9, <2>10, OverNothing
<1>2. ASSUME NEW n \in Nat, n \in N PROVE n + 1 \in N
  <2>0. \A T \in SUBSET J : Cardinality(T) = n + 1 => Weighted(X, T, one) = 1
    BY <1>2
  <2> SUFFICES ASSUME NEW T \in SUBSET J, Cardinality(T) = (n + 1) + 1 PROVE Weighted(X, T, one) = 1
    OBVIOUS
  <2>1. IsFiniteSet(T) /\ Distinct(X, T)
    BY FS_Subset DEF Distinct
  <2>2. \A z \in T : Cardinality(T \ {z}) = n + 1
    <3> SUFFICES ASSUME NEW z \in T PROVE Cardinality(T \ {z}) = n + 1
      OBVIOUS
    <3>1. Cardinality(T \ {z}) = Cardinality(T) - 1
      BY <2>1, FS_RemoveElement
    <3> QED BY <3>1
  <2>3. T # {}
    <3>1. (n + 1) + 1 # 0 /\ Cardinality({}) = 0
      BY FS_EmptySet
    <3> QED BY <3>1
  <2>4. PICK z \in T : TRUE
    BY <2>3
  <2>5. T \ {z} # {}
    <3>1. n + 1 # 0 /\ Cardinality({}) = 0 /\ Cardinality(T \ {z}) = n + 1
      BY <2>2, <2>4, FS_EmptySet
    <3> QED BY <3>1
  <2>6. PICK w \in T : w # z
    BY <2>5
  <2> DEFINE G == [j \in T |-> Mul(X[j], one[j])]
  <2>7. FieldMap(one, T) /\ \A j \in T : G[j] = Mul(X[j], one[j])
    BY <1>0 DEF FieldMap
  <2> HIDE DEF G
  <2>8. ASSUME NEW y \in T
        PROVE  /\ Sub(Mul(X[y], Weighted(X, T, one)), Weighted(X, T, G)) = X[y]
               /\ Weighted(X, T, one) \in Field /\ Weighted(X, T, G) \in Field
               /\ X[y] \in Field
    <3>1. Weighted(X, T \ {y}, one) = 1
      BY <2>0, <2>2
    <3>2. X[y] \in Field
      BY <2>1 DEF Distinct
    <3>3. Mul(X[y], 1) = X[y]
      BY <3>2, MulLaws
    <3> QED BY <2>1, <2>7, <3>1, <3>2, <3>3, WeightedStep
  <2>9. X[z] # X[w]
    BY <2>1, <2>4, <2>6 DEF Distinct
  <2> QED BY <2>4, <2>6, <2>8, <2>9, ScaleAlgebra
<1>3. N = Nat
  <2> HIDE DEF N
  <2>1. N \in SUBSET Nat
    BY DEF N
  <2> QED BY <1>1, <1>2, <2>1, NaturalsBySteps
<1>4. Cardinality(J) \in Nat /\ Cardinality(J) # 0
  BY FS_CardinalityType, FS_EmptySet
<1>5. Cardinality(J) - 1 \in N /\ Cardinality(J) = (Cardinality(J) - 1) + 1
  BY <1>3, <1>4
<1> QED BY <1>5

\* Power(x, n), a product over 1 .. n, is the n-th power.
LEMMA PowerLaw ==
  ASSUME NEW x \in Field, NEW n \in Nat
  PROVE  /\ Power(x, 0) = 1
         /\ Power(x, n) \in Field
         /\ Power(x, n + 1) = Mul(x, Power(x, n))
<1> DEFINE f == [i \in 1 .. n + 1 |-> x]
<1>1. [i \in 1 .. n |-> x] = [y \in 1 .. n |-> f[y]]
  OBVIOUS
<1>2. [i \in 1 .. n + 1 |-> x] = [y \in 1 .. n + 1 |-> f[y]]
  OBVIOUS
<1>3. Power(x, n) = ProductOver(1 .. n, f) /\ Power(x, n + 1) = ProductOver(1 .. n + 1, f)
  BY <1>1, <1>2 DEF Power, ProductOver
<1>4. Power(x, 0) = ProductOver({}, f)
  <2>1. 1 .. 0 = {} /\ [i \in 1 .. 0 |-> x] = [y \in {} |-> f[y]]
    OBVIOUS
  <2> QED BY <2>1 DEF Power, ProductOver
<1>5. 1 .. n + 1 = (1 .. n) \cup {n + 1} /\ n + 1 \notin 1 .. n /\ IsFiniteSet(1 .. n)
  BY FS_Interval
<1>6. FieldMap(f, (1 .. n) \cup {n + 1}) /\ f[n + 1] = x
  BY DEF FieldMap
<1> HIDE DEF f
<1>7. /\ ProductOver((1 .. n) \cup {n + 1}, f) = Mul(f[n + 1], ProductOver(1 .. n, f))
      /\ ProductOver(1 .. n, f) \in Field
  BY <1>5, <1>6, ProductOne
<1> QED BY <1>3, <1>4, <1>5, <1>6, <1>7, OverNothing

\* ... and of every power of x below the number of points.
LEMMA WeightedOfPower ==
  ASSUME NEW X, NEW J, IsFiniteSet(J), Distinct(X, J), NEW m \in Nat, Cardinality(J) > m
  PROVE  Weighted(X, J, [j \in J |-> Power(X[j], m)]) = IF m = 0 THEN 1 ELSE 0
<1> DEFINE W(T, k) == Weighted(X, T, [j \in J |-> Power(X[j], k)])
<1> DEFINE N == {k \in Nat : \A T \in SUBSET J :
                    Cardinality(T) > k => W(T, k) = IF k = 0 THEN 1 ELSE 0}
<1>0. \A j \in J : X[j] \in Field
  BY DEF Distinct
<1>1. 0 \in N
  <2> SUFFICES ASSUME NEW T \in SUBSET J, Cardinality(T) > 0 PROVE W(T, 0) = 1
    OBVIOUS
  <2>1. IsFiniteSet(T) /\ Distinct(X, T)
    BY FS_Subset DEF Distinct
  <2>2. T # {}
    BY FS_EmptySet
  <2> DEFINE F == [j \in J |-> Power(X[j], 0)]
  <2>3. \A j \in T : F[j] = 1
    BY <1>0, PowerLaw
  <2> HIDE DEF F
  <2>4. Weighted(X, T, F) = 1
    BY <2>1, <2>2, <2>3, WeightedOfOne
  <2> QED BY <2>4 DEF F
<1>2. ASSUME NEW k \in Nat, k \in N PROVE k + 1 \in N
  <2>0. \A T \in SUBSET J : Cardinality(T) > k => W(T, k) = IF k = 0 THEN 1 ELSE 0
    BY <1>2
  <2> SUFFICES ASSUME NEW T \in SUBSET J, Cardinality(T) > k + 1 PROVE W(T, k + 1) = 0
    OBVIOUS
  <2>1. IsFiniteSet(T) /\ Distinct(X, T) /\ Cardinality(T) \in Nat
    <3>1. IsFiniteSet(T)
      BY FS_Subset
    <3> QED BY <3>1, FS_CardinalityType DEF Distinct
  <2>2. T # {}
    BY FS_EmptySet
  <2>3. PICK z \in T : TRUE
    BY <2>2
  <2>4. Cardinality(T \ {z}) > k /\ Cardinality(T) > k
    <3>1. Cardinality(T \ {z}) = Cardinality(T) - 1
      BY <2>1, <2>3, FS_RemoveElement
    <3> QED BY <2>1, <3>1
  <2> DEFINE c == IF k = 0 THEN 1 ELSE 0
  <2>5. W(T, k) = c /\ W(T \ {z}, k) = c /\ c \in Field
    BY <2>0, <2>4, PrimeFacts
  <2> HIDE DEF c
  <2> DEFINE F == [j \in J |-> Power(X[j], k)]
  <2> DEFINE G == [j \in J |-> Power(X[j], k + 1)]
  <2>6. FieldMap(F, T) /\ \A j \in T : G[j] = Mul(X[j], F[j])
    BY <1>0, PowerLaw DEF FieldMap
  <2>7. Weighted(X, T, F) = c /\ Weighted(X, T \ {z}, F) = c
    BY <2>5
  <2>8. W(T, k + 1) = Weighted(X, T, G)
    OBVIOUS
  <2> HIDE DEF F, G, W
  <2>9. Sub(Mul(X[z], c), Weighted(X, T, G)) = Mul(X[z], c) /\ Weighted(X, T, G) \in Field
    BY <2>1, <2>3, <2>6, <2>7, WeightedStep
  <2>10. Mul(X[z], c) \in Field
    BY <1>0, <2>3, <2>5, FieldIsClosed
  <2> QED BY <2>8, <2>9, <2>10, SubSelf
<1>3. N = Nat
  <2> HIDE DEF N
  <2>1. N \in SUBSET Nat
    BY DEF N
  <2> QED BY <1>1, <1>2, <2>1, NaturalsBySteps
<1>4. m \in N /\ J \in SUBSET J
  BY <1>3
<1> QED BY <1>4
\* The polynomial of degree m with coefficients c.
Poly(x, c, m) == SumOver(0 .. m, [i \in 0 .. m |-> Mul(Power(x, i), c[i])])

\* A polynomial is its highest term and one of lower degree.
LEMMA PolyLaw ==
  ASSUME NEW x \in Field, NEW m \in Nat, NEW c, FieldMap(c, 0 .. m)
  PROVE  /\ Poly(x, c, m) \in Field
         /\ m = 0 => Poly(x, c, m) = c[0]
         /\ m > 0 => Poly(x, c, m) = Add(Mul(Power(x, m), c[m]), Poly(x, c, m - 1))
<1> DEFINE f == [i \in 0 .. m |-> Mul(Power(x, i), c[i])]
<1>1. FieldMap(f, 0 .. m)
  <2> SUFFICES ASSUME NEW i \in 0 .. m PROVE Mul(Power(x, i), c[i]) \in Field
    BY DEF FieldMap
  <2>1. c[i] \in Field
    BY DEF FieldMap
  <2>2. Power(x, i) \in Field
    BY PowerLaw
  <2> QED BY <2>1, <2>2, FieldIsClosed
<1>2. IsFiniteSet(0 .. m) /\ Poly(x, c, m) = SumOver(0 .. m, f)
  BY FS_Interval DEF Poly
<1>3. Poly(x, c, m) \in Field
  <2> HIDE DEF f
  <2> QED BY <1>1, <1>2, OverInField
<1>4. ASSUME m = 0 PROVE Poly(x, c, m) = c[0]
  <2>1. f[0] = c[0] /\ c[0] \in Field
    <3>1. c[0] \in Field
      BY DEF FieldMap
    <3>2. Power(x, 0) = 1
      BY PowerLaw
    <3>3. f[0] = Mul(1, c[0])
      BY <3>2
    <3> QED BY <3>1, <3>3, MulLaws
  <2>2. 0 .. m = {} \cup {0} /\ 0 \notin {} /\ IsFiniteSet({})
    BY <1>4, FS_EmptySet
  <2> HIDE DEF f
  <2>3. SumOver({} \cup {0}, f) = Add(f[0], SumOver({}, f))
    <3>1. FieldMap(f, {} \cup {0})
      BY <1>1, <2>2 DEF FieldMap
    <3> QED BY <2>2, <3>1, SumOne
  <2>4. Add(c[0], 0) = c[0]
    BY <2>1, AddLaws
  <2> QED BY <1>2, <2>1, <2>2, <2>3, <2>4, OverNothing
<1>5. ASSUME m > 0 PROVE Poly(x, c, m) = Add(Mul(Power(x, m), c[m]), Poly(x, c, m - 1))
  <2>1. 0 .. m = (0 .. m - 1) \cup {m} /\ m \notin 0 .. m - 1 /\ IsFiniteSet(0 .. m - 1)
    <3>1. 0 .. m = (0 .. m - 1) \cup {m} /\ m \notin 0 .. m - 1
      BY <1>5
    <3>2. 0 \in Int /\ m - 1 \in Int
      OBVIOUS
    <3>3. IsFiniteSet(0 .. m - 1)
      BY <3>2, FS_Interval
    <3> QED BY <3>1, <3>3
  <2>2. f[m] = Mul(Power(x, m), c[m])
    OBVIOUS
  <2>3. SumOver(0 .. m - 1, f) = Poly(x, c, m - 1)
    <3>1. [y \in 0 .. m - 1 |-> f[y]]
            = [y \in 0 .. m - 1 |-> [i \in 0 .. m - 1 |-> Mul(Power(x, i), c[i])][y]]
      <4>1. \A y \in 0 .. m - 1 :
              f[y] = [i \in 0 .. m - 1 |-> Mul(Power(x, i), c[i])][y]
        BY <1>5
      <4> QED BY <4>1
    <3> QED BY <3>1 DEF Poly, SumOver
  <2> HIDE DEF f
  <2>4. FieldMap(f, (0 .. m - 1) \cup {m})
    BY <1>1, <2>1 DEF FieldMap
  <2>5. SumOver((0 .. m - 1) \cup {m}, f) = Add(f[m], SumOver(0 .. m - 1, f))
    BY <2>1, <2>4, SumOne
  <2> QED BY <1>2, <2>1, <2>2, <2>3, <2>5
<1> QED BY <1>3, <1>4, <1>5

\* A polynomial of degree m, interpolated at 0 from more than m points, gives its
\* constant.
LEMMA Interpolation ==
  ASSUME NEW X, NEW J, IsFiniteSet(J), Distinct(X, J), NEW m \in Nat, Cardinality(J) > m,
         NEW c, FieldMap(c, 0 .. m)
  PROVE  Weighted(X, J, [j \in J |-> Poly(X[j], c, m)]) = c[0]
<1> DEFINE F(k) == [j \in J |-> Poly(X[j], c, k)]
<1> DEFINE G(k) == [j \in J |-> Power(X[j], k)]
<1> DEFINE N == {k \in Nat : k <= m => Weighted(X, J, F(k)) = c[0]}
<1>0. /\ Cardinality(J) \in Nat /\ 0 \in Field /\ 1 \in Field
      /\ \A j \in J : X[j] \in Field
  BY FS_CardinalityType, PrimeFacts DEF Distinct
<1>1. ASSUME NEW k \in Nat, k <= m
      PROVE  /\ Weighted(X, J, G(k)) = IF k = 0 THEN 1 ELSE 0
             /\ FieldMap(c, 0 .. k) /\ c[k] \in Field
             /\ FieldMap(F(k), J) /\ FieldMap(G(k), J)
  <2>1. Cardinality(J) > k
    BY <1>0, <1>1
  <2>2. Weighted(X, J, G(k)) = IF k = 0 THEN 1 ELSE 0
    BY <2>1, WeightedOfPower
  <2>3. FieldMap(c, 0 .. k) /\ c[k] \in Field
    BY <1>1 DEF FieldMap
  <2>4. \A j \in J : Poly(X[j], c, k) \in Field /\ Power(X[j], k) \in Field
    BY <1>0, <2>3, PolyLaw, PowerLaw
  <2>5. FieldMap(F(k), J) /\ FieldMap(G(k), J)
    BY <2>4 DEF FieldMap
  <2> HIDE DEF F, G
  <2> QED BY <2>2, <2>3, <2>5
<1>2. 0 \in N
  <2>1. /\ Weighted(X, J, G(0)) = 1 /\ FieldMap(c, 0 .. 0) /\ c[0] \in Field
        /\ FieldMap(F(0), J) /\ FieldMap(G(0), J)
    <3>1. 0 \in Nat /\ 0 <= m
      OBVIOUS
    <3> HIDE DEF F, G
    <3> QED BY <1>1, <3>1
  <2>2. Combines(F(0), c[0], G(0), 0, G(0), J)
    <3> SUFFICES ASSUME NEW j \in J
                 PROVE  Poly(X[j], c, 0) = Add(Mul(c[0], Power(X[j], 0)), Mul(0, Power(X[j], 0)))
      BY DEF Combines
    <3>1. Poly(X[j], c, 0) = c[0] /\ Power(X[j], 0) = 1
      <4>1. X[j] \in Field /\ 0 \in Nat
        BY <1>0
      <4>2. Poly(X[j], c, 0) = c[0]
        BY <2>1, <4>1, PolyLaw
      <4>3. Power(X[j], 0) = 1
        BY <4>1, PowerLaw
      <4> QED BY <4>2, <4>3
    <3>2. Mul(c[0], 1) = c[0] /\ Mul(0, 1) = 0 /\ Add(c[0], 0) = c[0]
      BY <1>0, <2>1, MulLaws, AddLaws
    <3> QED BY <3>1, <3>2
  <2> HIDE DEF F, G
  <2>3. Weighted(X, J, F(0)) = Add(Mul(c[0], 1), Mul(0, 1))
    BY <1>0, <2>1, <2>2, WeightedLinear
  <2>4. Mul(c[0], 1) = c[0] /\ Mul(0, 1) = 0 /\ Add(c[0], 0) = c[0]
    BY <1>0, <2>1, MulLaws, AddLaws
  <2> QED BY <2>3, <2>4
<1>3. ASSUME NEW k \in Nat, k \in N PROVE k + 1 \in N
  <2> SUFFICES ASSUME k + 1 <= m PROVE Weighted(X, J, F(k + 1)) = c[0]
    OBVIOUS
  <2>1. Weighted(X, J, F(k)) = c[0] /\ k <= m /\ k + 1 # 0 /\ k + 1 > 0 /\ (k + 1) - 1 = k
    BY <1>3
  <2>2. FieldMap(F(k), J)
    BY <1>1, <2>1
  <2>3. /\ Weighted(X, J, G(k + 1)) = 0 /\ FieldMap(c, 0 .. k + 1) /\ c[k + 1] \in Field
        /\ FieldMap(F(k + 1), J) /\ FieldMap(G(k + 1), J)
    BY <1>1, <2>1
  <2>4. Combines(F(k + 1), c[k + 1], G(k + 1), 1, F(k), J)
    <3> SUFFICES ASSUME NEW j \in J
                 PROVE  Poly(X[j], c, k + 1)
                          = Add(Mul(c[k + 1], Power(X[j], k + 1)), Mul(1, Poly(X[j], c, k)))
      BY DEF Combines
    <3>1. Poly(X[j], c, k + 1) = Add(Mul(Power(X[j], k + 1), c[k + 1]), Poly(X[j], c, (k + 1) - 1))
      BY <1>0, <2>1, <2>3, PolyLaw
    <3>2. Power(X[j], k + 1) \in Field /\ Poly(X[j], c, k) \in Field
      BY <2>2, <2>3 DEF FieldMap
    <3>3. Mul(1, Poly(X[j], c, k)) = Poly(X[j], c, k)
      BY <3>2, MulLaws
    <3>4. Mul(Power(X[j], k + 1), c[k + 1]) = Mul(c[k + 1], Power(X[j], k + 1))
      BY <2>3, <3>2, MulLaws
    <3> QED BY <2>1, <3>1, <3>3, <3>4
  <2> HIDE DEF F, G
  <2>5. /\ Weighted(X, J, F(k + 1)) = Add(Mul(c[k + 1], 0), Mul(1, c[0]))
        /\ Weighted(X, J, F(k)) \in Field
    <3>1. /\ Weighted(X, J, F(k + 1)) = Add(Mul(c[k + 1], Weighted(X, J, G(k + 1))),
                                           Mul(1, Weighted(X, J, F(k))))
          /\ Weighted(X, J, F(k)) \in Field
      BY <1>0, <2>2, <2>3, <2>4, WeightedLinear
    <3> QED BY <2>1, <2>3, <3>1
  <2>6. c[0] \in Field
    BY <2>1, <2>5
  <2>7. Mul(c[k + 1], 0) = 0 /\ Mul(1, c[0]) = c[0] /\ Add(0, c[0]) = c[0]
    BY <2>3, <2>6, MulLaws, AddLaws
  <2> QED BY <2>5, <2>7
<1>4. N = Nat
  <2> HIDE DEF N
  <2>1. N \in SUBSET Nat
    BY DEF N
  <2> QED BY <1>2, <1>3, <2>1, NaturalsBySteps
<1>5. m \in N
  BY <1>4
<1> QED BY <1>5

-----------------------------------------------------------------------------
(* The operators of the model in these terms.                               *)

\* Coordinates of points.
XOf(points) == [j \in DOMAIN points |-> points[j][1]]
YOf(points) == [j \in DOMAIN points |-> points[j][2]]

\* Points with distinct x-values other than 0.
GoodPoints(points) ==
  /\ IsFiniteSet(DOMAIN points)
  /\ Distinct(XOf(points), DOMAIN points)
  /\ \A j \in DOMAIN points : points[j][2] \in Field

\* The model's Lagrange coefficient.
LEMMA LagrangeIsBasis ==
  ASSUME NEW points, GoodPoints(points), NEW j \in DOMAIN points
  PROVE  Lagrange(points, j) = Basis(XOf(points), DOMAIN points, j)
<1> DEFINE D == DOMAIN points
<1> DEFINE X == XOf(points)
<1> DEFINE others == D \ {j}
<1>0. \A i \in D : X[i] = points[i][1] /\ X[i] \in Field
  BY DEF GoodPoints, Distinct, XOf
<1>1. IsFiniteSet(others) /\ DOMAIN X = D
  BY FS_Subset DEF GoodPoints, XOf
<1>2. ProductOf([i \in others |-> PRIME - points[i][1]]) = ProductOver(others, NegOf(X))
  <2> DEFINE f == [i \in others |-> PRIME - points[i][1]]
  <2>1. ASSUME NEW i \in others
        PROVE  /\ f[i] \in Nat /\ NegOf(X)[i] \in Nat
               /\ (f[i] % PRIME) = (NegOf(X)[i] % PRIME)
    <3>1. f[i] = PRIME - X[i] /\ NegOf(X)[i] = Neg(X[i]) /\ X[i] \in Field
      BY <1>0, <1>1 DEF NegOf
    <3>2. PRIME - X[i] \in Nat
      BY <3>1, PrimeFacts DEF Field
    <3>3. Neg(X[i]) \in Field
      BY <3>1, FieldIsClosed
    <3>4. (Neg(X[i]) % PRIME) = Neg(X[i])
      BY <3>3, SmallRemainder
    <3> QED BY <3>1, <3>2, <3>3, <3>4, PrimeFacts DEF Neg
  <2>2. f = [i \in others |-> f[i]]
    OBVIOUS
  <2> HIDE DEF f, others
  <2>3. NatMap(f, others) /\ NatMap(NegOf(X), others)
    BY <2>1 DEF NatMap
  <2>4. ProductOver(others, f) = ProductOver(others, NegOf(X))
    BY <1>1, <2>1, <2>3, ProductCongruent
  <2> QED BY <2>2, <2>4 DEF ProductOver, f
<1>3. ProductOf([i \in others |-> (points[j][1] + PRIME - points[i][1]) % PRIME])
        = ProductOver(others, DiffOf(X, j))
  <2>1. ASSUME NEW i \in others
        PROVE  ((points[j][1] + PRIME - points[i][1]) % PRIME) = DiffOf(X, j)[i]
    <3>1. DiffOf(X, j)[i] = Sub(X[j], X[i]) /\ X[i] \in Int /\ X[j] \in Int /\ PRIME \in Int
      <4>1. i \in D /\ j \in D
        OBVIOUS
      <4> HIDE DEF X, D
      <4>2. DiffOf(X, j)[i] = Sub(X[j], X[i])
        BY <1>1, <4>1 DEF DiffOf
      <4>3. X[i] \in Field /\ X[j] \in Field
        BY <1>0, <4>1
      <4> QED BY <4>2, <4>3, PrimeFacts DEF Field
    <3>2. PRIME - X[i] \in Int /\ X[j] + (PRIME - X[i]) = X[j] + PRIME - X[i]
      BY <3>1
    <3>3. ((X[j] + ((PRIME - X[i]) % PRIME)) % PRIME) = ((X[j] + (PRIME - X[i])) % PRIME)
      BY <3>1, <3>2, SumIn
    <3> QED BY <1>0, <3>1, <3>2, <3>3 DEF Sub, Add, Neg
  <2>2. [i \in others |-> (points[j][1] + PRIME - points[i][1]) % PRIME]
          = [i \in others |-> DiffOf(X, j)[i]]
    BY <2>1
  <2> QED BY <2>2 DEF ProductOver
<1> QED BY <1>2, <1>3 DEF Lagrange, Basis, Mul

\* The model's reconstruction.
LEMMA ReconstructIsWeighted ==
  ASSUME NEW points, GoodPoints(points)
  PROVE  ReconstructSecret(points) = Weighted(XOf(points), DOMAIN points, YOf(points))
<1> DEFINE D == DOMAIN points
<1> DEFINE f == [j \in D |-> points[j][2] * Lagrange(points, j)]
<1> DEFINE g == [j \in D |-> Mul(YOf(points)[j], Basis(XOf(points), D, j))]
<1>1. ASSUME NEW j \in D
      PROVE  f[j] \in Nat /\ g[j] \in Nat /\ (f[j] % PRIME) = (g[j] % PRIME)
  <2> DEFINE b == Basis(XOf(points), D, j)
  <2> DEFINE y == points[j][2]
  <2>1. y \in Field /\ b \in Field
    BY BasisParts DEF GoodPoints
  <2>2. f[j] = y * b /\ g[j] = Mul(y, b)
    BY LagrangeIsBasis DEF YOf
  <2> HIDE DEF b, y, f, g
  <2>3. y * b \in Nat
    <3>1. y \in Nat /\ b \in Nat
      BY <2>1, PrimeFacts
    <3> QED BY <3>1
  <2>4. Mul(y, b) \in Field
    BY <2>1, FieldIsClosed
  <2>5. (Mul(y, b) % PRIME) = Mul(y, b)
    BY <2>4, SmallRemainder
  <2> QED BY <2>2, <2>3, <2>4, <2>5, PrimeFacts DEF Mul
<1>2. ReconstructSecret(points) = SumOf(f) /\ f = [j \in D |-> f[j]]
  BY DEF ReconstructSecret
<1>3. Weighted(XOf(points), D, YOf(points)) = SumOver(D, g)
  BY DEF Weighted
<1> HIDE DEF f, g
<1>4. NatMap(f, D) /\ NatMap(g, D) /\ IsFiniteSet(D)
  BY <1>1 DEF NatMap, GoodPoints
<1>5. SumOver(D, f) = SumOver(D, g)
  BY <1>1, <1>4, SumCongruent
<1> QED BY <1>2, <1>3, <1>5 DEF SumOver

\* The model's polynomial.
LEMMA PolynomIsPoly ==
  ASSUME NEW x \in Field, NEW m \in Nat, NEW c \in [0 .. m -> Field]
  PROVE  Polynom(x, c) = Poly(x, c, m) /\ Polynom(x, c) \in Field
<1> DEFINE D == 0 .. m
<1> DEFINE f == [i \in D |-> Power(x, i) * c[i]]
<1> DEFINE g == [i \in D |-> Mul(Power(x, i), c[i])]
<1>1. ASSUME NEW i \in D
      PROVE  f[i] \in Nat /\ g[i] \in Nat /\ (f[i] % PRIME) = (g[i] % PRIME)
  <2> DEFINE y == Power(x, i)
  <2> DEFINE b == c[i]
  <2>1. b \in Field /\ y \in Field
    <3>1. i \in Nat /\ b \in Field
      OBVIOUS
    <3>2. y \in Field
      BY <3>1, PowerLaw
    <3> QED BY <3>1, <3>2
  <2>2. f[i] = y * b /\ g[i] = Mul(y, b)
    OBVIOUS
  <2> HIDE DEF b, y, f, g
  <2>3. y * b \in Nat
    <3>1. y \in Nat /\ b \in Nat
      BY <2>1, PrimeFacts
    <3> QED BY <3>1
  <2>4. Mul(y, b) \in Field
    BY <2>1, FieldIsClosed
  <2>5. (Mul(y, b) % PRIME) = Mul(y, b)
    BY <2>4, SmallRemainder
  <2> QED BY <2>2, <2>3, <2>4, <2>5, PrimeFacts DEF Mul
<1>2. Polynom(x, c) = SumOf(f) /\ f = [i \in D |-> f[i]]
  BY DEF Polynom
<1>3. Poly(x, c, m) = SumOver(D, g)
  BY DEF Poly
<1> HIDE DEF f, g
<1>4. NatMap(f, D) /\ NatMap(g, D) /\ IsFiniteSet(D)
  BY <1>1, FS_Interval DEF NatMap
<1>5. SumOver(D, f) = SumOver(D, g)
  BY <1>1, <1>4, SumCongruent
<1>6. Poly(x, c, m) \in Field
  <2>1. FieldMap(c, 0 .. m)
    BY DEF FieldMap
  <2> QED BY <2>1, PolyLaw
<1> QED BY <1>2, <1>3, <1>5, <1>6 DEF SumOver

\* Interpolation looks at the values at its points only.
LEMMA WeightedSame ==
  ASSUME NEW X, NEW J, NEW F, NEW G, \A j \in J : F[j] = G[j]
  PROVE  Weighted(X, J, F) = Weighted(X, J, G)
<1>1. [j \in J |-> Mul(F[j], Basis(X, J, j))] = [j \in J |-> Mul(G[j], Basis(X, J, j))]
  OBVIOUS
<1> QED BY <1>1 DEF Weighted

\* More points than the degree of the polynomial they lie on give its constant.
LEMMA ReconstructsConstant ==
  ASSUME NEW points, GoodPoints(points), NEW m \in Nat, NEW c \in [0 .. m -> Field],
         Cardinality(DOMAIN points) > m,
         \A j \in DOMAIN points : points[j][2] = Polynom(points[j][1], c)
  PROVE  ReconstructSecret(points) = c[0]
<1> DEFINE D == DOMAIN points
<1> DEFINE X == XOf(points)
<1>1. ASSUME NEW j \in D
      PROVE  YOf(points)[j] = [i \in D |-> Poly(X[i], c, m)][j]
  <2>1. X[j] = points[j][1] /\ X[j] \in Field
    BY DEF XOf, GoodPoints, Distinct
  <2>2. points[j][2] = Poly(X[j], c, m)
    BY <2>1, PolynomIsPoly
  <2> QED BY <2>2 DEF YOf
<1>2. Weighted(X, D, YOf(points)) = Weighted(X, D, [i \in D |-> Poly(X[i], c, m)])
  BY <1>1, WeightedSame
<1>3. Weighted(X, D, [i \in D |-> Poly(X[i], c, m)]) = c[0]
  <2>1. IsFiniteSet(D) /\ Distinct(X, D) /\ FieldMap(c, 0 .. m)
    BY DEF GoodPoints, FieldMap
  <2> QED BY <2>1, Interpolation
<1> QED BY <1>2, <1>3, ReconstructIsWeighted

-----------------------------------------------------------------------------
(* Packing.                                                                 *)

\* What the assumption on the packing gives.
LEMMA BaseFacts ==
  /\ PRIME \in Nat /\ Base \in Nat /\ Base > 1
  /\ BytesPerInteger \in Nat /\ BytesPerInteger > 0
BY FieldAssumption

\* What from_bytes() has after each byte.
LEMMA FromBytesUnfolds ==
  ASSUME NEW n \in Nat, NEW bytes, Len(bytes) = n, \A i \in 1 .. n : bytes[i] \in 0 .. Base - 1
  PROVE  \E value \in [0 .. n -> Nat] :
            /\ value[0] = 0
            /\ \A i \in 1 .. n : value[i] = value[i - 1] * Base + bytes[i]
            /\ FromBytes(bytes) = value[n]
<1> DEFINE Eq(v) == v = [i \in 0 .. n |-> IF i = 0 THEN 0 ELSE v[i - 1] * Base + bytes[i]]
<1> DEFINE it == CHOOSE v : Eq(v)
<1>1. FromBytes(bytes) = it[n]
  BY DEF FromBytes
<1>2. PICK v \in [0 .. n -> Nat] : Eq(v)
  <2> DEFINE step == [s \in (1 .. n) \X Nat |-> s[2] * Base + bytes[s[1]]]
  <2>1. ASSUME NEW i \in 1 .. n, NEW a \in Nat
        PROVE  step[<<i, a>>] = a * Base + bytes[i] /\ a * Base + bytes[i] \in Nat
    <3>1. bytes[i] \in Nat
      BY BaseFacts
    <3> DEFINE b == bytes[i]
    <3>2. step[<<i, a>>] = a * Base + b
      OBVIOUS
    <3> HIDE DEF b, step
    <3>3. a * Base \in Nat
      BY BaseFacts
    <3>4. a * Base + b \in Nat
      <4>1. b \in Nat
        BY <3>1 DEF b
      <4> QED BY <3>3, <4>1
    <3> QED BY <3>2, <3>4 DEF b
  <2>2. step \in [(1 .. n) \X Nat -> Nat]
    <3>1. \A s \in (1 .. n) \X Nat : s[2] * Base + bytes[s[1]] \in Nat
      BY <2>1
    <3> QED BY <3>1
  <2> HIDE DEF step, Eq, it
  <2> DEFINE base == 0
  <2>3. base \in Nat
    OBVIOUS
  <2> HIDE DEF base
  <2>4. PICK h : Iteration(h, n, Nat, base, step)
    <3>1. IsStep(step, n, Nat)
      BY <2>2 DEF IsStep
    <3> QED BY <2>3, <3>1, IterationExists
  <2>5. ASSUME NEW i \in 0 .. n
        PROVE  h[i] = IF i = 0 THEN 0 ELSE h[i - 1] * Base + bytes[i]
    <3>1. CASE i = 0
      BY <2>4, <3>1 DEF base, Iteration
    <3>2. CASE i # 0
      <4>1. i \in 1 .. n /\ i - 1 \in 0 .. n
        BY <3>2
      <4>2. h[i - 1] \in Nat /\ h[i] = step[<<i, h[i - 1]>>]
        BY <2>4, <4>1 DEF Iteration
      <4>3. h[i] = h[i - 1] * Base + bytes[i]
        BY <2>1, <4>1, <4>2
      <4> QED BY <3>2, <4>3
    <3> QED BY <3>1, <3>2
  <2>6. Eq(h)
    BY <2>4, <2>5 DEF Eq, Iteration
  <2> QED BY <2>4, <2>6 DEF Iteration
<1> HIDE DEF Eq
<1>3. Eq(it)
  BY <1>2
<1> HIDE DEF it
<1>4. it = [i \in 0 .. n |-> IF i = 0 THEN 0 ELSE it[i - 1] * Base + bytes[i]]
  BY <1>3 DEF Eq
<1>5. v = [i \in 0 .. n |-> IF i = 0 THEN 0 ELSE v[i - 1] * Base + bytes[i]]
  BY <1>2 DEF Eq
<1>6. /\ it[0] = 0 /\ v[0] = 0
      /\ \A i \in 1 .. n : it[i] = it[i - 1] * Base + bytes[i]
      /\ \A i \in 1 .. n : v[i] = v[i - 1] * Base + bytes[i]
  <2>1. \A i \in 1 .. n : i \in 0 .. n /\ i # 0
    OBVIOUS
  <2>2. 0 \in 0 .. n
    OBVIOUS
  <2> QED BY <1>4, <1>5, <2>1, <2>2
<1>7. \A i \in 0 .. n : it[i] = v[i]
  <2> DEFINE N == {i \in Nat : i <= n => it[i] = v[i]}
  <2>1. 0 \in N
    BY <1>6
  <2>2. ASSUME NEW i \in Nat, i \in N PROVE i + 1 \in N
    <3> SUFFICES ASSUME i + 1 <= n PROVE it[i + 1] = v[i + 1]
      OBVIOUS
    <3>1. i + 1 \in 1 .. n /\ (i + 1) - 1 = i /\ i <= n
      OBVIOUS
    <3>2. it[i] = v[i]
      BY <2>2, <3>1
    <3>3. it[i + 1] = it[i] * Base + bytes[i + 1] /\ v[i + 1] = v[i] * Base + bytes[i + 1]
      BY <1>6, <3>1
    <3> QED BY <3>2, <3>3
  <2>3. N = Nat
    <3> HIDE DEF N
    <3>1. N \in SUBSET Nat
      BY DEF N
    <3> QED BY <2>1, <2>2, <3>1, NaturalsBySteps
  <2> SUFFICES ASSUME NEW i \in 0 .. n PROVE it[i] = v[i]
    OBVIOUS
  <2>4. i \in N
    <3>1. i \in Nat
      OBVIOUS
    <3> HIDE DEF N
    <3> QED BY <2>3, <3>1
  <2> QED BY <2>4
<1>8. FromBytes(bytes) = v[n]
  BY <1>1, <1>7
<1> QED BY <1>2, <1>6, <1>8
\* What to_bytes() has left after each byte.
LEMMA ShiftedUnfolds ==
  ASSUME NEW n \in Nat, NEW x \in Nat
  PROVE  \E rest \in [0 .. n -> Nat] :
            /\ rest[0] = x
            /\ \A i \in 1 .. n : rest[i] = rest[i - 1] \div Base
            /\ Shifted(x, n) = rest[n]
<1> DEFINE Eq(v) == v = [i \in 0 .. n |-> IF i = 0 THEN x ELSE v[i - 1] \div Base]
<1> DEFINE it == CHOOSE v : Eq(v)
<1>1. Shifted(x, n) = it[n]
  BY DEF Shifted
<1>2. PICK v \in [0 .. n -> Nat] : Eq(v)
  <2> DEFINE step == [s \in (1 .. n) \X Nat |-> s[2] \div Base]
  <2>1. \A a \in Nat : a \div Base \in Nat
    BY BaseFacts
  <2>2. \A i \in 1 .. n : \A a \in Nat : step[<<i, a>>] = a \div Base
    OBVIOUS
  <2>3. IsStep(step, n, Nat)
    BY <2>1 DEF IsStep
  <2> HIDE DEF step, Eq, it
  <2>4. PICK h : Iteration(h, n, Nat, x, step)
    BY <2>3, IterationExists
  <2>5. ASSUME NEW i \in 0 .. n
        PROVE  h[i] = IF i = 0 THEN x ELSE h[i - 1] \div Base
    <3>1. CASE i = 0
      BY <2>4, <3>1 DEF Iteration
    <3>2. CASE i # 0
      <4>1. i \in 1 .. n /\ i - 1 \in 0 .. n
        BY <3>2
      <4>2. h[i - 1] \in Nat /\ h[i] = step[<<i, h[i - 1]>>]
        BY <2>4, <4>1 DEF Iteration
      <4>3. h[i] = h[i - 1] \div Base
        BY <2>2, <4>1, <4>2
      <4> QED BY <3>2, <4>3
    <3> QED BY <3>1, <3>2
  <2>6. Eq(h)
    BY <2>4, <2>5 DEF Eq, Iteration
  <2> QED BY <2>4, <2>6 DEF Iteration
<1> HIDE DEF Eq
<1>3. Eq(it)
  BY <1>2
<1> HIDE DEF it
<1>4. it = [i \in 0 .. n |-> IF i = 0 THEN x ELSE it[i - 1] \div Base]
  BY <1>3 DEF Eq
<1>5. v = [i \in 0 .. n |-> IF i = 0 THEN x ELSE v[i - 1] \div Base]
  BY <1>2 DEF Eq
<1>6. /\ it[0] = x /\ v[0] = x
      /\ \A i \in 1 .. n : it[i] = it[i - 1] \div Base
      /\ \A i \in 1 .. n : v[i] = v[i - 1] \div Base
  <2>1. \A i \in 1 .. n : i \in 0 .. n /\ i # 0
    OBVIOUS
  <2>2. 0 \in 0 .. n
    OBVIOUS
  <2> QED BY <1>4, <1>5, <2>1, <2>2
<1>7. \A i \in 0 .. n : it[i] = v[i]
  <2> DEFINE N == {i \in Nat : i <= n => it[i] = v[i]}
  <2>1. 0 \in N
    BY <1>6
  <2>2. ASSUME NEW i \in Nat, i \in N PROVE i + 1 \in N
    <3> SUFFICES ASSUME i + 1 <= n PROVE it[i + 1] = v[i + 1]
      OBVIOUS
    <3>1. i + 1 \in 1 .. n /\ (i + 1) - 1 = i /\ i <= n
      OBVIOUS
    <3>2. it[i] = v[i]
      BY <2>2, <3>1
    <3>3. it[i + 1] = it[i] \div Base /\ v[i + 1] = v[i] \div Base
      BY <1>6, <3>1
    <3> QED BY <3>2, <3>3
  <2>3. N = Nat
    <3> HIDE DEF N
    <3>1. N \in SUBSET Nat
      BY DEF N
    <3> QED BY <2>1, <2>2, <3>1, NaturalsBySteps
  <2> SUFFICES ASSUME NEW i \in 0 .. n PROVE it[i] = v[i]
    OBVIOUS
  <2>4. i \in N
    <3>1. i \in Nat
      OBVIOUS
    <3> HIDE DEF N
    <3> QED BY <2>3, <3>1
  <2> QED BY <2>4
<1>8. Shifted(x, n) = v[n]
  BY <1>1, <1>7
<1> QED BY <1>2, <1>6, <1>8

\* One more byte is dropped.
LEMMA ShiftedLaw ==
  ASSUME NEW x \in Nat, NEW n \in Nat
  PROVE  /\ Shifted(x, n) \in Nat
         /\ (n = 0 => Shifted(x, n) = x)
         /\ Shifted(x, n + 1) = Shifted(x, n) \div Base
<1>1. PICK r \in [0 .. n -> Nat] :
            /\ r[0] = x
            /\ \A i \in 1 .. n : r[i] = r[i - 1] \div Base
            /\ Shifted(x, n) = r[n]
  BY ShiftedUnfolds
<1>2. PICK s \in [0 .. n + 1 -> Nat] :
            /\ s[0] = x
            /\ \A i \in 1 .. n + 1 : s[i] = s[i - 1] \div Base
            /\ Shifted(x, n + 1) = s[n + 1]
  <2>1. n + 1 \in Nat
    OBVIOUS
  <2> QED BY <2>1, ShiftedUnfolds
<1>3. r[n] = s[n]
  <2> DEFINE N == {i \in Nat : i <= n => r[i] = s[i]}
  <2>1. 0 \in N
    BY <1>1, <1>2
  <2>2. ASSUME NEW i \in Nat, i \in N PROVE i + 1 \in N
    <3> SUFFICES ASSUME i + 1 <= n PROVE r[i + 1] = s[i + 1]
      OBVIOUS
    <3>1. i + 1 \in 1 .. n /\ i + 1 \in 1 .. n + 1 /\ (i + 1) - 1 = i /\ i <= n
      OBVIOUS
    <3>2. r[i] = s[i]
      BY <2>2, <3>1
    <3>3. r[i + 1] = r[i] \div Base /\ s[i + 1] = s[i] \div Base
      BY <1>1, <1>2, <3>1
    <3> QED BY <3>2, <3>3
  <2>3. N = Nat
    <3> HIDE DEF N
    <3>1. N \in SUBSET Nat
      BY DEF N
    <3> QED BY <2>1, <2>2, <3>1, NaturalsBySteps
  <2>4. n \in N
    BY <2>3
  <2> QED BY <2>4
<1>4. s[n + 1] = s[n] \div Base
  <2>1. n + 1 \in 1 .. n + 1 /\ (n + 1) - 1 = n
    OBVIOUS
  <2> QED BY <1>2, <2>1
<1> QED BY <1>1, <1>2, <1>3, <1>4

\* A quotient and remainder are determined by what they add up to.
LEMMA QuotientLaw ==
  ASSUME NEW x \in Nat, NEW q \in Nat, NEW r \in 0 .. Base - 1, x = Base * q + r
  PROVE  x \div Base = q /\ x % Base = r
<1>1. Base \in Nat /\ Base > 1
  BY BaseFacts
<1>2. x % Base = r
  BY <1>1
<1>3. x \div Base = q
  BY <1>1
<1> QED BY <1>2, <1>3

\* to_bytes() takes apart what from_bytes() put together.
LEMMA BytesRoundTrip ==
  ASSUME NEW n \in Nat, NEW bytes, Len(bytes) = n, \A i \in 1 .. n : bytes[i] \in 0 .. Base - 1
  PROVE  /\ FromBytes(bytes) \in Nat
         /\ Shifted(FromBytes(bytes), n) = 0
         /\ \A i \in 1 .. n : Shifted(FromBytes(bytes), n - i) % Base = bytes[i]
<1>1. PICK v \in [0 .. n -> Nat] :
            /\ v[0] = 0
            /\ \A i \in 1 .. n : v[i] = v[i - 1] * Base + bytes[i]
            /\ FromBytes(bytes) = v[n]
  BY FromBytesUnfolds
<1> DEFINE x == FromBytes(bytes)
<1>2. x \in Nat /\ x = v[n]
  BY <1>1
<1> HIDE DEF x
<1>3. ASSUME NEW i \in 1 .. n
      PROVE  v[i] \div Base = v[i - 1] /\ v[i] % Base = bytes[i]
  <2> DEFINE a == v[i - 1]
  <2> DEFINE b == bytes[i]
  <2>1. a \in Nat /\ v[i] = a * Base + b /\ b \in 0 .. Base - 1
    BY <1>1
  <2> HIDE DEF a, b
  <2>2. v[i] = Base * a + b /\ v[i] \in Nat
    BY <2>1, BaseFacts
  <2>3. v[i] \div Base = a /\ v[i] % Base = b
    BY <2>1, <2>2, QuotientLaw
  <2> QED BY <2>3 DEF a, b
<1>4. \A i \in 0 .. n : Shifted(x, i) = v[n - i]
  <2> DEFINE N == {i \in Nat : i <= n => Shifted(x, i) = v[n - i]}
  <2>1. 0 \in N
    <3>1. 0 \in Nat /\ n - 0 = n
      OBVIOUS
    <3>2. Shifted(x, 0) = x
      BY <1>2, <3>1, ShiftedLaw
    <3> QED BY <1>2, <3>1, <3>2
  <2>2. ASSUME NEW i \in Nat, i \in N PROVE i + 1 \in N
    <3> SUFFICES ASSUME i + 1 <= n PROVE Shifted(x, i + 1) = v[n - (i + 1)]
      OBVIOUS
    <3>1. n - i \in 1 .. n /\ (n - i) - 1 = n - (i + 1) /\ i <= n
      OBVIOUS
    <3>2. Shifted(x, i) = v[n - i]
      BY <2>2, <3>1
    <3>3. Shifted(x, i + 1) = Shifted(x, i) \div Base
      BY <1>2, ShiftedLaw
    <3>4. v[n - i] \div Base = v[(n - i) - 1]
      BY <1>3, <3>1
    <3> QED BY <3>1, <3>2, <3>3, <3>4
  <2>3. N = Nat
    <3> HIDE DEF N
    <3>1. N \in SUBSET Nat
      BY DEF N
    <3> QED BY <2>1, <2>2, <3>1, NaturalsBySteps
  <2> SUFFICES ASSUME NEW i \in 0 .. n PROVE Shifted(x, i) = v[n - i]
    OBVIOUS
  <2>4. i \in N
    <3>1. i \in Nat
      OBVIOUS
    <3> HIDE DEF N
    <3> QED BY <2>3, <3>1
  <2> QED BY <2>4
<1>5. Shifted(x, n) = 0
  <2>1. n \in 0 .. n /\ n - n = 0
    OBVIOUS
  <2> QED BY <1>1, <1>4, <2>1
<1>6. ASSUME NEW i \in 1 .. n PROVE Shifted(x, n - i) % Base = bytes[i]
  <2>1. n - i \in 0 .. n /\ n - (n - i) = i
    OBVIOUS
  <2>2. Shifted(x, n - i) = v[i]
    BY <1>4, <2>1
  <2> QED BY <1>3, <2>2
<1> QED BY <1>2, <1>5, <1>6 DEF x
\* The bytes of one integer.
Chunk(raw, chunk) == [i \in 1 .. BytesPerInteger |-> ByteOf(raw, chunk, i)]

\* An element of a sequence.
LEMMA SequenceElement ==
  ASSUME NEW B, NEW s \in Seq(B)
  PROVE  \A i \in 1 .. Len(s) : s[i] \in B
OBVIOUS

\* One integer of a packed string: an element of the field, with these bytes.
LEMMA ChunkLaw ==
  ASSUME NEW raw \in Seq(0 .. Base - 1), NEW chunk \in Nat, chunk > 0
  PROVE  /\ Chunk(raw, chunk) \in [1 .. BytesPerInteger -> 0 .. Base - 1]
         /\ Len(Chunk(raw, chunk)) = BytesPerInteger
         /\ FromBytes(Chunk(raw, chunk)) \in Field
         /\ Shifted(FromBytes(Chunk(raw, chunk)), BytesPerInteger) = 0
         /\ \A i \in 1 .. BytesPerInteger :
              Shifted(FromBytes(Chunk(raw, chunk)), BytesPerInteger - i) % Base
                = ByteOf(raw, chunk, i)
<1>1. ASSUME NEW i \in 1 .. BytesPerInteger PROVE ByteOf(raw, chunk, i) \in 0 .. Base - 1
  <2> DEFINE pos == BytesPerInteger * (chunk - 1) + i
  <2>1. pos \in Nat /\ pos > 0
    <3>1. chunk - 1 \in Nat /\ BytesPerInteger \in Nat /\ i \in Nat /\ i > 0
      BY BaseFacts
    <3>2. BytesPerInteger * (chunk - 1) \in Nat
      BY <3>1
    <3> QED BY <3>1, <3>2
  <2>2. ByteOf(raw, chunk, i) = IF pos <= Len(raw) THEN raw[pos] ELSE 0
    BY DEF ByteOf
  <2> HIDE DEF pos
  <2>3. pos <= Len(raw) => raw[pos] \in 0 .. Base - 1
    <3>1. \A p \in 1 .. Len(raw) : raw[p] \in 0 .. Base - 1
      BY SequenceElement
    <3>2. Len(raw) \in Nat
      OBVIOUS
    <3>3. pos <= Len(raw) => pos \in 1 .. Len(raw)
      BY <2>1, <3>2
    <3> QED BY <3>1, <3>3
  <2>4. 0 \in 0 .. Base - 1
    BY BaseFacts
  <2> QED BY <2>2, <2>3, <2>4
<1>2. Chunk(raw, chunk) \in [1 .. BytesPerInteger -> 0 .. Base - 1]
  BY <1>1 DEF Chunk
<1>3. Len(Chunk(raw, chunk)) = BytesPerInteger
  BY BaseFacts DEF Chunk
<1> DEFINE b == Chunk(raw, chunk)
<1>4. \A i \in 1 .. BytesPerInteger : b[i] = ByteOf(raw, chunk, i) /\ b[i] \in 0 .. Base - 1
  BY <1>1 DEF Chunk
<1>5. b \in [1 .. BytesPerInteger -> 0 .. Base - 1]
  BY <1>2
<1>6. Len(b) = BytesPerInteger
  BY <1>3
<1> HIDE DEF b
<1>7. /\ FromBytes(b) \in Nat /\ Shifted(FromBytes(b), BytesPerInteger) = 0
      /\ \A i \in 1 .. BytesPerInteger : Shifted(FromBytes(b), BytesPerInteger - i) % Base = b[i]
  <2>1. BytesPerInteger \in Nat
    BY BaseFacts
  <2> QED BY <1>4, <1>6, <2>1, BytesRoundTrip
<1>8. FromBytes(b) < PRIME
  BY <1>5, FieldAssumption
<1>9. FromBytes(b) \in Field
  BY <1>7, <1>8, BaseFacts DEF Field
<1> QED BY <1>4, <1>5, <1>6, <1>7, <1>9 DEF b

\* There are integers enough for the string.
LEMMA ChunksLaw ==
  ASSUME NEW raw \in Seq(0 .. Base - 1)
  PROVE  Chunks(raw) \in Nat /\ BytesPerInteger * Chunks(raw) >= Len(raw)
<1> DEFINE b == BytesPerInteger
<1> DEFINE n == Len(raw)
<1>1. b \in Nat /\ b > 0 /\ n \in Nat
  BY BaseFacts
<1> DEFINE q == (n + b - 1) \div b
<1>2. Chunks(raw) = q
  BY DEF Chunks
<1> HIDE DEF b, n
<1>3. n + b - 1 \in Nat
  BY <1>1
<1>4. q \in Nat /\ n + b - 1 = b * q + ((n + b - 1) % b) /\ ((n + b - 1) % b) \in 0 .. b - 1
  BY <1>1, <1>3
<1>5. b * q >= n
  <2> DEFINE r == (n + b - 1) % b
  <2> DEFINE p == b * q
  <2>1. p \in Nat /\ r \in 0 .. b - 1 /\ n + b - 1 = p + r
    BY <1>1, <1>4
  <2> HIDE DEF r, p
  <2>2. p >= n
    BY <1>1, <2>1
  <2> QED BY <2>2 DEF p
<1> QED BY <1>2, <1>4, <1>5 DEF b, n

\* The packed string, integer by integer.
LEMMA IntegersLaw ==
  ASSUME NEW raw \in Seq(0 .. Base - 1)
  PROVE  /\ StringToIntegers(raw) \in Seq(Nat)
         /\ Len(StringToIntegers(raw)) = Chunks(raw) + 1
         /\ StringToIntegers(raw)[1] = Len(raw)
         /\ \A i \in 2 .. Chunks(raw) + 1 :
              StringToIntegers(raw)[i] = FromBytes(Chunk(raw, i - 1))
<1> DEFINE F == [chunk \in 1 .. Chunks(raw) |-> FromBytes(Chunk(raw, chunk))]
<1>1. StringToIntegers(raw) = <<Len(raw)>> \o F
  BY DEF StringToIntegers, Chunk
<1>2. Chunks(raw) \in Nat /\ Len(raw) \in Nat
  BY ChunksLaw
<1>3. \A chunk \in 1 .. Chunks(raw) : FromBytes(Chunk(raw, chunk)) \in Nat
  <2> SUFFICES ASSUME NEW chunk \in 1 .. Chunks(raw) PROVE FromBytes(Chunk(raw, chunk)) \in Nat
    OBVIOUS
  <2>1. chunk \in Nat /\ chunk > 0
    BY <1>2
  <2>2. FromBytes(Chunk(raw, chunk)) \in Field
    BY <2>1, ChunkLaw
  <2> QED BY <2>2, PrimeFacts
<1>4. F \in Seq(Nat) /\ Len(F) = Chunks(raw)
  BY <1>2, <1>3
<1>5. \A i \in 1 .. Chunks(raw) : F[i] = FromBytes(Chunk(raw, i))
  OBVIOUS
<1> HIDE DEF F
<1>6. <<Len(raw)>> \in Seq(Nat) /\ Len(<<Len(raw)>>) = 1 /\ <<Len(raw)>>[1] = Len(raw)
  BY <1>2
<1>7. <<Len(raw)>> \o F \in Seq(Nat) /\ Len(<<Len(raw)>> \o F) = Chunks(raw) + 1
  BY <1>2, <1>4, <1>6
<1>8. (<<Len(raw)>> \o F)[1] = Len(raw)
  BY <1>2, <1>4
<1>9. ASSUME NEW i \in 2 .. Chunks(raw) + 1
      PROVE  (<<Len(raw)>> \o F)[i] = FromBytes(Chunk(raw, i - 1))
  <2>1. i - 1 \in 1 .. Chunks(raw)
    BY <1>2
  <2>2. (<<Len(raw)>> \o F)[i] = F[i - 1]
    BY <1>2, <1>4
  <2> QED BY <1>5, <2>1, <2>2
<1> QED BY <1>1, <1>7, <1>8, <1>9

\* The two conversions undo each other.
LEMMA PackingRoundTrip ==
  ASSUME NEW raw \in Seq(0 .. Base - 1)
  PROVE  IntegerListToString(StringToIntegers(raw)) = raw
<1> DEFINE list == StringToIntegers(raw)
<1> DEFINE b == BytesPerInteger
<1> DEFINE n == Len(raw)
<1> DEFINE size == b * (Len(list) - 1)
<1> DEFINE byte(k) == Shifted(list[2 + (k - 1) \div b], b - 1 - ((k - 1) % b)) % Base
<1>0. b \in Nat /\ b > 0 /\ n \in Nat /\ Chunks(raw) \in Nat /\ b * Chunks(raw) >= n
  BY BaseFacts, ChunksLaw
<1>1. Len(list) = Chunks(raw) + 1 /\ list[1] = n
      /\ \A i \in 2 .. Chunks(raw) + 1 : list[i] = FromBytes(Chunk(raw, i - 1))
  BY IntegersLaw
<1>2. ~ \E i \in 2 .. Len(list) : Shifted(list[i], b) # 0
  <2> SUFFICES ASSUME NEW i \in 2 .. Len(list) PROVE Shifted(list[i], b) = 0
    OBVIOUS
  <2>1. i - 1 \in Nat /\ i - 1 > 0 /\ i \in 2 .. Chunks(raw) + 1
    BY <1>0, <1>1
  <2>2. list[i] = FromBytes(Chunk(raw, i - 1))
    BY <1>1, <2>1
  <2> HIDE DEF list
  <2> QED BY <2>1, <2>2, ChunkLaw
<1>3. size >= n /\ size \in Nat
  <2>1. Len(list) - 1 = Chunks(raw)
    BY <1>0, <1>1
  <2> HIDE DEF list
  <2>2. b * Chunks(raw) \in Nat
    BY <1>0
  <2> QED BY <1>0, <2>1, <2>2
<1>4. (IF list[1] < size THEN list[1] ELSE size) = n
  <2> HIDE DEF list, size, b
  <2> QED BY <1>0, <1>1, <1>3
<1>5. IntegerListToString(list) = [k \in 1 .. IF list[1] < size THEN list[1] ELSE size |-> byte(k)]
  <2> HIDE DEF list
  <2>1. ~ \E i \in 2 .. Len(list) : Shifted(list[i], BytesPerInteger) # 0
    BY <1>2
  <2> QED BY <2>1 DEF IntegerListToString
<1>6. ASSUME NEW k \in 1 .. n PROVE byte(k) = raw[k]
  <2> DEFINE q == (k - 1) \div b
  <2> DEFINE r == (k - 1) % b
  <2>1. k - 1 \in Nat
    OBVIOUS
  <2>2. q \in Nat /\ r \in 0 .. b - 1 /\ k - 1 = b * q + r
    <3> HIDE DEF b
    <3> QED BY <1>0, <2>1
  <2>3. byte(k) = Shifted(list[2 + q], b - 1 - r) % Base
    OBVIOUS
  <2> HIDE DEF q, r, b, list, n
  <2>4. q < Chunks(raw)
    <3>1. b * q < b * Chunks(raw)
      <4>1. b * q \in Nat /\ b * Chunks(raw) \in Nat
        BY <1>0, <2>2
      <4> QED BY <1>0, <2>2, <4>1
    <3> SUFFICES ASSUME q >= Chunks(raw) PROVE FALSE
      BY <1>0, <2>2
    <3>2. q = Chunks(raw) + (q - Chunks(raw)) /\ q - Chunks(raw) \in Nat
      BY <1>0, <2>2
    <3>3. b * q = b * Chunks(raw) + b * (q - Chunks(raw))
      BY <1>0, <2>2
    <3>4. b * (q - Chunks(raw)) \in Nat /\ b * Chunks(raw) \in Nat
      BY <1>0, <3>2
    <3> QED BY <3>1, <3>3, <3>4
  <2>5. 2 + q \in 2 .. Chunks(raw) + 1 /\ (2 + q) - 1 = q + 1
    BY <1>0, <2>2, <2>4
  <2>6. list[2 + q] = FromBytes(Chunk(raw, q + 1))
    BY <1>1, <2>5
  <2>7. r + 1 \in 1 .. b /\ b - 1 - r = b - (r + 1)
    BY <1>0, <2>2
  <2>8. Shifted(FromBytes(Chunk(raw, q + 1)), b - (r + 1)) % Base = ByteOf(raw, q + 1, r + 1)
    <3>1. q + 1 \in Nat /\ q + 1 > 0 /\ r + 1 \in 1 .. BytesPerInteger
      BY <2>2, <2>7 DEF b
    <3> QED BY <3>1, ChunkLaw DEF b
  <2>9. ByteOf(raw, q + 1, r + 1) = raw[k]
    <3>1. (q + 1) - 1 = q
      BY <2>2
    <3>2. BytesPerInteger * ((q + 1) - 1) + (r + 1) = k
      <4>1. b * q \in Nat /\ r \in Nat
        BY <1>0, <2>2
      <4>2. b * q + (r + 1) = k
        BY <2>2, <4>1
      <4> QED BY <3>1, <4>2 DEF b
    <3>3. k <= Len(raw)
      BY DEF n
    <3> QED BY <3>2, <3>3 DEF ByteOf
  <2>10. byte(k) = Shifted(FromBytes(Chunk(raw, q + 1)), b - (r + 1)) % Base
    BY <2>3, <2>6, <2>7
  <2> QED BY <2>8, <2>9, <2>10
<1>7. [k \in 1 .. n |-> byte(k)] = raw
  <2>1. raw = [k \in 1 .. n |-> raw[k]]
    OBVIOUS
  <2> HIDE DEF byte
  <2>2. [k \in 1 .. n |-> byte(k)] = [k \in 1 .. n |-> raw[k]]
    BY <1>6
  <2> QED BY <2>1, <2>2
<1> QED BY <1>4, <1>5, <1>7

-----------------------------------------------------------------------------
(* The invariant.                                                           *)

\* A point of a share.
Point == (1 .. PRIME - 1) \X Field

\* One integer of the secret, as create_secret() splits it.
Drawn(row, s, chunk) ==
  \E c \in Coefficients(s.treshold, StringToIntegers(s.secret)[chunk]), x \in XValues(s.shares) :
    row = [p \in 1 .. s.shares |-> <<x[p], Polynom(x[p], c)>>]

\* A decoder holds columns of the finished matrix, all different in every
\* x-value.
ShamirInv ==
  /\ split \in Split
  /\ matrix \in Seq([1 .. split.shares -> Point])
  /\ Len(matrix) <= Len(Plaintext)
  /\ \A chunk \in 1 .. Len(matrix) : Drawn(matrix[chunk], split, chunk)
  /\ keys \in Seq(Seq(Point))
  /\ Len(keys) <= split.treshold
  /\ keys # <<>> => Created
  /\ \A k \in 1 .. Len(keys) : \E p \in 1 .. split.shares : keys[k] = Column(p)
  /\ \A k, l \in 1 .. Len(keys) : k # l =>
        \A chunk \in 1 .. Len(matrix) : keys[k][chunk][1] # keys[l][chunk][1]

\* A split that create_secret() accepts.
LEMMA SplitFacts ==
  ASSUME NEW s \in Split
  PROVE  /\ s.secret \in Seq(0 .. Base - 1)
         /\ s.treshold \in Nat /\ s.treshold >= 2 /\ s.treshold <= s.shares
         /\ s.shares \in Nat /\ s.shares < PRIME
         /\ StringToIntegers(s.secret) \in Seq(Nat)
         /\ Len(StringToIntegers(s.secret)) = Chunks(s.secret) + 1
         /\ Chunks(s.secret) \in Nat
         /\ \A i \in 1 .. Chunks(s.secret) + 1 : StringToIntegers(s.secret)[i] \in Field
         /\ IntegerListToString(StringToIntegers(s.secret)) = s.secret
<1>1. /\ s.secret \in Seq(0 .. Base - 1) /\ Len(s.secret) < PRIME
      /\ s.shares \in Nat /\ s.treshold \in 2 .. s.shares /\ s.shares < PRIME
  BY FieldAssumption
<1> DEFINE raw == s.secret
<1>2. raw \in Seq(0 .. Base - 1) /\ Len(raw) < PRIME
  BY <1>1
<1> HIDE DEF raw
<1>3. /\ StringToIntegers(raw) \in Seq(Nat)
      /\ Len(StringToIntegers(raw)) = Chunks(raw) + 1
      /\ StringToIntegers(raw)[1] = Len(raw)
      /\ \A i \in 2 .. Chunks(raw) + 1 : StringToIntegers(raw)[i] = FromBytes(Chunk(raw, i - 1))
  BY <1>2, IntegersLaw
<1>4. Chunks(raw) \in Nat
  BY <1>2, ChunksLaw
<1>5. ASSUME NEW i \in 1 .. Chunks(raw) + 1 PROVE StringToIntegers(raw)[i] \in Field
  <2>1. CASE i = 1
    <3>1. Len(raw) \in Nat
      BY <1>2
    <3> QED BY <1>2, <1>3, <2>1, <3>1, BaseFacts DEF Field
  <2>2. CASE i # 1
    <3>1. i \in 2 .. Chunks(raw) + 1 /\ i - 1 \in Nat /\ i - 1 > 0
      BY <1>4, <2>2
    <3> QED BY <1>2, <1>3, <3>1, ChunkLaw
  <2> QED BY <2>1, <2>2
<1>6. IntegerListToString(StringToIntegers(raw)) = raw
  BY <1>2, PackingRoundTrip
<1>7. s.treshold \in Nat /\ s.treshold >= 2 /\ s.treshold <= s.shares
  BY <1>1
<1> QED BY <1>1, <1>3, <1>4, <1>5, <1>6, <1>7 DEF raw

\* Coefficients are a function with the hidden integer at 0.
LEMMA CoefficientsLaw ==
  ASSUME NEW t \in Nat, t >= 2, NEW v \in Field, NEW c \in Coefficients(t, v)
  PROVE  c \in [0 .. t - 1 -> Field] /\ c[0] = v
<1>1. PICK d \in [1 .. t - 1 -> Field] : c = [i \in 0 .. t - 1 |-> IF i = 0 THEN v ELSE d[i]]
  BY DEF Coefficients, Coefficient
<1>2. ASSUME NEW i \in 0 .. t - 1 PROVE (IF i = 0 THEN v ELSE d[i]) \in Field
  <2>1. CASE i = 0
    BY <2>1
  <2>2. CASE i # 0
    BY <2>2
  <2> QED BY <2>1, <2>2
<1>3. 0 \in 0 .. t - 1
  OBVIOUS
<1> QED BY <1>1, <1>2, <1>3

\* The points of one integer lie on the polynomial c.
DrawnWith(row, s, chunk, c) ==
  /\ c \in [0 .. s.treshold - 1 -> Field]
  /\ c[0] = StringToIntegers(s.secret)[chunk]
  /\ row \in [1 .. s.shares -> Point]
  /\ \A p \in 1 .. s.shares : row[p][2] = Polynom(row[p][1], c)

\* A row that was drawn was drawn with some coefficients.
LEMMA DrawnLaw ==
  ASSUME NEW s \in Split, NEW chunk \in 1 .. Chunks(s.secret) + 1, NEW row, Drawn(row, s, chunk)
  PROVE  \E c : DrawnWith(row, s, chunk, c)
<1> DEFINE v == StringToIntegers(s.secret)[chunk]
<1>1. PICK c \in Coefficients(s.treshold, v) : \E x \in XValues(s.shares) :
          row = [p \in 1 .. s.shares |-> <<x[p], Polynom(x[p], c)>>]
  BY DEF Drawn
<1>2. PICK x \in XValues(s.shares) : row = [p \in 1 .. s.shares |-> <<x[p], Polynom(x[p], c)>>]
  BY <1>1
<1>3. v \in Field /\ s.treshold \in Nat /\ s.treshold >= 2 /\ s.shares \in Nat
  BY SplitFacts
<1> HIDE DEF v
<1>4. c \in [0 .. s.treshold - 1 -> Field] /\ c[0] = v
  BY <1>3, CoefficientsLaw
<1>5. \A p \in 1 .. s.shares : x[p] \in 1 .. PRIME - 1
  BY DEF XValues, Injection
<1>6. ASSUME NEW p \in 1 .. s.shares
      PROVE  row[p] = <<x[p], Polynom(x[p], c)>> /\ row[p] \in Point
  <2>1. x[p] \in Field
    BY <1>5, PrimeFacts DEF Field
  <2>2. s.treshold - 1 \in Nat
    BY <1>3
  <2>3. Polynom(x[p], c) \in Field
    BY <1>4, <2>1, <2>2, PolynomIsPoly
  <2> QED BY <1>2, <1>5, <2>3 DEF Point
<1>7. row \in [1 .. s.shares -> Point]
  BY <1>2, <1>6
<1>8. \A p \in 1 .. s.shares : row[p][1] = x[p] /\ row[p][2] = Polynom(x[p], c)
  BY <1>6
<1>9. \A p \in 1 .. s.shares : row[p][2] = Polynom(row[p][1], c)
  BY <1>8
<1>10. DrawnWith(row, s, chunk, c)
  BY <1>4, <1>7, <1>9 DEF DrawnWith, v
<1> QED BY <1>10
\* Nothing is drawn at first.
LEMMA InitShamir == Init => ShamirInv
<1> SUFFICES ASSUME Init PROVE ShamirInv
  OBVIOUS
<1>1. split \in Split /\ matrix = <<>> /\ keys = <<>>
  BY DEF Init
<1>2. Len(Plaintext) \in Nat
  <2>1. Chunks(split.secret) \in Nat /\ Len(Plaintext) = Chunks(split.secret) + 1
    BY <1>1, SplitFacts DEF Plaintext
  <2> QED BY <2>1
<1>3. 1 .. Len(matrix) = {} /\ 1 .. Len(keys) = {} /\ Len(matrix) = 0 /\ Len(keys) = 0
  BY <1>1
<1>4. matrix \in Seq([1 .. split.shares -> Point]) /\ keys \in Seq(Seq(Point))
  BY <1>1
<1>5. 0 <= split.treshold
  BY <1>1, SplitFacts
<1> QED BY <1>1, <1>2, <1>3, <1>4, <1>5 DEF ShamirInv

\* One more row is drawn.
LEMMA GenerateSharesShamir == ShamirInv /\ GenerateShares => ShamirInv'
<1> SUFFICES ASSUME ShamirInv, GenerateShares PROVE ShamirInv'
  OBVIOUS
<1> DEFINE Rows == [1 .. split.shares -> Point]
<1>1. /\ split \in Split /\ matrix \in Seq(Rows) /\ Len(matrix) <= Len(Plaintext)
      /\ \A chunk \in 1 .. Len(matrix) : Drawn(matrix[chunk], split, chunk)
      /\ keys # <<>> => Created
  BY DEF ShamirInv
<1>2. ~Created /\ split' = split /\ keys' = keys
  BY DEF GenerateShares
<1>3. keys = <<>> /\ Plaintext' = Plaintext
  BY <1>1, <1>2 DEF Plaintext
<1> DEFINE n == Len(matrix)
<1>4. /\ Len(Plaintext) = Chunks(split.secret) + 1 /\ Chunks(split.secret) \in Nat
      /\ Plaintext = StringToIntegers(split.secret)
  BY <1>1, SplitFacts DEF Plaintext
<1>5. n \in Nat /\ n + 1 \in 1 .. Chunks(split.secret) + 1 /\ n + 1 <= Len(Plaintext)
  <2>1. n \in Nat /\ n # Len(Plaintext)
    BY <1>1, <1>2 DEF Created
  <2> QED BY <1>1, <1>4, <2>1
<1>6. PICK c \in Coefficients(split.treshold, Plaintext[n + 1]), x \in XValues(split.shares) :
        matrix' = Append(matrix, [p \in 1 .. split.shares |-> <<x[p], Polynom(x[p], c)>>])
  BY DEF GenerateShares
<1> DEFINE row == [p \in 1 .. split.shares |-> <<x[p], Polynom(x[p], c)>>]
<1>7. Drawn(row, split, n + 1)
  BY <1>4 DEF Drawn
<1>8. row \in Rows
  <2> HIDE DEF row
  <2>1. PICK e : DrawnWith(row, split, n + 1, e)
    BY <1>1, <1>5, <1>7, DrawnLaw
  <2> QED BY <2>1 DEF DrawnWith
<1>9. matrix' = Append(matrix, row)
  BY <1>6
<1> HIDE DEF row, Rows
<1>10. /\ matrix' \in Seq(Rows) /\ Len(matrix') = n + 1
       /\ \A chunk \in 1 .. n : matrix'[chunk] = matrix[chunk]
       /\ matrix'[n + 1] = row
  BY <1>1, <1>8, <1>9
<1> HIDE DEF n
<1>11. \A chunk \in 1 .. n + 1 : Drawn(matrix'[chunk], split, chunk)
  <2> SUFFICES ASSUME NEW chunk \in 1 .. n + 1 PROVE Drawn(matrix'[chunk], split, chunk)
    OBVIOUS
  <2>1. CASE chunk = n + 1
    BY <1>7, <1>10, <2>1
  <2>2. CASE chunk # n + 1
    <3>1. chunk \in 1 .. n
      BY <1>5, <2>2
    <3> QED BY <1>1, <1>10, <3>1 DEF n
  <2> QED BY <2>1, <2>2
<1>12. /\ (split \in Split)' /\ (matrix \in Seq([1 .. split.shares -> Point]))'
       /\ (Len(matrix) <= Len(Plaintext))'
       /\ (\A chunk \in 1 .. Len(matrix) : Drawn(matrix[chunk], split, chunk))'
  BY <1>1, <1>2, <1>3, <1>5, <1>10, <1>11 DEF Rows
<1>13. /\ (keys \in Seq(Seq(Point)))' /\ (keys # <<>> => Created)'
       /\ (Len(keys) <= split.treshold)'
       /\ (\A k \in 1 .. Len(keys) : \E p \in 1 .. split.shares : keys[k] = Column(p))'
       /\ (\A k, l \in 1 .. Len(keys) : k # l =>
             \A chunk \in 1 .. Len(matrix) : keys[k][chunk][1] # keys[l][chunk][1])'
  <2>1. keys' = <<>> /\ Len(keys') = 0 /\ 1 .. Len(keys') = {} /\ keys' \in Seq(Seq(Point))
    BY <1>2, <1>3
  <2>2. 0 <= split'.treshold
    BY <1>1, <1>2, SplitFacts
  <2> QED BY <2>1, <2>2
<1> QED BY <1>12, <1>13 DEF ShamirInv

\* A participant's share.
LEMMA ColumnLaw ==
  ASSUME ShamirInv, Created, NEW p \in 1 .. split.shares
  PROVE  /\ Column(p) \in Seq(Point) /\ Len(Column(p)) = Len(matrix)
         /\ Len(matrix) \in Nat /\ Len(matrix) > 0
         /\ \A chunk \in 1 .. Len(matrix) : Column(p)[chunk] = matrix[chunk][p]
<1> DEFINE Rows == [1 .. split.shares -> Point]
<1>1. matrix \in Seq(Rows) /\ split \in Split
  BY DEF ShamirInv
<1>2. Len(matrix) \in Nat /\ DOMAIN matrix = 1 .. Len(matrix)
  BY <1>1
<1>3. Len(matrix) > 0
  <2>1. Len(matrix) = Chunks(split.secret) + 1 /\ Chunks(split.secret) \in Nat
    BY <1>1, SplitFacts DEF Created, Plaintext
  <2> QED BY <2>1
<1>4. \A chunk \in 1 .. Len(matrix) : matrix[chunk] \in Rows
  BY <1>1, SequenceElement
<1>5. \A chunk \in 1 .. Len(matrix) : matrix[chunk][p] \in Point
  BY <1>4
<1>6. Column(p) = [chunk \in 1 .. Len(matrix) |-> matrix[chunk][p]]
  BY <1>2 DEF Column
<1> QED BY <1>2, <1>3, <1>5, <1>6

\* One more share is accepted.
LEMMA PopulateDecoderShamir ==
  ASSUME ShamirInv, NEW p \in 1 .. split.shares, PopulateDecoder(p)
  PROVE  ShamirInv'
<1> DEFINE n == Len(keys)
<1> DEFINE col == Column(p)
<1>1. /\ split \in Split /\ matrix \in Seq([1 .. split.shares -> Point])
      /\ Len(matrix) <= Len(Plaintext)
      /\ \A chunk \in 1 .. Len(matrix) : Drawn(matrix[chunk], split, chunk)
  BY DEF ShamirInv
<1>2. /\ keys \in Seq(Seq(Point)) /\ Len(keys) <= split.treshold
      /\ \A k \in 1 .. Len(keys) : \E q \in 1 .. split.shares : keys[k] = Column(q)
      /\ \A k, l \in 1 .. Len(keys) : k # l =>
            \A chunk \in 1 .. Len(matrix) : keys[k][chunk][1] # keys[l][chunk][1]
  BY DEF ShamirInv
<1>3. /\ Created /\ n < split.treshold /\ n \in Nat /\ split.treshold \in Nat
      /\ keys' = Append(keys, col) /\ split' = split /\ matrix' = matrix
  <2>1. ~(n >= split.treshold) /\ Created
        /\ keys' = Append(keys, col) /\ split' = split /\ matrix' = matrix
    BY DEF PopulateDecoder, ReadyToDecode
  <2>2. n \in Nat /\ split.treshold \in Nat
    BY <1>1, <1>2, SplitFacts
  <2> QED BY <2>1, <2>2
<1>4. /\ col \in Seq(Point) /\ Len(col) = Len(matrix) /\ Len(matrix) \in Nat
  BY <1>3, ColumnLaw
<1>5. \A k \in 1 .. n : \A chunk \in 1 .. Len(matrix) : keys[k][chunk][1] # col[chunk][1]
  <2>1. ValidateKeys(col)
    BY DEF PopulateDecoder
  <2>2. DOMAIN col = 1 .. Len(matrix) /\ DOMAIN keys = 1 .. n
    BY <1>2, <1>4
  <2> HIDE DEF col, n
  <2> QED BY <2>1, <2>2 DEF ValidateKeys
<1> HIDE DEF col
<1>6. /\ keys' \in Seq(Seq(Point)) /\ Len(keys') = n + 1
      /\ \A k \in 1 .. n : keys'[k] = keys[k]
      /\ keys'[n + 1] = col
  BY <1>2, <1>3, <1>4
<1>16. /\ \A k \in 1 .. n : \E q \in 1 .. split.shares : keys[k] = Column(q)
       /\ \A k, l \in 1 .. n : k # l =>
            \A chunk \in 1 .. Len(matrix) : keys[k][chunk][1] # keys[l][chunk][1]
  BY <1>2
<1> HIDE DEF n
<1>7. \A q \in 1 .. split.shares : Column(q)' = Column(q)
  BY <1>3 DEF Column
<1>8. \A k \in 1 .. n + 1 : \E q \in 1 .. split.shares : keys'[k] = Column(q)
  <2> SUFFICES ASSUME NEW k \in 1 .. n + 1
               PROVE  \E q \in 1 .. split.shares : keys'[k] = Column(q)
    OBVIOUS
  <2>1. CASE k = n + 1
    BY <1>6, <2>1 DEF col
  <2>2. CASE k # n + 1
    <3>1. k \in 1 .. n
      BY <1>3, <2>2
    <3>2. PICK q \in 1 .. split.shares : keys[k] = Column(q)
      BY <1>16, <3>1
    <3>3. keys'[k] = Column(q)
      BY <1>6, <3>1, <3>2
    <3> QED BY <3>3
  <2> QED BY <2>1, <2>2
<1>9. ASSUME NEW k \in 1 .. n + 1, NEW l \in 1 .. n + 1, k # l, NEW chunk \in 1 .. Len(matrix)
      PROVE  keys'[k][chunk][1] # keys'[l][chunk][1]
  <2>1. CASE k = n + 1
    <3>1. l \in 1 .. n
      BY <1>3, <1>9, <2>1
    <3>2. keys'[k] = col /\ keys'[l] = keys[l]
      BY <1>6, <2>1, <3>1
    <3>3. col[chunk][1] # keys[l][chunk][1]
      BY <1>5, <3>1
    <3> QED BY <3>2, <3>3
  <2>2. CASE l = n + 1
    <3>1. k \in 1 .. n
      BY <1>3, <1>9, <2>2
    <3>2. keys'[l] = col /\ keys'[k] = keys[k]
      BY <1>6, <2>2, <3>1
    <3>3. col[chunk][1] # keys[k][chunk][1]
      BY <1>5, <3>1
    <3> QED BY <3>2, <3>3
  <2>3. CASE k # n + 1 /\ l # n + 1
    <3>1. k \in 1 .. n /\ l \in 1 .. n
      BY <1>3, <2>3
    <3>2. keys'[k] = keys[k] /\ keys'[l] = keys[l]
      BY <1>6, <3>1
    <3>3. keys[k][chunk][1] # keys[l][chunk][1]
      BY <1>9, <1>16, <3>1
    <3> QED BY <3>2, <3>3
  <2> QED BY <2>1, <2>2, <2>3
<1>17. \A k, l \in 1 .. n + 1 : k # l =>
          \A chunk \in 1 .. Len(matrix) : keys'[k][chunk][1] # keys'[l][chunk][1]
  BY <1>9
<1>10. Plaintext' = Plaintext /\ (Created <=> Created')
  BY <1>3 DEF Plaintext, Created
<1>11. n + 1 <= split.treshold
  BY <1>3
<1>12. /\ (split \in Split)' /\ (matrix \in Seq([1 .. split.shares -> Point]))'
       /\ (Len(matrix) <= Len(Plaintext))'
       /\ (\A chunk \in 1 .. Len(matrix) : Drawn(matrix[chunk], split, chunk))'
  BY <1>1, <1>3, <1>10
<1>13. /\ (keys \in Seq(Seq(Point)))' /\ (keys # <<>> => Created)'
       /\ (Len(keys) <= split.treshold)'
  BY <1>3, <1>6, <1>10, <1>11
<1>14. (\A k \in 1 .. Len(keys) : \E q \in 1 .. split.shares : keys[k] = Column(q))'
  BY <1>3, <1>6, <1>7, <1>8
<1>15. (\A k, l \in 1 .. Len(keys) : k # l =>
             \A chunk \in 1 .. Len(matrix) : keys[k][chunk][1] # keys[l][chunk][1])'
  <2>1. Len(keys') = n + 1 /\ matrix' = matrix
    BY <1>3, <1>6
  <2> QED BY <1>17, <2>1
<1> QED BY <1>12, <1>13, <1>14, <1>15 DEF ShamirInv

\* A step that changes nothing.
LEMMA StutterShamir == ShamirInv /\ UNCHANGED vars => ShamirInv'
<1> SUFFICES ASSUME ShamirInv, UNCHANGED vars PROVE ShamirInv'
  OBVIOUS
<1>1. split' = split /\ matrix' = matrix /\ keys' = keys
  BY DEF vars
<1>2. Plaintext' = Plaintext /\ (Created' <=> Created)
  BY <1>1 DEF Plaintext, Created
<1>3. \A p \in 1 .. split.shares : Column(p)' = Column(p)
  BY <1>1 DEF Column
<1>4. /\ (split \in Split)' /\ (matrix \in Seq([1 .. split.shares -> Point]))'
      /\ (Len(matrix) <= Len(Plaintext))' /\ (keys # <<>> => Created)'
      /\ (keys \in Seq(Seq(Point)))' /\ (Len(keys) <= split.treshold)'
  BY <1>1, <1>2 DEF ShamirInv
<1>5. (\A chunk \in 1 .. Len(matrix) : Drawn(matrix[chunk], split, chunk))'
  BY <1>1 DEF ShamirInv
<1>6. (\A k \in 1 .. Len(keys) : \E p \in 1 .. split.shares : keys[k] = Column(p))'
  BY <1>1, <1>3 DEF ShamirInv
<1>7. (\A k, l \in 1 .. Len(keys) : k # l =>
          \A chunk \in 1 .. Len(matrix) : keys[k][chunk][1] # keys[l][chunk][1])'
  BY <1>1 DEF ShamirInv
<1> QED BY <1>4, <1>5, <1>6, <1>7 DEF ShamirInv

\* Type correctness of shamir.py's state, and where every accepted share
\* comes from: a column of the matrix create_secret() finished.
THEOREM ShamirInvariant == Spec => []ShamirInv
<1>1. ShamirInv /\ [Next]_vars => ShamirInv'
  <2> SUFFICES ASSUME ShamirInv, [Next]_vars PROVE ShamirInv'
    OBVIOUS
  <2>1. CASE GenerateShares
    BY <2>1, GenerateSharesShamir
  <2>2. ASSUME NEW p \in 1 .. split.shares, PopulateDecoder(p) PROVE ShamirInv'
    BY <2>2, PopulateDecoderShamir
  <2>3. CASE UNCHANGED vars
    BY <2>3, StutterShamir
  <2>4. CASE Done
    BY <2>4, StutterShamir DEF Done
  <2> QED BY <2>1, <2>2, <2>3, <2>4 DEF Next
<1> QED BY <1>1, InitShamir, PTL DEF Spec

-----------------------------------------------------------------------------
(* Decoding.                                                                *)

\* What the decoder knows of one integer.
Known(chunk) == [k \in DOMAIN keys |-> keys[k][chunk]]

\* What a decoder knows of a chunk are points of the polynomial that was drawn
\* for it, with distinct x-values other than 0.
LEMMA KnownLaw ==
  ASSUME ShamirInv, Created, NEW chunk \in 1 .. Len(matrix)
  PROVE  /\ GoodPoints(Known(chunk)) /\ DOMAIN Known(chunk) = 1 .. Len(keys)
         /\ Cardinality(DOMAIN Known(chunk)) = Len(keys) /\ Len(keys) \in Nat
         /\ \A k \in 1 .. Len(keys) : Known(chunk)[k] = keys[k][chunk] /\ Known(chunk)[k] \in Point
         /\ \E c \in [0 .. split.treshold - 1 -> Field] :
              /\ c[0] = Plaintext[chunk]
              /\ \A k \in 1 .. Len(keys) :
                    Known(chunk)[k][2] = Polynom(Known(chunk)[k][1], c)
<1> DEFINE n == Len(keys)
<1> DEFINE pt == Known(chunk)
<1>1. /\ split \in Split /\ keys \in Seq(Seq(Point))
      /\ Drawn(matrix[chunk], split, chunk)
      /\ \A k \in 1 .. n : \E p \in 1 .. split.shares : keys[k] = Column(p)
      /\ \A k, l \in 1 .. n : k # l => keys[k][chunk][1] # keys[l][chunk][1]
  BY DEF ShamirInv
<1>2. n \in Nat /\ DOMAIN keys = 1 .. n
  BY <1>1
<1>3. \A k \in 1 .. n : pt[k] = keys[k][chunk]
  BY <1>2 DEF Known
<1>4. DOMAIN pt = 1 .. n
  BY <1>2 DEF Known
<1>5. chunk \in 1 .. Chunks(split.secret) + 1
  BY <1>1, SplitFacts DEF Created, Plaintext
<1>6. PICK c : DrawnWith(matrix[chunk], split, chunk, c)
  BY <1>1, <1>5, DrawnLaw
<1>13. /\ c \in [0 .. split.treshold - 1 -> Field]
       /\ c[0] = StringToIntegers(split.secret)[chunk]
       /\ matrix[chunk] \in [1 .. split.shares -> Point]
       /\ \A p \in 1 .. split.shares : matrix[chunk][p][2] = Polynom(matrix[chunk][p][1], c)
  BY <1>6 DEF DrawnWith
<1>12. \A k, l \in 1 .. n : k # l => keys[k][chunk][1] # keys[l][chunk][1]
  BY <1>1
<1> HIDE DEF pt, n
<1>7. ASSUME NEW k \in 1 .. n
      PROVE  pt[k] \in Point /\ pt[k][2] = Polynom(pt[k][1], c)
  <2>1. PICK p \in 1 .. split.shares : keys[k] = Column(p)
    BY <1>1, <1>7 DEF n
  <2>2. Column(p)[chunk] = matrix[chunk][p]
    BY ColumnLaw
  <2>3. pt[k] = matrix[chunk][p]
    BY <1>3, <2>1, <2>2
  <2> QED BY <1>13, <2>3
<1>8. GoodPoints(pt)
  <2>1. IsFiniteSet(DOMAIN pt)
    BY <1>2, <1>4, FS_Interval
  <2>2. ASSUME NEW k \in 1 .. n
        PROVE  /\ XOf(pt)[k] = pt[k][1] /\ XOf(pt)[k] \in Field /\ XOf(pt)[k] # 0
               /\ pt[k][2] \in Field
    <3>1. XOf(pt)[k] = pt[k][1]
      BY <1>4 DEF XOf
    <3>2. pt[k][1] \in 1 .. PRIME - 1 /\ pt[k][2] \in Field
      BY <1>7 DEF Point
    <3> DEFINE x == pt[k][1]
    <3> HIDE DEF x
    <3>3. x \in Field /\ x # 0
      <4>1. x \in 1 .. PRIME - 1
        BY <3>2 DEF x
      <4> QED BY <4>1, PrimeFacts DEF Field
    <3> QED BY <3>1, <3>2, <3>3 DEF x
  <2>3. \A k, l \in 1 .. n : XOf(pt)[k] = XOf(pt)[l] => k = l
    <3> SUFFICES ASSUME NEW k \in 1 .. n, NEW l \in 1 .. n, k # l
                 PROVE  XOf(pt)[k] # XOf(pt)[l]
      OBVIOUS
    <3>1. keys[k][chunk][1] # keys[l][chunk][1]
      BY <1>12
    <3>2. pt[k] = keys[k][chunk] /\ pt[l] = keys[l][chunk]
      BY <1>3
    <3> QED BY <2>2, <3>1, <3>2
  <2>4. DOMAIN XOf(pt) = 1 .. n
    BY <1>4 DEF XOf
  <2>5. Distinct(XOf(pt), DOMAIN pt)
    BY <1>4, <2>2, <2>3, <2>4 DEF Distinct
  <2> QED BY <1>4, <2>1, <2>2, <2>5 DEF GoodPoints
<1>9. Cardinality(1 .. n) = n
  <2>1. Cardinality(1 .. n) = IF 1 > n THEN 0 ELSE n - 1 + 1
    BY <1>2, FS_Interval
  <2> QED BY <1>2, <2>1
<1>10. c[0] = Plaintext[chunk]
  BY <1>13 DEF Plaintext
<1>11. \E e \in [0 .. split.treshold - 1 -> Field] :
            e[0] = Plaintext[chunk] /\ \A k \in 1 .. n : pt[k][2] = Polynom(pt[k][1], e)
  BY <1>7, <1>10, <1>13
<1> QED BY <1>2, <1>3, <1>4, <1>7, <1>8, <1>9, <1>11 DEF pt, n

\* A decoder that is ready has a treshold of shares with a point for each integer.
LEMMA ReadyFacts ==
  ASSUME ShamirInv, Created, ReadyToDecode
  PROVE  /\ split \in Split /\ keys \in Seq(Seq(Point)) /\ 1 \in DOMAIN keys
         /\ DOMAIN keys[1] = 1 .. Len(Plaintext) /\ Len(matrix) = Len(Plaintext)
         /\ Len(Plaintext) = Chunks(split.secret) + 1
         /\ DOMAIN keys = 1 .. Len(keys) /\ Len(keys) \in Nat /\ Len(keys) >= split.treshold
         /\ split.treshold \in Nat /\ split.treshold >= 2
<1>1. /\ split \in Split /\ keys \in Seq(Seq(Point)) /\ Len(matrix) = Len(Plaintext)
      /\ \A k \in 1 .. Len(keys) : \E p \in 1 .. split.shares : keys[k] = Column(p)
  BY DEF ShamirInv, Created
<1>2. split.treshold \in Nat /\ split.treshold >= 2 /\ Len(Plaintext) = Chunks(split.secret) + 1
  BY <1>1, SplitFacts DEF Plaintext
<1>3. Len(keys) \in Nat /\ DOMAIN keys = 1 .. Len(keys) /\ Len(keys) >= split.treshold
  BY <1>1 DEF ReadyToDecode
<1>4. 1 \in 1 .. Len(keys)
  BY <1>2, <1>3
<1>5. PICK p \in 1 .. split.shares : keys[1] = Column(p)
  BY <1>1, <1>4
<1>6. Column(p) \in Seq(Point) /\ Len(Column(p)) = Len(matrix)
  BY ColumnLaw
<1>7. DOMAIN Column(p) = 1 .. Len(matrix)
  BY <1>6
<1> QED BY <1>1, <1>2, <1>3, <1>4, <1>5, <1>7

\* Each integer comes back.
LEMMA ChunkDecodes ==
  ASSUME ShamirInv, Created, ReadyToDecode, NEW chunk \in 1 .. Len(matrix)
  PROVE  ReconstructSecret(Known(chunk)) = Plaintext[chunk]
<1> DEFINE m == split.treshold - 1
<1>1. m \in Nat /\ Len(keys) > m
  BY ReadyFacts
<1>2. PICK c \in [0 .. m -> Field] :
         /\ c[0] = Plaintext[chunk]
         /\ \A k \in 1 .. Len(keys) : Known(chunk)[k][2] = Polynom(Known(chunk)[k][1], c)
  BY KnownLaw
<1>3. /\ GoodPoints(Known(chunk)) /\ DOMAIN Known(chunk) = 1 .. Len(keys)
      /\ Cardinality(DOMAIN Known(chunk)) = Len(keys)
  BY KnownLaw
<1> HIDE DEF m
<1>4. \A k \in DOMAIN Known(chunk) : Known(chunk)[k][2] = Polynom(Known(chunk)[k][1], c)
  BY <1>2, <1>3
<1>5. Cardinality(DOMAIN Known(chunk)) > m
  BY <1>1, <1>3
<1> QED BY <1>1, <1>2, <1>3, <1>4, <1>5, ReconstructsConstant

\* So does the string.
LEMMA ShamirInvDecodes == ShamirInv => AnyTresholdDecodes
<1> SUFFICES ASSUME ShamirInv, Created, ReadyToDecode PROVE Decode(keys) = split.secret
  BY DEF AnyTresholdDecodes
<1> DEFINE list == [chunk \in DOMAIN keys[1] |->
                      ReconstructSecret([k \in DOMAIN keys |-> keys[k][chunk]])]
<1>1. /\ split \in Split /\ DOMAIN keys[1] = 1 .. Len(Plaintext) /\ Len(matrix) = Len(Plaintext)
  BY ReadyFacts
<1>2. \A chunk \in 1 .. Len(Plaintext) :
        ReconstructSecret([k \in DOMAIN keys |-> keys[k][chunk]]) = Plaintext[chunk]
  BY <1>1, ChunkDecodes DEF Known
<1>3. list = [chunk \in 1 .. Len(Plaintext) |-> Plaintext[chunk]]
  BY <1>1, <1>2
<1>4. /\ StringToIntegers(split.secret) \in Seq(Nat)
      /\ IntegerListToString(StringToIntegers(split.secret)) = split.secret
  BY <1>1, SplitFacts
<1>5. [chunk \in 1 .. Len(Plaintext) |-> Plaintext[chunk]] = Plaintext
  BY <1>4 DEF Plaintext
<1>6. IntegerListToString(list) = split.secret
  BY <1>3, <1>4, <1>5 DEF Plaintext
<1> HIDE DEF list
<1> QED BY <1>6 DEF Decode, list

\* create_secret() and decode() agree: any treshold of the shares, in
\* whichever order they came, give the secret back byte for byte, for every
\* prime, chunk size, secret, polynomial and choice of x-values.
THEOREM SecretComesBack == Spec => []AnyTresholdDecodes
BY ShamirInvariant, ShamirInvDecodes, PTL

-----------------------------------------------------------------------------
(* Damage.                                                                  *)

\* A summand can be cancelled.
LEMMA AddCancel ==
  ASSUME NEW a \in Field, NEW b \in Field, NEW c \in Field, Add(a, c) = Add(b, c)
  PROVE  a = b
<1>1. Neg(c) \in Field
  BY FieldIsClosed
<1>2. Add(Add(a, c), Neg(c)) = a
  <2>1. Add(a, Add(c, Neg(c))) = Add(Add(a, c), Neg(c))
    BY <1>1, AddLaws
  <2>2. Add(c, Neg(c)) = 0 /\ Add(a, 0) = a
    BY AddLaws
  <2> QED BY <2>1, <2>2
<1>3. Add(Add(b, c), Neg(c)) = b
  <2>1. Add(b, Add(c, Neg(c))) = Add(Add(b, c), Neg(c))
    BY <1>1, AddLaws
  <2>2. Add(c, Neg(c)) = 0 /\ Add(b, 0) = b
    BY AddLaws
  <2> QED BY <2>1, <2>2
<1> QED BY <1>2, <1>3

\* No point is without weight, since 0 is nobody's x-coordinate.
LEMMA BasisNotZero ==
  ASSUME NEW X, NEW J, IsFiniteSet(J), Distinct(X, J), NEW j \in J
  PROVE  Basis(X, J, j) # 0
<1> DEFINE n == ProductOver(J \ {j}, NegOf(X))
<1> DEFINE d == ProductOver(J \ {j}, DiffOf(X, j))
<1> DEFINE w == InverseModPrime(d)
<1>1. n \in Field /\ d \in Field /\ d # 0 /\ FieldMap(NegOf(X), J)
  BY BasisParts
<1>2. n # 0
  <2> DEFINE K == J \ {j}
  <2>1. IsFiniteSet(K)
    BY FS_Subset
  <2>2. FieldMap(NegOf(X), K)
    BY <1>1 DEF FieldMap
  <2>3. ASSUME NEW i \in K PROVE NegOf(X)[i] # 0
    <3>1. i \in DOMAIN X /\ X[i] \in Field /\ X[i] # 0
      BY DEF Distinct
    <3>2. NegOf(X)[i] = Neg(X[i])
      BY <3>1 DEF NegOf
    <3>3. Add(X[i], Neg(X[i])) = 0 /\ Add(X[i], 0) = X[i]
      BY <3>1, AddLaws
    <3> QED BY <3>1, <3>2, <3>3
  <2> HIDE DEF K
  <2>4. ProductOver(K, NegOf(X)) # 0
    BY <2>1, <2>2, <2>3, ProductNotZero
  <2> QED BY <2>4 DEF K
<1> HIDE DEF n, d
<1>3. w \in Field /\ Mul(d, w) = 1
  BY <1>1, InverseLaw
<1>4. w # 0
  <2>1. Mul(d, 0) = 0
    BY <1>1, MulLaws
  <2> QED BY <1>3, <2>1
<1> HIDE DEF w
<1>5. Mul(n, w) # 0
  BY <1>1, <1>2, <1>3, <1>4, NoZeroDivisors
<1> QED BY <1>5 DEF Basis, n, w, d

\* One other value gives another result.
LEMMA WeightedChange ==
  ASSUME NEW X, NEW J, IsFiniteSet(J), Distinct(X, J), NEW F, NEW G, NEW k \in J,
         FieldMap(F, J), FieldMap(G, J), \A j \in J \ {k} : F[j] = G[j], F[k] # G[k]
  PROVE  /\ Weighted(X, J, F) # Weighted(X, J, G)
         /\ Weighted(X, J, G) \in Field
<1> DEFINE K == J \ {k}
<1> DEFINE f == [j \in J |-> Mul(F[j], Basis(X, J, j))]
<1> DEFINE g == [j \in J |-> Mul(G[j], Basis(X, J, j))]
<1> DEFINE b == Basis(X, J, k)
<1>1. IsFiniteSet(K) /\ k \notin K /\ K \cup {k} = J /\ K \subseteq J
  BY FS_Subset
<1>2. \A j \in J : Basis(X, J, j) \in Field
  BY BasisParts
<1>3. \A j \in J : Mul(F[j], Basis(X, J, j)) \in Field /\ Mul(G[j], Basis(X, J, j)) \in Field
  BY <1>2, FieldIsClosed DEF FieldMap
<1>4. FieldMap(f, J) /\ FieldMap(g, J)
  BY <1>3 DEF FieldMap
<1>5. f[k] = Mul(F[k], b) /\ g[k] = Mul(G[k], b) /\ \A j \in K : f[j] = g[j]
  BY <1>1
<1>6. b \in Field /\ b # 0 /\ F[k] \in Field /\ G[k] \in Field
  BY <1>2, BasisNotZero DEF FieldMap
<1>7. Weighted(X, J, F) = SumOver(J, f) /\ Weighted(X, J, G) = SumOver(J, g)
  BY DEF Weighted
<1> HIDE DEF f, g, b, K
<1>8. SumOver(K, f) = SumOver(K, g)
  <2>1. [j \in K |-> f[j]] = [j \in K |-> g[j]]
    BY <1>5
  <2> QED BY <2>1 DEF SumOver
<1>9. /\ SumOver(J, f) = Add(f[k], SumOver(K, f)) /\ SumOver(J, g) = Add(g[k], SumOver(K, g))
      /\ SumOver(K, f) \in Field /\ f[k] \in Field /\ g[k] \in Field
  <2>1. FieldMap(f, K \cup {k}) /\ FieldMap(g, K \cup {k})
    BY <1>1, <1>4
  <2>2. /\ SumOver(K \cup {k}, f) = Add(f[k], SumOver(K, f))
        /\ SumOver(K, f) \in Field /\ f[k] \in Field
    BY <1>1, <2>1, SumOne
  <2>3. SumOver(K \cup {k}, g) = Add(g[k], SumOver(K, g)) /\ g[k] \in Field
    BY <1>1, <2>1, SumOne
  <2> QED BY <1>1, <2>2, <2>3
<1>10. SumOver(J, g) \in Field
  BY <1>4, OverInField
<1>11. SumOver(J, f) # SumOver(J, g)
  <2> SUFFICES ASSUME SumOver(J, f) = SumOver(J, g) PROVE FALSE
    OBVIOUS
  <2>1. f[k] = g[k]
    BY <1>8, <1>9, AddCancel
  <2>2. Mul(b, F[k]) = Mul(b, G[k])
    <3>1. Mul(b, F[k]) = Mul(F[k], b) /\ Mul(b, G[k]) = Mul(G[k], b)
      BY <1>6, MulLaws
    <3> QED BY <1>5, <2>1, <3>1
  <2>3. F[k] = G[k]
    BY <1>6, <2>2, MulCancel
  <2> QED BY <2>3
<1> QED BY <1>7, <1>10, <1>11

\* The same for the points a decoder has.
LEMMA ReconstructChange ==
  ASSUME NEW p, NEW q, GoodPoints(p), GoodPoints(q), NEW k \in DOMAIN p,
         DOMAIN q \subseteq DOMAIN p, DOMAIN p \subseteq DOMAIN q,
         \A j \in DOMAIN p : p[j][1] = q[j][1],
         \A j \in DOMAIN p \ {k} : p[j][2] = q[j][2],
         p[k][2] # q[k][2]
  PROVE  ReconstructSecret(p) # ReconstructSecret(q) /\ ReconstructSecret(q) \in Field
<1> DEFINE D == DOMAIN p
<1>0. DOMAIN q = D
  OBVIOUS
<1>1. XOf(p) = XOf(q)
  BY <1>0 DEF XOf
<1>2. \A j \in D : YOf(p)[j] = p[j][2] /\ YOf(q)[j] = q[j][2]
  BY <1>0 DEF YOf
<1>3. FieldMap(YOf(p), D) /\ FieldMap(YOf(q), D)
  BY <1>0, <1>2 DEF FieldMap, GoodPoints
<1>4. IsFiniteSet(D) /\ Distinct(XOf(p), D)
  BY DEF GoodPoints
<1>5. (\A j \in D \ {k} : YOf(p)[j] = YOf(q)[j]) /\ YOf(p)[k] # YOf(q)[k]
  BY <1>2
<1>6. /\ Weighted(XOf(p), D, YOf(p)) # Weighted(XOf(p), D, YOf(q))
      /\ Weighted(XOf(p), D, YOf(q)) \in Field
  <2> HIDE DEF D
  <2>1. k \in D
    BY DEF D
  <2> QED BY <1>3, <1>4, <1>5, <2>1, WeightedChange
<1>7. /\ ReconstructSecret(p) = Weighted(XOf(p), D, YOf(p))
      /\ ReconstructSecret(q) = Weighted(XOf(q), D, YOf(q))
  BY <1>0, ReconstructIsWeighted
<1> QED BY <1>1, <1>6, <1>7

\* The bytes of an integer that fits determine it.
LEMMA BytesDetermine ==
  ASSUME NEW x \in Nat, NEW y \in Nat, NEW n \in Nat,
         Shifted(x, n) = 0, Shifted(y, n) = 0,
         \A i \in 1 .. n : Shifted(x, n - i) % Base = Shifted(y, n - i) % Base
  PROVE  x = y
<1> DEFINE N == {i \in Nat : i <= n => Shifted(x, n - i) = Shifted(y, n - i)}
<1>1. 0 \in N
  <2>1. n - 0 = n
    OBVIOUS
  <2> QED BY <2>1
<1>2. ASSUME NEW i \in Nat, i \in N PROVE i + 1 \in N
  <2> SUFFICES ASSUME i + 1 <= n PROVE Shifted(x, n - (i + 1)) = Shifted(y, n - (i + 1))
    OBVIOUS
  <2> DEFINE k == n - (i + 1)
  <2>1. k \in Nat /\ k + 1 = n - i /\ i <= n /\ i + 1 \in 1 .. n
    OBVIOUS
  <2>2. Shifted(x, n - i) = Shifted(y, n - i)
    BY <1>2, <2>1
  <2>3. Shifted(x, k) % Base = Shifted(y, k) % Base
    BY <2>1
  <2> HIDE DEF k, N
  <2> DEFINE a == Shifted(x, k)
  <2> DEFINE b == Shifted(y, k)
  <2>4. a \in Nat /\ b \in Nat /\ Shifted(x, k + 1) = a \div Base /\ Shifted(y, k + 1) = b \div Base
    BY <2>1, ShiftedLaw
  <2>5. a \div Base = b \div Base /\ a % Base = b % Base
    BY <2>1, <2>2, <2>3, <2>4
  <2> HIDE DEF a, b
  <2>6. a = Base * (a \div Base) + (a % Base) /\ b = Base * (b \div Base) + (b % Base)
    BY <2>4, BaseFacts
  <2>7. a = b
    BY <2>5, <2>6
  <2> QED BY <2>7 DEF a, b, k
<1>3. N = Nat
  <2> HIDE DEF N
  <2>1. N \in SUBSET Nat
    BY DEF N
  <2> QED BY <1>1, <1>2, <2>1, NaturalsBySteps
<1>4. Shifted(x, 0) = Shifted(y, 0)
  <2>1. n \in N /\ n - n = 0
    BY <1>3
  <2> QED BY <2>1
<1>5. Shifted(x, 0) = x /\ Shifted(y, 0) = y
  <2>1. 0 \in Nat
    OBVIOUS
  <2> QED BY <2>1, ShiftedLaw
<1> QED BY <1>4, <1>5

\* q and r are the quotient and the remainder of x by b.
Division(x, b, q, r) ==
  /\ b \in Nat /\ b > 0 /\ q \in Nat /\ r \in 0 .. b - 1 /\ x \in Nat
  /\ x = b * q + r

\* Division, by any number.
LEMMA DivideLaw ==
  ASSUME NEW b, NEW q, NEW r, NEW x, Division(x, b, q, r)
  PROVE  x \div b = q /\ x % b = r
<1>1. b \in Nat /\ b > 0 /\ q \in Nat /\ r \in 0 .. b - 1 /\ x \in Nat /\ x = b * q + r
  BY DEF Division
<1>2. x % b = r
  BY <1>1
<1>3. x \div b = q
  BY <1>1
<1> QED BY <1>2, <1>3

\* An integer other than the one that was packed, where nothing of it is
\* padding: the string is another, or there is none.
LEMMA PackingShows ==
  ASSUME NEW raw \in Seq(0 .. Base - 1), NEW list, Len(list) = Chunks(raw) + 1,
         \A i \in 1 .. Chunks(raw) + 1 : list[i] \in Nat,
         NEW chunk \in 1 .. Chunks(raw) + 1,
         \A i \in (1 .. Chunks(raw) + 1) \ {chunk} : list[i] = StringToIntegers(raw)[i],
         list[chunk] # StringToIntegers(raw)[chunk],
         IF chunk = 1 THEN Len(raw) % BytesPerInteger # 0
                      ELSE BytesPerInteger * (chunk - 1) <= Len(raw),
         IntegerListToString(list) # NoSecret
  PROVE  IntegerListToString(list) # raw
<1> DEFINE b == BytesPerInteger
<1> DEFINE n == Len(raw)
<1> DEFINE size == b * (Len(list) - 1)
<1> DEFINE byte(k) == Shifted(list[2 + (k - 1) \div b], b - 1 - ((k - 1) % b)) % Base
<1> DEFINE len == IF list[1] < size THEN list[1] ELSE size
<1>0. b \in Nat /\ b > 0 /\ n \in Nat /\ Chunks(raw) \in Nat /\ b * Chunks(raw) >= n
  BY BaseFacts, ChunksLaw
<1>1. StringToIntegers(raw)[1] = n
      /\ \A i \in 2 .. Chunks(raw) + 1 : StringToIntegers(raw)[i] = FromBytes(Chunk(raw, i - 1))
  BY IntegersLaw
<1>2. /\ IntegerListToString(list) = [k \in 1 .. len |-> byte(k)]
      /\ \A i \in 2 .. Len(list) : Shifted(list[i], b) = 0
  BY DEF IntegerListToString
<1>3. size = b * Chunks(raw) /\ size \in Nat
  <2>1. Len(list) - 1 = Chunks(raw)
    BY <1>0
  <2>2. b * Chunks(raw) \in Nat
    BY <1>0
  <2> QED BY <2>1, <2>2
<1>4. list[1] \in Nat
  BY <1>0
<1> SUFFICES ASSUME [k \in 1 .. len |-> byte(k)] = raw PROVE FALSE
  BY <1>2
<1> HIDE DEF byte
<1>5. len = n
  <2>1. len \in Nat
    <3> HIDE DEF size
    <3> QED BY <1>3, <1>4
  <2> HIDE DEF len
  <2>2. DOMAIN raw = 1 .. len /\ DOMAIN raw = 1 .. n
    OBVIOUS
  <2> HIDE DEF n
  <2>3. 1 .. len = 1 .. n
    BY <2>2
  <2> QED BY <1>0, <2>1, <2>3
<1>6. CASE chunk = 1
  <2>1. list[1] # n /\ n % b # 0
    BY <1>1, <1>6
  <2> HIDE DEF size, b, n
  <2>2. size = n
    BY <1>3, <1>4, <1>5, <2>1
  <2>3. n = b * Chunks(raw) + 0 /\ 0 \in 0 .. b - 1
    BY <1>0, <1>3, <2>2
  <2>4. n % b = 0
    <3> DEFINE r == 0
    <3>1. r \in 0 .. b - 1 /\ n = b * Chunks(raw) + r
      BY <2>3
    <3> HIDE DEF r
    <3>2. Division(n, b, Chunks(raw), r)
      BY <1>0, <3>1 DEF Division
    <3>3. n % b = r
      BY <3>2, DivideLaw
    <3> QED BY <3>3 DEF r
  <2> QED BY <2>1, <2>4
<1>7. CASE chunk # 1
  <2> DEFINE q == chunk - 2
  <2>1. q \in Nat /\ chunk = 2 + q /\ chunk - 1 = q + 1 /\ chunk \in 2 .. Chunks(raw) + 1
    BY <1>0, <1>7
  <2>2. b * (q + 1) <= n
    BY <1>7, <2>1
  <2> HIDE DEF q
  <2>3. ASSUME NEW i \in 1 .. b
        PROVE  Shifted(list[chunk], b - i) % Base = ByteOf(raw, q + 1, i)
    <3> DEFINE k == b * q + i
    <3> HIDE DEF b, n, size, len
    <3>1. b * q \in Nat /\ b * (q + 1) = b * q + b
      BY <1>0, <2>1
    <3>2. k \in 1 .. n /\ k - 1 = b * q + (i - 1) /\ i - 1 \in 0 .. b - 1
      <4> DEFINE w == b * q
      <4>1. w \in Nat /\ w + b <= n /\ k = w + i
        BY <2>2, <3>1
      <4>2. b \in Nat /\ n \in Nat /\ i \in Nat /\ 1 <= i /\ i <= b
        BY <1>0
      <4> HIDE DEF w, k
      <4>3. k \in 1 .. n /\ k - 1 = w + (i - 1) /\ i - 1 \in 0 .. b - 1
        BY <4>1, <4>2
      <4> QED BY <4>3 DEF w
    <3>3. (k - 1) \div b = q /\ (k - 1) % b = i - 1
      <4> DEFINE r == i - 1
      <4> DEFINE p == k - 1
      <4>1. p \in Nat /\ r \in 0 .. b - 1 /\ p = b * q + r
        BY <3>1, <3>2
      <4> HIDE DEF p, r
      <4>2. Division(p, b, q, r)
        BY <1>0, <2>1, <4>1 DEF Division
      <4>3. p % b = r /\ p \div b = q
        BY <4>2, DivideLaw
      <4> QED BY <4>3 DEF p, r
    <3>4. b - 1 - (i - 1) = b - i
      BY <1>0
    <3>5. byte(k) = Shifted(list[2 + (k - 1) \div b], b - 1 - ((k - 1) % b)) % Base
      BY DEF byte
    <3>6. byte(k) = Shifted(list[chunk], b - i) % Base
      BY <2>1, <3>3, <3>4, <3>5
    <3>7. byte(k) = raw[k]
      BY <1>5, <3>2
    <3>8. ByteOf(raw, q + 1, i) = raw[k]
      <4>1. (q + 1) - 1 = q
        BY <2>1
      <4>2. k <= Len(raw)
        BY <3>2 DEF n
      <4> QED BY <4>1, <4>2 DEF ByteOf, b
    <3> QED BY <3>6, <3>7, <3>8
  <2>4. q + 1 \in Nat /\ q + 1 > 0
    BY <2>1
  <2> DEFINE x == FromBytes(Chunk(raw, q + 1))
  <2>5. /\ x \in Field /\ Shifted(x, b) = 0
        /\ \A i \in 1 .. b : Shifted(x, b - i) % Base = ByteOf(raw, q + 1, i)
    BY <2>4, ChunkLaw
  <2>6. list[chunk] \in Nat /\ Shifted(list[chunk], b) = 0 /\ list[chunk] # x
    BY <1>1, <1>2, <2>1
  <2>7. x \in Nat
    BY <2>5, PrimeFacts
  <2> HIDE DEF x, b
  <2>8. \A i \in 1 .. b : Shifted(x, b - i) % Base = Shifted(list[chunk], b - i) % Base
    BY <2>3, <2>5
  <2>9. x = list[chunk]
    BY <1>0, <2>5, <2>6, <2>7, <2>8, BytesDetermine
  <2> QED BY <2>6, <2>9
<1> QED BY <1>6, <1>7

\* The points of one integer.
PointsOf(columns, chunk) == [j \in DOMAIN columns |-> columns[j][chunk]]

\* What damage does to the points of each integer.
LEMMA DamagedPoints ==
  ASSUME ShamirInv, Created, NEW k \in 1 .. Len(keys),
         NEW chunk \in 1 .. Len(matrix), NEW y \in Field,
         NEW ch \in 1 .. Len(matrix)
  PROVE  /\ DOMAIN PointsOf(Damaged(k, chunk, y), ch) = 1 .. Len(keys)
         /\ \A j \in 1 .. Len(keys) :
              PointsOf(Damaged(k, chunk, y), ch)[j][1] = Known(ch)[j][1]
         /\ \A j \in 1 .. Len(keys) :
              PointsOf(Damaged(k, chunk, y), ch)[j][2]
                = IF j = k /\ ch = chunk THEN y ELSE Known(ch)[j][2]
         /\ ch # chunk => PointsOf(Damaged(k, chunk, y), ch) = Known(ch)
<1> DEFINE n == Len(keys)
<1> DEFINE D == Damaged(k, chunk, y)
<1> DEFINE p == [j \in DOMAIN D |-> D[j][ch]]
<1>1. keys \in Seq(Seq(Point)) /\ DOMAIN keys = 1 .. n
  BY DEF ShamirInv
<1>2. \A j \in 1 .. n : Len(keys[j]) = Len(matrix) /\ keys[j] \in Seq(Point)
  <2> SUFFICES ASSUME NEW j \in 1 .. n PROVE Len(keys[j]) = Len(matrix) /\ keys[j] \in Seq(Point)
    OBVIOUS
  <2>1. PICK q \in 1 .. split.shares : keys[j] = Column(q)
    BY DEF ShamirInv
  <2> QED BY <2>1, ColumnLaw
<1>3. \A j \in 1 .. n : Known(ch)[j] = keys[j][ch]
  BY <1>1 DEF Known
<1>4. \A j \in 1 .. n : Known(ch)[j] \in Point
  BY KnownLaw
<1> DEFINE pt == [keys[k][chunk] EXCEPT ![2] = y]
<1> DEFINE col == [keys[k] EXCEPT ![chunk] = pt]
<1>5. D = [keys EXCEPT ![k] = col]
  BY DEF Damaged
<1>6. keys[k][chunk] \in Point
  <2>1. keys[k] \in Seq(Point) /\ chunk \in 1 .. Len(keys[k])
    BY <1>2
  <2> QED BY <2>1, SequenceElement
<1>7. pt[1] = keys[k][chunk][1] /\ pt[2] = y
  BY <1>6 DEF Point
<1>8. col[ch] = IF ch = chunk THEN pt ELSE keys[k][ch]
  <2>1. DOMAIN keys[k] = 1 .. Len(matrix)
    BY <1>2
  <2> HIDE DEF pt
  <2> QED BY <2>1
<1> HIDE DEF pt, col
<1>9. DOMAIN D = 1 .. n /\ \A j \in 1 .. n : D[j] = IF j = k THEN col ELSE keys[j]
  BY <1>1, <1>5
<1> HIDE DEF D
<1>10. DOMAIN p = 1 .. n /\ \A j \in 1 .. n : p[j] = D[j][ch]
  BY <1>9
<1>11. ASSUME NEW j \in 1 .. n
       PROVE  /\ p[j][1] = Known(ch)[j][1]
              /\ p[j][2] = IF j = k /\ ch = chunk THEN y ELSE Known(ch)[j][2]
              /\ ch # chunk => p[j] = Known(ch)[j]
  <2>1. p[j] = IF j = k /\ ch = chunk THEN pt ELSE Known(ch)[j]
    BY <1>3, <1>8, <1>9, <1>10
  <2>2. j = k /\ ch = chunk => pt[1] = Known(ch)[j][1]
    BY <1>3, <1>7
  <2> HIDE DEF p
  <2> QED BY <1>7, <2>1, <2>2
<1>12. ch # chunk => p = Known(ch)
  <2> SUFFICES ASSUME ch # chunk PROVE p = Known(ch)
    OBVIOUS
  <2>1. Known(ch) = [j \in 1 .. n |-> Known(ch)[j]]
    BY <1>1 DEF Known
  <2>2. p = [j \in 1 .. n |-> p[j]]
    BY <1>9
  <2> HIDE DEF p
  <2> QED BY <1>11, <2>1, <2>2
<1> HIDE DEF p
<1>13. /\ DOMAIN p = 1 .. n
       /\ \A j \in 1 .. n : p[j][1] = Known(ch)[j][1]
       /\ \A j \in 1 .. n : p[j][2] = IF j = k /\ ch = chunk THEN y ELSE Known(ch)[j][2]
       /\ ch # chunk => p = Known(ch)
  BY <1>10, <1>11, <1>12
<1> QED BY <1>13 DEF p, D, PointsOf

\* What the damaged chunk is interpolated to.
LEMMA DamagedChunk ==
  ASSUME ShamirInv, Created, ReadyToDecode, NEW k \in 1 .. Len(keys),
         NEW chunk \in 1 .. Len(matrix), NEW y \in Field, y # keys[k][chunk][2]
  PROVE  /\ ReconstructSecret(PointsOf(Damaged(k, chunk, y), chunk)) # Plaintext[chunk]
         /\ ReconstructSecret(PointsOf(Damaged(k, chunk, y), chunk)) \in Field
<1> DEFINE p == PointsOf(Damaged(k, chunk, y), chunk)
<1> DEFINE q == Known(chunk)
<1>1. /\ DOMAIN p = 1 .. Len(keys)
      /\ \A j \in 1 .. Len(keys) : p[j][1] = q[j][1]
      /\ \A j \in 1 .. Len(keys) : p[j][2] = IF j = k THEN y ELSE q[j][2]
  BY DamagedPoints
<1>2. /\ GoodPoints(q) /\ DOMAIN q = 1 .. Len(keys)
      /\ q[k] = keys[k][chunk]
  BY KnownLaw
<1> HIDE DEF p, q
<1>3. GoodPoints(p)
  <2>1. XOf(p) = XOf(q)
    BY <1>1, <1>2 DEF XOf
  <2>2. \A j \in DOMAIN p : p[j][2] \in Field
    BY <1>1, <1>2 DEF GoodPoints
  <2> QED BY <1>1, <1>2, <2>1, <2>2 DEF GoodPoints
<1>4. q[k][2] # p[k][2]
  BY <1>1, <1>2
<1>5. ReconstructSecret(q) # ReconstructSecret(p) /\ ReconstructSecret(p) \in Field
  <2>1. k \in DOMAIN q /\ DOMAIN p \subseteq DOMAIN q /\ DOMAIN q \subseteq DOMAIN p
    BY <1>1, <1>2
  <2>2. \A j \in DOMAIN q : q[j][1] = p[j][1]
    BY <1>1, <1>2
  <2>3. \A j \in DOMAIN q \ {k} : q[j][2] = p[j][2]
    BY <1>1, <1>2
  <2> QED BY <1>2, <1>3, <1>4, <2>1, <2>2, <2>3, ReconstructChange
<1>6. ReconstructSecret(q) = Plaintext[chunk]
  BY ChunkDecodes DEF q
<1> QED BY <1>5, <1>6 DEF p

\* Damage shows in the decoded string.
LEMMA ShamirInvShows == ShamirInv => DamageShows
<1> SUFFICES ASSUME ShamirInv, Created, ReadyToDecode, NEW k \in DOMAIN keys,
                    NEW chunk \in Essential,
                    NEW y \in Field \ {keys[k][chunk][2]}
             PROVE  Decode(Damaged(k, chunk, y)) = NoSecret
  BY DEF DamageShows
<1> DEFINE D == Damaged(k, chunk, y)
<1> DEFINE list == [ch \in DOMAIN D[1] |-> ReconstructSecret([j \in DOMAIN D |-> D[j][ch]])]
<1> DEFINE raw == split.secret
<1>1. /\ split \in Split /\ DOMAIN keys[1] = 1 .. Len(Plaintext) /\ Len(matrix) = Len(Plaintext)
      /\ Len(Plaintext) = Chunks(raw) + 1 /\ DOMAIN keys = 1 .. Len(keys) /\ 1 \in DOMAIN keys
      /\ keys \in Seq(Seq(Point))
  BY ReadyFacts
<1>2. /\ raw \in Seq(0 .. Base - 1) /\ Chunks(raw) \in Nat /\ Plaintext = StringToIntegers(raw)
      /\ \A i \in 1 .. Chunks(raw) + 1 : Plaintext[i] \in Field
  BY <1>1, SplitFacts DEF Plaintext
<1>3. /\ chunk \in 1 .. Len(matrix) /\ DOMAIN matrix = 1 .. Len(matrix)
      /\ IF chunk = 1 THEN Len(raw) % BytesPerInteger # 0
                      ELSE BytesPerInteger * (chunk - 1) <= Len(raw)
  <2>1. DOMAIN matrix = 1 .. Len(matrix)
    BY DEF ShamirInv
  <2> QED BY <2>1 DEF Essential
<1>4. DOMAIN D[1] = 1 .. Chunks(raw) + 1
  <2>1. DOMAIN D[1] = DOMAIN keys[1]
    <3> DEFINE col == [keys[k] EXCEPT ![chunk] = [keys[k][chunk] EXCEPT ![2] = y]]
    <3>1. D = [keys EXCEPT ![k] = col]
      BY DEF Damaged
    <3>2. DOMAIN col = DOMAIN keys[k]
      OBVIOUS
    <3> HIDE DEF col
    <3> QED BY <1>1, <3>1, <3>2
  <2> QED BY <1>1, <2>1
<1>5. ASSUME NEW ch \in 1 .. Chunks(raw) + 1
      PROVE  /\ list[ch] \in Field
             /\ ch # chunk => list[ch] = Plaintext[ch]
             /\ ch = chunk => list[ch] # Plaintext[ch]
  <2> DEFINE p == PointsOf(D, ch)
  <2>1. list[ch] = ReconstructSecret(p)
    BY <1>4 DEF PointsOf
  <2>2. ch \in 1 .. Len(matrix) /\ k \in 1 .. Len(keys) /\ y \in Field /\ y # keys[k][chunk][2]
    BY <1>1
  <2> HIDE DEF list
  <2>3. CASE ch # chunk
    <3>1. p = Known(ch)
      BY <1>3, <2>2, <2>3, DamagedPoints
    <3>2. ReconstructSecret(Known(ch)) = Plaintext[ch]
      BY <2>2, ChunkDecodes
    <3> QED BY <1>2, <2>1, <2>3, <3>1, <3>2
  <2>4. CASE ch = chunk
    <3>1. ReconstructSecret(p) # Plaintext[ch] /\ ReconstructSecret(p) \in Field
      BY <1>3, <2>2, <2>4, DamagedChunk
    <3> HIDE DEF p
    <3> QED BY <2>1, <2>4, <3>1
  <2> QED BY <2>3, <2>4
<1>6. Len(list) = Chunks(raw) + 1
  BY <1>2, <1>4
<1>7. Decode(D) = IF IntegerListToString(list) = NoSecret \/ IntegerListToString(list) = raw
                  THEN IntegerListToString(list) ELSE NoSecret
  BY DEF Decode
<1> HIDE DEF list, D
<1> DEFINE string == IntegerListToString(list)
<1>8. string # NoSecret => string # raw
  <2> SUFFICES ASSUME string # NoSecret PROVE string # raw
    OBVIOUS
  <2>1. \A i \in 1 .. Chunks(raw) + 1 : list[i] \in Nat
    BY <1>5, PrimeFacts
  <2>2. \A i \in (1 .. Chunks(raw) + 1) \ {chunk} : list[i] = StringToIntegers(raw)[i]
    BY <1>2, <1>5
  <2>3. chunk \in 1 .. Chunks(raw) + 1 /\ list[chunk] # StringToIntegers(raw)[chunk]
    BY <1>1, <1>2, <1>3, <1>5
  <2> HIDE DEF raw
  <2> QED BY <1>2, <1>3, <1>6, <2>1, <2>2, <2>3, PackingShows
<1> HIDE DEF string, raw
<1>9. string = NoSecret \/ (string # NoSecret /\ string # raw)
  BY <1>8
<1>10. Decode(D) = NoSecret
  BY <1>7, <1>9 DEF string
<1> QED BY <1>10 DEF D

\* A y-value other than the drawn one, in whichever share and whatever it is,
\* never passes for the secret (_reconstruct_secret, integer_list_to_string,
\* the checksum of decode()), for every prime, chunk size and secret.
THEOREM DamageIsNoticed == Spec => []DamageShows
BY ShamirInvariant, ShamirInvShows, PTL

-----------------------------------------------------------------------------
(* Too few shares.                                                          *)

\* Multiplying a polynomial by a linear factor whose constant is 1.
FactorOf(g, w, e, m) ==
  /\ g[0] = e[0]
  /\ \A i \in 1 .. m : g[i] = Add(e[i], Mul(w, e[i - 1]))

\* The algebra of FactorLaw.
LEMMA FactorAlgebra ==
  ASSUME NEW z \in Field, NEW w \in Field, NEW a \in Field, NEW u \in Field, NEW v \in Field,
         NEW q \in Field
  PROVE  Add(Mul(Mul(z, a), Add(u, Mul(w, v))), Add(Add(Mul(a, v), q), Mul(Mul(w, z), q)))
           = Add(Add(Mul(Mul(z, a), u), Add(Mul(a, v), q)),
                 Mul(Mul(w, z), Add(Mul(a, v), q)))
<1> DEFINE p == Mul(z, a)
<1> DEFINE s == Mul(w, z)
<1> DEFINE r == Mul(a, v)
<1>1. p \in Field /\ s \in Field /\ r \in Field /\ Mul(w, v) \in Field
  BY FieldIsClosed
<1>2. Mul(p, Mul(w, v)) = Mul(s, r)
  <2>1. Mul(p, Mul(w, v)) = Mul(Mul(p, w), v) /\ Mul(p, w) = Mul(w, p)
    BY <1>1, MulLaws
  <2>2. Mul(w, Mul(z, a)) = Mul(Mul(w, z), a)
    BY MulLaws
  <2>3. Mul(s, Mul(a, v)) = Mul(Mul(s, a), v)
    BY <1>1, MulLaws
  <2> QED BY <2>1, <2>2, <2>3
<1>3. Mul(p, Add(u, Mul(w, v))) = Add(Mul(p, u), Mul(s, r))
  BY <1>1, <1>2, MulLaws
<1> HIDE DEF p, s, r
<1>4. Mul(s, Add(r, q)) = Add(Mul(s, r), Mul(s, q))
  BY <1>1, MulLaws
<1>5. Add(r, q) \in Field /\ Mul(s, r) \in Field /\ Mul(s, q) \in Field /\ Mul(p, u) \in Field
  BY <1>1, FieldIsClosed
<1>6. Add(Add(Mul(p, u), Mul(s, r)), Add(Add(r, q), Mul(s, q)))
        = Add(Add(Mul(p, u), Add(r, q)), Add(Mul(s, r), Mul(s, q)))
  BY <1>5, Regroup
<1> QED BY <1>3, <1>4, <1>6 DEF p, s, r

\* Such a product takes the value of the product at each point.
LEMMA FactorLaw ==
  ASSUME NEW z \in Field, NEW w \in Field, NEW m \in Nat, NEW e, NEW g, FieldMap(e, 0 .. m),
         FieldMap(g, 0 .. m), FactorOf(g, w, e, m), m > 0
  PROVE  Poly(z, g, m) = Add(Poly(z, e, m), Mul(Mul(w, z), Poly(z, e, m - 1)))
<1> DEFINE s == Mul(w, z)
<1> DEFINE Q(k) == IF k = 0 THEN 0 ELSE Poly(z, e, k - 1)
<1> DEFINE N == {k \in Nat : k <= m => Poly(z, g, k) = Add(Poly(z, e, k), Mul(s, Q(k)))}
<1>0. s \in Field /\ 0 \in Field
  BY FieldIsClosed, PrimeFacts
<1>1. ASSUME NEW k \in Nat, k <= m
      PROVE  /\ FieldMap(e, 0 .. k) /\ FieldMap(g, 0 .. k) /\ e[k] \in Field /\ g[k] \in Field
             /\ Poly(z, e, k) \in Field /\ Poly(z, g, k) \in Field
  <2>1. FieldMap(e, 0 .. k) /\ FieldMap(g, 0 .. k) /\ e[k] \in Field /\ g[k] \in Field
    BY <1>1 DEF FieldMap
  <2> QED BY <2>1, PolyLaw
<1>2. ASSUME NEW k \in Nat, k <= m
      PROVE  Poly(z, e, k) = Add(Mul(Power(z, k), e[k]), Q(k)) /\ Q(k) \in Field
  <2>1. CASE k = 0
    <3>1. 0 \in Nat /\ 0 <= m
      OBVIOUS
    <3>2. FieldMap(e, 0 .. 0) /\ e[0] \in Field
      BY <1>1, <3>1
    <3>3. Poly(z, e, 0) = e[0] /\ Power(z, 0) = 1
      <4>1. Poly(z, e, 0) = e[0]
        BY <3>1, <3>2, PolyLaw
      <4>2. Power(z, 0) = 1
        BY <3>1, PowerLaw
      <4> QED BY <4>1, <4>2
    <3>4. Mul(1, e[0]) = e[0] /\ Add(e[0], 0) = e[0]
      BY <1>0, <3>2, MulLaws, AddLaws
    <3> QED BY <1>0, <2>1, <3>3, <3>4
  <2>2. CASE k # 0
    <3>1. k > 0 /\ k - 1 \in Nat /\ k - 1 <= m
      BY <1>2, <2>2
    <3>2. Poly(z, e, k) = Add(Mul(Power(z, k), e[k]), Poly(z, e, k - 1))
      BY <1>1, <1>2, <3>1, PolyLaw
    <3>3. Poly(z, e, k - 1) \in Field
      BY <1>1, <3>1
    <3> QED BY <2>2, <3>2, <3>3
  <2> QED BY <2>1, <2>2
<1>3. 0 \in N
  <2> SUFFICES Poly(z, g, 0) = Add(Poly(z, e, 0), Mul(s, 0))
    OBVIOUS
  <2>1. 0 \in Nat /\ 0 <= m
    OBVIOUS
  <2>2. FieldMap(e, 0 .. 0) /\ FieldMap(g, 0 .. 0) /\ e[0] \in Field
    BY <1>1, <2>1
  <2>3. Poly(z, e, 0) = e[0]
    BY <2>1, <2>2, PolyLaw
  <2>4. Poly(z, g, 0) = g[0]
    BY <2>1, <2>2, PolyLaw
  <2>5. g[0] = e[0]
    BY DEF FactorOf
  <2>6. Mul(s, 0) = 0 /\ Add(e[0], 0) = e[0]
    BY <1>0, <2>2, MulLaws, AddLaws
  <2> QED BY <2>3, <2>4, <2>5, <2>6
<1>4. ASSUME NEW k \in Nat, k \in N PROVE k + 1 \in N
  <2> SUFFICES ASSUME k + 1 <= m
               PROVE  Poly(z, g, k + 1) = Add(Poly(z, e, k + 1), Mul(s, Poly(z, e, k)))
    OBVIOUS
  <2>1. k <= m /\ k + 1 > 0 /\ (k + 1) - 1 = k /\ k + 1 \in Nat /\ k + 1 \in 1 .. m
    OBVIOUS
  <2>2. Poly(z, g, k) = Add(Poly(z, e, k), Mul(s, Q(k)))
    BY <1>4, <2>1
  <2> DEFINE a == Power(z, k)
  <2> DEFINE u == e[k + 1]
  <2> DEFINE v == e[k]
  <2> DEFINE q == Q(k)
  <2>3. Poly(z, e, k) = Add(Mul(a, v), q) /\ q \in Field
    BY <1>2, <2>1
  <2>4. a \in Field /\ Power(z, k + 1) = Mul(z, a)
    BY PowerLaw
  <2>5. g[k + 1] = Add(u, Mul(w, v)) /\ u \in Field /\ v \in Field
    <3>1. g[k + 1] = Add(e[k + 1], Mul(w, e[(k + 1) - 1]))
      BY <2>1 DEF FactorOf
    <3>2. e[k + 1] \in Field /\ e[k] \in Field
      BY <1>1, <2>1
    <3> QED BY <2>1, <3>1, <3>2
  <2>6. Poly(z, g, k + 1) = Add(Mul(Power(z, k + 1), g[k + 1]), Poly(z, g, k))
    <3>1. FieldMap(g, 0 .. k + 1)
      BY <1>1, <2>1
    <3>2. Poly(z, g, k + 1) = Add(Mul(Power(z, k + 1), g[k + 1]), Poly(z, g, (k + 1) - 1))
      BY <2>1, <3>1, PolyLaw
    <3> QED BY <2>1, <3>2
  <2>7. Poly(z, e, k + 1) = Add(Mul(Power(z, k + 1), u), Poly(z, e, k))
    <3>1. FieldMap(e, 0 .. k + 1)
      BY <1>1, <2>1
    <3>2. Poly(z, e, k + 1) = Add(Mul(Power(z, k + 1), e[k + 1]), Poly(z, e, (k + 1) - 1))
      BY <2>1, <3>1, PolyLaw
    <3> QED BY <2>1, <3>2
  <2> HIDE DEF a, u, v, q, Q, N
  <2>8. Add(Mul(Mul(z, a), Add(u, Mul(w, v))), Add(Add(Mul(a, v), q), Mul(Mul(w, z), q)))
           = Add(Add(Mul(Mul(z, a), u), Add(Mul(a, v), q)),
                 Mul(Mul(w, z), Add(Mul(a, v), q)))
    BY <2>3, <2>4, <2>5, FactorAlgebra
  <2>9. Poly(z, g, k) = Add(Add(Mul(a, v), q), Mul(Mul(w, z), q))
    BY <2>2, <2>3 DEF q
  <2> QED BY <2>3, <2>4, <2>5, <2>6, <2>7, <2>8, <2>9
<1>5. N = Nat
  <2> HIDE DEF N
  <2>1. N \in SUBSET Nat
    BY DEF N
  <2> QED BY <1>3, <1>4, <2>1, NaturalsBySteps
<1>6. m \in N /\ Q(m) = Poly(z, e, m - 1)
  BY <1>5
<1> QED BY <1>6

\* A polynomial that is 1 at 0 and 0 at the first n of the x-values.
Vanishing(e, X, n, m) ==
  /\ FieldMap(e, 0 .. m) /\ e[0] = 1
  /\ \A i \in n + 1 .. m : e[i] = 0
  /\ \A k \in 1 .. n : Poly(X[k], e, m) = 0

\* 1 is such a polynomial for no points.
LEMMA VanishingFirst ==
  ASSUME NEW X, NEW m \in Nat
  PROVE  \E e : Vanishing(e, X, 0, m)
<1> DEFINE e == [i \in 0 .. m |-> IF i = 0 THEN 1 ELSE 0]
<1>1. FieldMap(e, 0 .. m)
  <2>1. \A i \in 0 .. m : (IF i = 0 THEN 1 ELSE 0) \in Field
    BY PrimeFacts
  <2> QED BY <2>1 DEF FieldMap
<1>2. e[0] = 1 /\ (\A i \in 0 + 1 .. m : e[i] = 0) /\ 1 .. 0 = {}
  OBVIOUS
<1> HIDE DEF e
<1>3. Vanishing(e, X, 0, m)
  BY <1>1, <1>2 DEF Vanishing
<1> QED BY <1>3

\* One more root: the factor 1 - z/X[n + 1].
LEMMA VanishingNext ==
  ASSUME NEW X, NEW m \in Nat, NEW n \in Nat, n < m, Distinct(X, 1 .. n + 1),
         NEW e, Vanishing(e, X, n, m)
  PROVE  \E g : Vanishing(g, X, n + 1, m)
<1> DEFINE x == X[n + 1]
<1> DEFINE w == Neg(InverseModPrime(x))
<1> DEFINE g == [i \in 0 .. m |-> IF i = 0 THEN e[0] ELSE Add(e[i], Mul(w, e[i - 1]))]
<1>1. x \in Field /\ x # 0 /\ \A k \in 1 .. n + 1 : X[k] \in Field
  <2>1. n + 1 \in 1 .. n + 1
    OBVIOUS
  <2> QED BY <2>1 DEF Distinct
<1>2. /\ FieldMap(e, 0 .. m) /\ e[0] = 1
      /\ \A i \in n + 1 .. m : e[i] = 0
      /\ \A k \in 1 .. n : Poly(X[k], e, m) = 0
  BY DEF Vanishing
<1>3. InverseModPrime(x) \in Field /\ Mul(x, InverseModPrime(x)) = 1
  <2> HIDE DEF x
  <2> QED BY <1>1, InverseLaw
<1>4. w \in Field /\ Mul(w, x) = Neg(1)
  <2> DEFINE y == InverseModPrime(x)
  <2> HIDE DEF y, x
  <2>1. y \in Field /\ Mul(x, y) = 1
    BY <1>3 DEF y
  <2>2. Mul(Neg(y), x) = Neg(Mul(y, x)) /\ Mul(y, x) = Mul(x, y)
    BY <1>1, <2>1, NegLaws, MulLaws
  <2>3. Neg(y) \in Field
    BY <2>1, FieldIsClosed
  <2> QED BY <2>1, <2>2, <2>3 DEF y
<1> HIDE DEF w
<1>5. \A i \in 1 .. m : e[i] \in Field /\ e[i - 1] \in Field
  BY <1>2 DEF FieldMap
<1>6. \A i \in 1 .. m : g[i] = Add(e[i], Mul(w, e[i - 1])) /\ g[i] \in Field
  <2> SUFFICES ASSUME NEW i \in 1 .. m
               PROVE  g[i] = Add(e[i], Mul(w, e[i - 1])) /\ g[i] \in Field
    OBVIOUS
  <2>1. g[i] = Add(e[i], Mul(w, e[i - 1]))
    OBVIOUS
  <2>2. Mul(w, e[i - 1]) \in Field
    BY <1>4, <1>5, FieldIsClosed
  <2>3. Add(e[i], Mul(w, e[i - 1])) \in Field
    BY <1>5, <2>2, FieldIsClosed
  <2> QED BY <2>1, <2>3
<1>7. g[0] = e[0] /\ g[0] = 1
  BY <1>2
<1> HIDE DEF g
<1>8. FieldMap(g, 0 .. m) /\ FactorOf(g, w, e, m)
  <2>1. \A i \in 0 .. m : g[i] \in Field
    <3>1. \A i \in 0 .. m : i = 0 \/ i \in 1 .. m
      OBVIOUS
    <3> QED BY <1>6, <1>7, <3>1, PrimeFacts
  <2> QED BY <1>6, <1>7, <2>1 DEF FieldMap, FactorOf
<1>9. \A i \in (n + 1) + 1 .. m : g[i] = 0
  <2> SUFFICES ASSUME NEW i \in (n + 1) + 1 .. m PROVE g[i] = 0
    OBVIOUS
  <2>1. i \in 1 .. m /\ i \in n + 1 .. m /\ i - 1 \in n + 1 .. m
    OBVIOUS
  <2>2. e[i] = 0 /\ e[i - 1] = 0
    BY <1>2, <2>1
  <2>3. Mul(w, 0) = 0 /\ Add(0, 0) = 0
    BY <1>4, PrimeFacts, MulLaws, AddLaws
  <2> QED BY <1>6, <2>1, <2>2, <2>3
<1>10. ASSUME NEW k \in 1 .. n + 1 PROVE Poly(X[k], g, m) = 0
  <2> DEFINE z == X[k]
  <2> DEFINE p == Poly(z, e, m)
  <2>1. z \in Field
    BY <1>1
  <2> HIDE DEF z
  <2>2. p \in Field
    BY <1>2, <2>1, PolyLaw
  <2>3. Poly(z, e, m - 1) = p
    <3>1. m > 0 /\ m \in n + 1 .. m /\ m - 1 \in Nat
      OBVIOUS
    <3>2. p = Add(Mul(Power(z, m), e[m]), Poly(z, e, m - 1))
      BY <1>2, <2>1, <3>1, PolyLaw
    <3>3. e[m] = 0 /\ Power(z, m) \in Field
      BY <1>2, <2>1, <3>1, PowerLaw
    <3>4. FieldMap(e, 0 .. m - 1)
      BY <1>2, <3>1 DEF FieldMap
    <3>5. Poly(z, e, m - 1) \in Field
      BY <2>1, <3>1, <3>4, PolyLaw
    <3>6. Mul(Power(z, m), 0) = 0 /\ Add(0, Poly(z, e, m - 1)) = Poly(z, e, m - 1)
      BY <3>3, <3>5, MulLaws, AddLaws
    <3> QED BY <3>2, <3>3, <3>6
  <2>4. Poly(z, g, m) = Add(p, Mul(Mul(w, z), p))
    <3>1. m > 0
      OBVIOUS
    <3>2. Poly(z, g, m) = Add(Poly(z, e, m), Mul(Mul(w, z), Poly(z, e, m - 1)))
      BY <1>2, <1>4, <1>8, <2>1, <3>1, FactorLaw
    <3> QED BY <2>3, <3>2
  <2>5. CASE k = n + 1
    <3>1. Mul(w, z) = Neg(1)
      BY <1>4, <2>5 DEF z
    <3> HIDE DEF p
    <3>2. Mul(Neg(1), p) = Neg(Mul(1, p)) /\ Mul(1, p) = p /\ Add(p, Neg(p)) = 0
      BY <2>2, PrimeFacts, NegLaws, MulLaws, AddLaws
    <3> QED BY <2>4, <3>1, <3>2 DEF z
  <2>6. CASE k # n + 1
    <3>1. k \in 1 .. n
      BY <2>6
    <3>2. p = 0
      BY <1>2, <3>1 DEF z
    <3>3. Mul(w, z) \in Field
      BY <1>4, <2>1, FieldIsClosed
    <3>4. Mul(Mul(w, z), 0) = 0 /\ Add(0, 0) = 0
      BY <3>3, PrimeFacts, MulLaws, AddLaws
    <3> QED BY <2>4, <3>2, <3>4 DEF z
  <2> QED BY <2>5, <2>6
<1>11. Vanishing(g, X, n + 1, m)
  BY <1>7, <1>8, <1>9, <1>10 DEF Vanishing
<1> QED BY <1>11

\* There is one for any points that are no more than its degree.
LEMMA VanishingExists ==
  ASSUME NEW X, NEW m \in Nat, NEW n \in Nat, n <= m, Distinct(X, 1 .. n)
  PROVE  \E e : Vanishing(e, X, n, m)
<1> DEFINE N == {j \in Nat : j <= n => \E e : Vanishing(e, X, j, m)}
<1>1. 0 \in N
  BY VanishingFirst
<1>2. ASSUME NEW j \in Nat, j \in N PROVE j + 1 \in N
  <2>0. j <= n => \E e : Vanishing(e, X, j, m)
    BY <1>2
  <2> SUFFICES ASSUME j + 1 <= n PROVE \E e : Vanishing(e, X, j + 1, m)
    OBVIOUS
  <2>1. PICK e : Vanishing(e, X, j, m)
    BY <2>0
  <2>2. j < m /\ 1 .. j + 1 \subseteq 1 .. n
    OBVIOUS
  <2>3. Distinct(X, 1 .. j + 1)
    BY <2>2 DEF Distinct
  <2> QED BY <2>1, <2>2, <2>3, VanishingNext
<1>3. N = Nat
  <2> HIDE DEF N
  <2>1. N \in SUBSET Nat
    BY DEF N
  <2> QED BY <1>1, <1>2, <2>1, NaturalsBySteps
<1>4. n \in N
  BY <1>3
<1> QED BY <1>4

\* The algebra of one summand in PolyLinear.
LEMMA PolyTerm ==
  ASSUME NEW p \in Field, NEW a \in Field, NEW u \in Field, NEW d \in Field, NEW v \in Field
  PROVE  Mul(p, Add(Mul(a, u), Mul(d, v))) = Add(Mul(a, Mul(p, u)), Mul(d, Mul(p, v)))
<1>1. Mul(a, u) \in Field /\ Mul(d, v) \in Field
  BY FieldIsClosed
<1>2. Mul(p, Add(Mul(a, u), Mul(d, v))) = Add(Mul(p, Mul(a, u)), Mul(p, Mul(d, v)))
  BY <1>1, MulLaws
<1>3. Mul(p, Mul(a, u)) = Mul(a, Mul(p, u))
  <2>1. Mul(p, Mul(a, u)) = Mul(Mul(p, a), u) /\ Mul(p, a) = Mul(a, p)
    BY MulLaws
  <2>2. Mul(a, Mul(p, u)) = Mul(Mul(a, p), u)
    BY MulLaws
  <2> QED BY <2>1, <2>2
<1>4. Mul(p, Mul(d, v)) = Mul(d, Mul(p, v))
  <2>1. Mul(p, Mul(d, v)) = Mul(Mul(p, d), v) /\ Mul(p, d) = Mul(d, p)
    BY MulLaws
  <2>2. Mul(d, Mul(p, v)) = Mul(Mul(d, p), v)
    BY MulLaws
  <2> QED BY <2>1, <2>2
<1> QED BY <1>2, <1>3, <1>4

\* A polynomial is linear in its coefficients.
LEMMA PolyLinear ==
  ASSUME NEW z \in Field, NEW m \in Nat, NEW c, NEW e, NEW g, NEW a \in Field, NEW d \in Field,
         FieldMap(c, 0 .. m), FieldMap(e, 0 .. m), FieldMap(g, 0 .. m),
         Combines(g, a, c, d, e, 0 .. m)
  PROVE  Poly(z, g, m) = Add(Mul(a, Poly(z, c, m)), Mul(d, Poly(z, e, m)))
<1> DEFINE S == 0 .. m
<1> DEFINE tg == [i \in S |-> Mul(Power(z, i), g[i])]
<1> DEFINE tc == [i \in S |-> Mul(Power(z, i), c[i])]
<1> DEFINE te == [i \in S |-> Mul(Power(z, i), e[i])]
<1>1. ASSUME NEW i \in S
      PROVE  /\ tg[i] \in Field /\ tc[i] \in Field /\ te[i] \in Field
             /\ tg[i] = Add(Mul(a, tc[i]), Mul(d, te[i]))
  <2> DEFINE p == Power(z, i)
  <2>1. c[i] \in Field /\ e[i] \in Field /\ g[i] \in Field /\ p \in Field
    <3>1. c[i] \in Field /\ e[i] \in Field /\ g[i] \in Field
      BY DEF FieldMap
    <3>2. i \in Nat
      OBVIOUS
    <3> QED BY <3>1, <3>2, PowerLaw
  <2>2. g[i] = Add(Mul(a, c[i]), Mul(d, e[i]))
    BY DEF Combines
  <2>3. tg[i] = Mul(p, g[i]) /\ tc[i] = Mul(p, c[i]) /\ te[i] = Mul(p, e[i])
    OBVIOUS
  <2> HIDE DEF p, tg, tc, te
  <2>4. Mul(p, g[i]) \in Field /\ Mul(p, c[i]) \in Field /\ Mul(p, e[i]) \in Field
    BY <2>1, FieldIsClosed
  <2>5. Mul(p, g[i]) = Add(Mul(a, Mul(p, c[i])), Mul(d, Mul(p, e[i])))
    <3> DEFINE u == c[i]
    <3> DEFINE v == e[i]
    <3>1. u \in Field /\ v \in Field /\ g[i] = Add(Mul(a, u), Mul(d, v))
      BY <2>1, <2>2
    <3> HIDE DEF u, v
    <3>2. Mul(p, Add(Mul(a, u), Mul(d, v))) = Add(Mul(a, Mul(p, u)), Mul(d, Mul(p, v)))
      BY <2>1, <3>1, PolyTerm
    <3> QED BY <3>1, <3>2 DEF u, v
  <2> QED BY <2>3, <2>4, <2>5
<1>2. /\ Poly(z, g, m) = SumOver(S, tg) /\ Poly(z, c, m) = SumOver(S, tc)
      /\ Poly(z, e, m) = SumOver(S, te)
  BY DEF Poly
<1> HIDE DEF tg, tc, te
<1>3. FieldMap(tg, S) /\ FieldMap(tc, S) /\ FieldMap(te, S) /\ Combines(tg, a, tc, d, te, S)
  BY <1>1 DEF FieldMap, Combines
<1>4. IsFiniteSet(S)
  BY FS_Interval
<1> HIDE DEF S
<1>5. SumOver(S, tg) = Add(Mul(a, SumOver(S, tc)), Mul(d, SumOver(S, te)))
  BY <1>3, <1>4, SumLinear
<1> QED BY <1>2, <1>5

\* Every polynomial with the right constant can be drawn.
LEMMA CoefficientsAll ==
  ASSUME NEW t \in Nat, t >= 2, NEW v \in Field, NEW c \in [0 .. t - 1 -> Field], c[0] = v
  PROVE  c \in Coefficients(t, v)
<1> DEFINE d == [i \in 1 .. t - 1 |-> c[i]]
<1>1. d \in [1 .. t - 1 -> Coefficient]
  BY DEF Coefficient
<1>2. c = [i \in 0 .. t - 1 |-> IF i = 0 THEN v ELSE d[i]]
  <2>1. \A i \in 0 .. t - 1 : c[i] = IF i = 0 THEN v ELSE d[i]
    <3> SUFFICES ASSUME NEW i \in 0 .. t - 1 PROVE c[i] = IF i = 0 THEN v ELSE d[i]
      OBVIOUS
    <3>1. CASE i = 0
      BY <3>1
    <3>2. CASE i # 0
      BY <3>2
    <3> QED BY <3>1, <3>2
  <2>2. c = [i \in 0 .. t - 1 |-> c[i]]
    OBVIOUS
  <2> HIDE DEF d
  <2> QED BY <2>1, <2>2
<1> HIDE DEF d
<1> QED BY <1>1, <1>2 DEF Coefficients

\* There are finitely many functions between finite sets.
LEMMA FiniteFunctions ==
  ASSUME NEW S, NEW T, IsFiniteSet(S), IsFiniteSet(T)
  PROVE  IsFiniteSet([S -> T])
<1> DEFINE graph == [f \in [S -> T] |-> {<<s, f[s]>> : s \in S}]
<1>1. IsFiniteSet(S \X T)
  BY FS_Product
<1>2. IsFiniteSet(SUBSET (S \X T))
  <2> DEFINE P == S \X T
  <2>1. IsFiniteSet(P)
    BY <1>1
  <2> HIDE DEF P
  <2>2. IsFiniteSet(SUBSET P)
    BY <2>1, FS_SUBSET, Zenon
  <2> QED BY <2>2 DEF P
<1>3. \A f \in [S -> T] : {<<s, f[s]>> : s \in S} \in SUBSET (S \X T)
  OBVIOUS
<1>4. graph \in [[S -> T] -> SUBSET (S \X T)]
  BY <1>3
<1>5. ASSUME NEW f \in [S -> T], NEW g \in [S -> T], graph[f] = graph[g] PROVE f = g
  <2>1. ASSUME NEW s \in S PROVE f[s] = g[s]
    <3>1. <<s, f[s]>> \in graph[g]
      BY <1>5
    <3>2. PICK r \in S : <<s, f[s]>> = <<r, g[r]>>
      BY <3>1
    <3> QED BY <3>2
  <2> QED BY <2>1
<1>6. graph \in Injection([S -> T], SUBSET (S \X T))
  <2>1. DOMAIN graph = [S -> T]
    OBVIOUS
  <2> HIDE DEF graph
  <2> QED BY <1>4, <1>5, <2>1 DEF Injection, IsInjective
<1> HIDE DEF graph
<1> QED BY <1>2, <1>6, FS_Injection

\* There are finitely many ways to explain what a decoder has seen.
LEMMA ExplanationsFinite ==
  ASSUME ShamirInv, NEW chunk, NEW v \in Field
  PROVE  IsFiniteSet(Explanations(chunk, v))
<1> DEFINE t == split.treshold
<1>1. t \in Nat /\ t >= 2
  BY SplitFacts DEF ShamirInv
<1>2. Explanations(chunk, v) \in SUBSET [0 .. t - 1 -> Field]
  <2>1. \A c \in Explanations(chunk, v) : c \in Coefficients(t, v)
    BY DEF Explanations
  <2> HIDE DEF t
  <2>2. \A c \in Coefficients(t, v) : c \in [0 .. t - 1 -> Field]
    BY <1>1, CoefficientsLaw
  <2> QED BY <2>1, <2>2
<1>3. IsFiniteSet(0 .. t - 1) /\ IsFiniteSet(Field)
  <2>1. 0 \in Int /\ t - 1 \in Int /\ PRIME - 1 \in Int
    BY <1>1, PrimeFacts
  <2>2. IsFiniteSet(0 .. t - 1) /\ IsFiniteSet(0 .. PRIME - 1)
    BY <2>1, FS_Interval
  <2> QED BY <2>2 DEF Field
<1>4. IsFiniteSet([0 .. t - 1 -> Field])
  BY <1>3, FiniteFunctions
<1> QED BY <1>2, <1>4, FS_Subset

\* Moving the constant from v to w without leaving any known point.
LEMMA ExplanationMoves ==
  ASSUME ShamirInv, Created, ~ReadyToDecode, NEW chunk \in 1 .. Len(matrix),
         NEW v \in Field, NEW w \in Field
  PROVE  \E f : f \in Injection(Explanations(chunk, v), Explanations(chunk, w))
<1> DEFINE t == split.treshold
<1> DEFINE m == t - 1
<1> DEFINE n == Len(keys)
<1> DEFINE X == XOf(Known(chunk))
<1> DEFINE d == Sub(w, v)
<1>1. t \in Nat /\ t >= 2 /\ m \in Nat /\ n \in Nat /\ n <= m
  <2>1. t \in Nat /\ t >= 2
    BY SplitFacts DEF ShamirInv
  <2>2. n \in Nat /\ ~(n >= t)
    BY KnownLaw DEF ReadyToDecode
  <2> QED BY <2>1, <2>2
<1>2. /\ DOMAIN Known(chunk) = 1 .. n /\ Distinct(X, 1 .. n) /\ DOMAIN keys = 1 .. n
      /\ \A k \in 1 .. n : X[k] = keys[k][chunk][1]
  <2>1. /\ DOMAIN Known(chunk) = 1 .. n /\ GoodPoints(Known(chunk))
        /\ \A k \in 1 .. n : Known(chunk)[k] = keys[k][chunk]
    BY KnownLaw
  <2>2. DOMAIN keys = 1 .. n
    BY DEF ShamirInv
  <2>3. \A k \in 1 .. n : X[k] = Known(chunk)[k][1]
    BY <2>1 DEF XOf
  <2>4. Distinct(X, 1 .. n)
    BY <2>1 DEF GoodPoints
  <2> QED BY <2>1, <2>2, <2>3, <2>4
<1> HIDE DEF X, n
<1>3. PICK e : Vanishing(e, X, n, m)
  BY <1>1, <1>2, VanishingExists
<1>4. /\ FieldMap(e, 0 .. m) /\ e[0] = 1 /\ \A k \in 1 .. n : Poly(X[k], e, m) = 0
  BY <1>3 DEF Vanishing
<1>5. d \in Field /\ 1 \in Field
  BY FieldIsClosed, PrimeFacts
<1> DEFINE Moved(c) == [i \in 0 .. m |-> Add(Mul(1, c[i]), Mul(d, e[i]))]
<1>6. ASSUME NEW c \in Explanations(chunk, v)
      PROVE  /\ c \in [0 .. m -> Field] /\ c[0] = v
             /\ \A k \in 1 .. n : Polynom(X[k], c) = keys[k][chunk][2]
  <2>1. c \in Coefficients(t, v)
        /\ \A k \in DOMAIN keys : Polynom(keys[k][chunk][1], c) = keys[k][chunk][2]
    BY DEF Explanations
  <2> HIDE DEF t
  <2>2. c \in [0 .. t - 1 -> Field] /\ c[0] = v
    BY <1>1, <2>1, CoefficientsLaw
  <2> QED BY <1>2, <2>1, <2>2
<1>7. ASSUME NEW c \in [0 .. m -> Field]
      PROVE  Moved(c) \in [0 .. m -> Field]
  <2> SUFFICES ASSUME NEW i \in 0 .. m PROVE Add(Mul(1, c[i]), Mul(d, e[i])) \in Field
    OBVIOUS
  <2>1. c[i] \in Field /\ e[i] \in Field
    BY <1>4 DEF FieldMap
  <2>2. Mul(1, c[i]) \in Field /\ Mul(d, e[i]) \in Field
    BY <1>5, <2>1, FieldIsClosed
  <2> QED BY <2>2, FieldIsClosed
<1>8. ASSUME NEW c \in Explanations(chunk, v) PROVE Moved(c) \in Explanations(chunk, w)
  <2> DEFINE g == Moved(c)
  <2>1. c \in [0 .. m -> Field] /\ c[0] = v /\ g \in [0 .. m -> Field]
    BY <1>6, <1>7
  <2>2. g[0] = w
    <3>1. g[0] = Add(Mul(1, c[0]), Mul(d, e[0]))
      BY <1>1
    <3>2. Mul(1, v) = v /\ Mul(d, 1) = d /\ Add(v, d) = Add(d, v) /\ Add(Sub(w, v), v) = w
      BY <1>5, MulLaws, AddLaws, NegLaws
    <3> QED BY <1>4, <2>1, <3>1, <3>2
  <2>3. Combines(g, 1, c, d, e, 0 .. m)
    BY DEF Combines
  <2> HIDE DEF g, d, m
  <2>4. FieldMap(c, 0 .. m) /\ FieldMap(g, 0 .. m)
    BY <2>1 DEF FieldMap
  <2>5. ASSUME NEW k \in 1 .. n PROVE Polynom(X[k], g) = keys[k][chunk][2]
    <3> DEFINE z == X[k]
    <3> DEFINE p == Poly(z, c, m)
    <3>1. z \in Field
      BY <1>2 DEF Distinct
    <3>2. Poly(z, e, m) = 0
      BY <1>4
    <3> HIDE DEF z
    <3>3. p \in Field
      BY <1>1, <2>4, <3>1, PolyLaw
    <3>4. Polynom(z, c) = p /\ Polynom(z, g) = Poly(z, g, m)
      BY <1>1, <2>1, <3>1, PolynomIsPoly
    <3>5. Poly(z, g, m) = Add(Mul(1, p), Mul(d, 0))
      <4>1. Poly(z, g, m) = Add(Mul(1, Poly(z, c, m)), Mul(d, Poly(z, e, m)))
        BY <1>1, <1>4, <1>5, <2>3, <2>4, <3>1, PolyLinear
      <4> QED BY <3>2, <4>1
    <3>6. Mul(1, p) = p /\ Mul(d, 0) = 0 /\ Add(p, 0) = p
      BY <1>5, <3>3, MulLaws, AddLaws
    <3>7. Polynom(z, c) = keys[k][chunk][2]
      BY <1>6 DEF z
    <3> QED BY <3>4, <3>5, <3>6, <3>7 DEF z
  <2>6. g \in Coefficients(t, w)
    <3>1. g \in [0 .. t - 1 -> Field]
      BY <2>1 DEF m
    <3> HIDE DEF t
    <3> QED BY <1>1, <2>2, <3>1, CoefficientsAll
  <2>7. \A k \in DOMAIN keys : Polynom(keys[k][chunk][1], g) = keys[k][chunk][2]
    BY <1>2, <2>5
  <2>8. g \in Explanations(chunk, w)
    BY <2>6, <2>7 DEF Explanations
  <2> QED BY <2>8 DEF g
<1>9. ASSUME NEW b \in Explanations(chunk, v), NEW c \in Explanations(chunk, v), Moved(b) = Moved(c)
      PROVE  b = c
  <2>1. b \in [0 .. m -> Field] /\ c \in [0 .. m -> Field]
    BY <1>6
  <2>2. ASSUME NEW i \in 0 .. m PROVE b[i] = c[i]
    <3>1. /\ Moved(b)[i] = Add(Mul(1, b[i]), Mul(d, e[i]))
          /\ Moved(c)[i] = Add(Mul(1, c[i]), Mul(d, e[i]))
      OBVIOUS
    <3>2. b[i] \in Field /\ c[i] \in Field /\ e[i] \in Field
      BY <1>4, <2>1 DEF FieldMap
    <3> HIDE DEF d, m
    <3>3. Mul(1, b[i]) = b[i] /\ Mul(1, c[i]) = c[i]
      BY <3>2, MulLaws
    <3>4. Mul(d, e[i]) \in Field
      BY <1>5, <3>2, FieldIsClosed
    <3>5. Add(b[i], Mul(d, e[i])) = Add(c[i], Mul(d, e[i]))
      BY <1>9, <3>1, <3>3
    <3> QED BY <3>2, <3>4, <3>5, AddCancel
  <2>3. b = [i \in 0 .. m |-> b[i]] /\ c = [i \in 0 .. m |-> c[i]]
    BY <2>1
  <2> HIDE DEF m
  <2>4. [i \in 0 .. m |-> b[i]] = [i \in 0 .. m |-> c[i]]
    BY <2>2
  <2> QED BY <2>3, <2>4
<1> DEFINE f == [c \in Explanations(chunk, v) |-> Moved(c)]
<1> HIDE DEF Moved
<1>10. f \in [Explanations(chunk, v) -> Explanations(chunk, w)]
  BY <1>8
<1>11. IsInjective(f)
  BY <1>9 DEF IsInjective
<1>12. f \in Injection(Explanations(chunk, v), Explanations(chunk, w))
  BY <1>10, <1>11 DEF Injection
<1> QED BY <1>12

\* So every value has as many explanations as any other.
LEMMA ShamirInvTellsNothing == ShamirInv => FewSharesTellNothing
<1> SUFFICES ASSUME ShamirInv, Created, ~ReadyToDecode, NEW chunk \in DOMAIN matrix,
                    NEW v \in Field, NEW w \in Field
             PROVE  Cardinality(Explanations(chunk, v)) = Cardinality(Explanations(chunk, w))
  BY DEF FewSharesTellNothing
<1>1. chunk \in 1 .. Len(matrix)
  BY DEF ShamirInv
<1>2. \A u \in Field : IsFiniteSet(Explanations(chunk, u))
  BY ExplanationsFinite
<1>3. \A a, b \in Field : Cardinality(Explanations(chunk, a)) <= Cardinality(Explanations(chunk, b))
  <2> SUFFICES ASSUME NEW a \in Field, NEW b \in Field
               PROVE  Cardinality(Explanations(chunk, a)) <= Cardinality(Explanations(chunk, b))
    OBVIOUS
  <2>1. PICK f : f \in Injection(Explanations(chunk, a), Explanations(chunk, b))
    BY <1>1, ExplanationMoves
  <2> QED BY <1>2, <2>1, FS_Injection
<1>4. /\ Cardinality(Explanations(chunk, v)) \in Nat
      /\ Cardinality(Explanations(chunk, w)) \in Nat
  BY <1>2, FS_CardinalityType
<1>5. /\ Cardinality(Explanations(chunk, v)) <= Cardinality(Explanations(chunk, w))
      /\ Cardinality(Explanations(chunk, w)) <= Cardinality(Explanations(chunk, v))
  BY <1>3
<1> QED BY <1>4, <1>5

\* Below the treshold every value of a chunk is explained by equally many
\* polynomials: the shares say nothing about it (_coeff, secrets.randbelow),
\* for every prime, number of shares and treshold.
THEOREM FewSharesAreSilent == Spec => []FewSharesTellNothing
BY ShamirInvariant, ShamirInvTellsNothing, PTL

=============================================================================
