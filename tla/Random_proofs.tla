---------------------------- MODULE Random_proofs ----------------------------
(***************************************************************************)
(* Theorems about Random for every M and A of ParametersAssumption, hence  *)
(* for the 2^31 - 1 and the 16807 of the code.                             *)
(***************************************************************************)
EXTENDS Random, Integers, FiniteSetTheorems, WellFoundedInduction, TLAPS

\* Division leaves a quotient and a remainder.
LEMMA Division ==
  ASSUME NEW p \in Nat, NEW m \in Nat \ {0}
  PROVE  /\ p \div m \in Nat /\ p % m \in 0 .. m - 1
         /\ p = m * (p \div m) + (p % m)
<1>1. p % m \in 0 .. m - 1  BY SMT
<1>2. p = m * (p \div m) + (p % m)  BY SMT
<1>3. p \div m \in Int  BY SMT
<1>4. p \div m >= 0  BY SMT
<1> QED  BY <1>1, <1>2, <1>3, <1>4

\* p is q times m and r more.
Splits(p, m, q, r) == q \in Nat /\ r \in 0 .. m - 1 /\ p = m * q + r

\* And there is only one such pair.
LEMMA RemainderUnique ==
  ASSUME NEW m \in Nat \ {0}, NEW p \in Nat, NEW q, NEW r, Splits(p, m, q, r)
  PROVE  p % m = r
<1> USE DEF Splits
<1> DEFINE d == p \div m  t == p % m
<1>1. d \in Nat /\ t \in 0 .. m - 1 /\ p = m * d + t  BY Division
<1> HIDE DEF d, t
<1>2. m * (d - q) = r - t  BY <1>1
<1>3. CASE d - q >= 1
  <2>1. m * (d - q) >= m  BY <1>1, <1>3
  <2> QED  BY <2>1, <1>1, <1>2
<1>4. CASE d - q <= -1
  <2>1. m * (d - q) <= -m  BY <1>1, <1>4
  <2> QED  BY <2>1, <1>1, <1>2
<1>5. CASE d - q = 0
  <2>1. m * (d - q) = 0  BY <1>1, <1>5
  <2> QED  BY <2>1, <1>1, <1>2 DEF t
<1> QED  BY <1>1, <1>3, <1>4, <1>5

\* The two reductions, in 32 bits, compute the product modulo M, and the
\* result is again a good seed: the comment of Next() in c2_random.h.
THEOREM NextIsModulo ==
  ASSUME NEW s \in 1 .. M - 1
  PROVE  /\ NextSeed(s) = (s * A) % M
         /\ NextSeed(s) \in 1 .. M - 1
         /\ ((s * A) \div Shift) + ((s * A) % Shift) < Word
<1> DEFINE p == s * A  q == p \div Shift  r == p % Shift
<1>1. M \in Nat \ {0, 1} /\ A \in 1 .. M /\ p % M # 0  BY ParametersAssumption
<1>2. p \in Nat /\ p <= (M - 1) * M
  <2>1. s * A <= (M - 1) * A  BY <1>1
  <2>2. (M - 1) * A <= (M - 1) * M  BY <1>1
  <2> QED  BY <1>1, <2>1, <2>2
<1>3. q \in Nat /\ r \in 0 .. M /\ p = (M + 1) * q + r
  <2>1. Shift \in Nat \ {0} /\ Shift = M + 1  BY <1>1 DEF Shift
  <2> HIDE DEF p
  <2>2. q \in Nat /\ r \in 0 .. Shift - 1 /\ p = Shift * q + r
    BY ONLY <1>2, <2>1, Division
  <2> QED  BY <1>1, <2>1, <2>2
<1> DEFINE w == q + r
<1> HIDE DEF p, q, r
<1>4. q <= M - 1
  <2>1. SUFFICES ASSUME q >= M PROVE FALSE  BY <1>1, <1>3
  <2>2. (M + 1) * q >= (M + 1) * M  BY <1>1, <1>3, <2>1
  <2>3. (M + 1) * M > (M - 1) * M  BY <1>1
  <2> QED  BY <1>1, <1>2, <1>3, <2>2, <2>3
<1>5. w \in Nat /\ w < 2 * M /\ w < Word  BY <1>1, <1>3, <1>4 DEF Word, Shift
<1>6. w % Word = w  BY <1>1, <1>5 DEF Word, Shift
<1>7. p = M * q + w  BY <1>1, <1>3
<1>8. NextSeed(s) = IF w % Word > M THEN (w % Word) - M ELSE w % Word
  BY DEF NextSeed, p, q, r
<1> HIDE DEF w
<1>9. NextSeed(s) = IF w > M THEN w - M ELSE w  BY ONLY <1>6, <1>8
<1>10. p % M = NextSeed(s) /\ NextSeed(s) \in 1 .. M - 1
  <2>1. M \in Nat \ {0}  BY <1>1
  <2>2. CASE w > M
    <3>1. Splits(p, M, q + 1, w - M)  BY <1>1, <1>3, <1>5, <1>7, <2>2 DEF Splits
    <3>2. p % M = w - M  BY ONLY <1>2, <2>1, <3>1, RemainderUnique
    <3>3. NextSeed(s) = w - M  BY <1>1, <1>5, <1>9, <2>2
    <3> QED  BY <1>1, <1>5, <2>2, <3>2, <3>3
  <2>3. CASE w = M
    <3>1. Splits(p, M, q + 1, 0)  BY <1>1, <1>3, <1>7, <2>3 DEF Splits
    <3> QED  BY <1>1, <1>2, <2>1, <3>1, RemainderUnique
  <2>4. CASE w < M
    <3>1. Splits(p, M, q, w)  BY <1>1, <1>3, <1>5, <1>7, <2>4 DEF Splits
    <3>2. p % M = w  BY ONLY <1>2, <2>1, <3>1, RemainderUnique
    <3>3. w # 0  BY <1>1, <3>2
    <3> QED  BY <1>1, <1>5, <1>9, <2>4, <3>2, <3>3
  <2> QED  BY <1>1, <1>5, <2>2, <2>3, <2>4
<1> QED  BY <1>5, <1>10 DEF p, q, r, w

\* The constructor lets no bad seed through.
LEMMA ConstructIsGood ==
  ASSUME NEW s \in Nat  PROVE Construct(s) \in 1 .. M - 1
<1>1. M \in Nat \ {0, 1}  BY ParametersAssumption
<1>2. s % Shift \in 0 .. M  BY <1>1, Division DEF Shift
<1> QED  BY <1>1, <1>2 DEF Construct

-----------------------------------------------------------------------------
IInv == seed \in 1 .. M - 1

\* Every call leaves the seed after one draw or after two.
LEMMA CallDraws ==
  ASSUME Next
  PROVE  seed' = NextSeed(seed) \/ seed' = NextSeed(NextSeed(seed))
<1>1. CASE CallNext  BY <1>1 DEF CallNext
<1>2. CASE CallNext64  BY <1>2 DEF CallNext64
<1>3. CASE \E n \in Limits : CallUniform(n) \/ CallOneIn(n)
  BY <1>3 DEF CallUniform, CallOneIn
<1>4. CASE \E l \in MaxLogs : CallSkewed(l)  BY <1>4 DEF CallSkewed
<1> QED  BY <1>1, <1>2, <1>3, <1>4 DEF Next

\* The seed is good in every state.
THEOREM Invariance == Spec => []IInv
<1>1. Init => IInv
  <2> SUFFICES ASSUME Init PROVE IInv  OBVIOUS
  <2>1. PICK s \in 0 .. Word - 1 : seed = Construct(s)  BY DEF Init
  <2>2. s \in Nat  BY <2>1
  <2> QED  BY <2>1, <2>2, ConstructIsGood DEF IInv
<1>2. IInv /\ [Next]_vars => IInv'
  <2> SUFFICES ASSUME IInv, [Next]_vars PROVE IInv'  OBVIOUS
  <2>1. NextSeed(seed) \in 1 .. M - 1  BY NextIsModulo DEF IInv
  <2>2. NextSeed(NextSeed(seed)) \in 1 .. M - 1  BY <2>1, NextIsModulo
  <2>3. CASE Next  BY <2>1, <2>2, <2>3, CallDraws DEF IInv
  <2>4. CASE UNCHANGED vars  BY <2>4 DEF IInv, vars
  <2> QED  BY <2>3, <2>4
<1> QED  BY <1>1, <1>2, PTL DEF Spec

\* No draw ever reaches 0 or M, nor overflows the 32 bits of the sum.
THEOREM SeedStaysInRange == Spec => []SeedInRange
<1>1. IInv => SeedInRange  BY NextIsModulo DEF IInv, SeedInRange
<1> QED  BY <1>1, Invariance, PTL

\* Every Next() multiplies the seed by A modulo M.
THEOREM NextComputesModulo == Spec => ComputesModulo
<1>1. IInv /\ [Next]_vars => [ret'.op = "Next" => seed' = (seed * A) % M]_vars
  <2> SUFFICES ASSUME IInv, Next, ret'.op = "Next" PROVE seed' = (seed * A) % M
    BY DEF vars
  <2>1. CASE CallNext  BY <2>1, NextIsModulo DEF CallNext, IInv
  <2>2. CASE CallNext64  BY <2>2 DEF CallNext64, Returns
  <2>3. CASE \E n \in Limits : CallUniform(n) \/ CallOneIn(n)
    BY <2>3 DEF CallUniform, CallOneIn, Returns
  <2>4. CASE \E l \in MaxLogs : CallSkewed(l)  BY <2>4 DEF CallSkewed, Returns
  <2> QED  BY <2>1, <2>2, <2>3, <2>4 DEF Next
<1> QED  BY <1>1, Invariance, PTL DEF Spec, ComputesModulo

-----------------------------------------------------------------------------
(* Draws in a range.                                                       *)

\* The powers of two grow with their exponents: they count the subsets of 1 .. k.
LEMMA Powers ==
  ASSUME NEW l \in Nat, NEW k \in 0 .. l
  PROVE  /\ 2 ^ k \in Nat \ {0} /\ 2 ^ l \in Nat
         /\ 2 ^ k <= 2 ^ l
<1>1. ASSUME NEW n \in Nat
      PROVE  IsFiniteSet(SUBSET (1 .. n)) /\ Cardinality(SUBSET (1 .. n)) = 2 ^ n
  <2>1. IsFiniteSet(1 .. n) /\ Cardinality(1 .. n) = n
    BY FS_Interval
  <2> QED BY <2>1, FS_SUBSET
<1>2. k \in Nat /\ SUBSET (1 .. k) \subseteq SUBSET (1 .. l)
  OBVIOUS
<1>3. Cardinality(SUBSET (1 .. k)) <= Cardinality(SUBSET (1 .. l))
  BY <1>1, <1>2, FS_Subset
<1>4. 2 ^ k \in Nat /\ 2 ^ l \in Nat
  BY <1>1, <1>2, FS_CardinalityType
<1>5. 2 ^ k # 0
  <2>1. SUBSET (1 .. k) # {}
    BY 1 .. k \in SUBSET (1 .. k)
  <2> QED BY <1>1, <1>2, <2>1, FS_EmptySet
<1> QED BY <1>1, <1>2, <1>3, <1>4, <1>5

\* A number below M, times n over M, is below n.
LEMMA ScaledBelow ==
  ASSUME NEW v \in 0 .. M - 1, NEW n \in Nat \ {0}
  PROVE  (n * v) \div M < n
<1> DEFINE p == n * v  q == p \div M
<1>1. M \in Nat \ {0}
  BY ParametersAssumption
<1>2. n * v <= n * (M - 1) /\ n * (M - 1) < n * M /\ p \in Nat
  BY <1>1
<1>3. q \in Nat /\ p % M \in 0 .. M - 1 /\ p = M * q + (p % M)
  BY <1>1, <1>2, Division
<1>4. p < n * M
  BY <1>1, <1>2
<1> HIDE DEF p, q
<1>5. ASSUME q >= n PROVE FALSE
  <2>1. M * q >= M * n
    BY <1>1, <1>3, <1>5
  <2> QED BY <1>1, <1>2, <1>3, <1>4, <2>1
<1> QED BY <1>3, <1>5 DEF p, q

\* Uniform, Skewed and the histograms made of Next() stay inside their bounds,
\* for every seed, every limit and every exponent.
THEOREM EveryDrawInRange == Spec => []DrawsInRange
<1> USE ArgumentsAssumption
<1>1. Init => DrawsInRange
  BY DEF Init, DrawsInRange
<1>2. IInv /\ DrawsInRange /\ [Next]_vars => DrawsInRange'
  <2> SUFFICES ASSUME IInv, DrawsInRange, [Next]_vars PROVE DrawsInRange'
    OBVIOUS
  <2>1. NextSeed(seed) \in 1 .. M - 1 /\ NextSeed(NextSeed(seed)) \in 1 .. M - 1
    BY NextIsModulo DEF IInv
  <2>2. CASE CallNext
    <3>1. ret' = [op |-> "Next", arg |-> 0, val |-> seed'] /\ seed' \in 1 .. M - 1
      BY <2>1, <2>2 DEF CallNext, Returns
    <3>2. \A n \in Limits : (n * seed') \div M < n
      BY <3>1, ScaledBelow
    <3> QED BY <3>1, <3>2 DEF DrawsInRange
  <2>3. CASE CallNext64
    BY <2>3 DEF CallNext64, Returns, DrawsInRange
  <2>4. ASSUME NEW n \in Limits, CallUniform(n) PROVE DrawsInRange'
    <3>1. ret' = [op |-> "Uniform", arg |-> n, val |-> seed' % n] /\ seed' \in Nat
      BY <2>1, <2>4 DEF CallUniform, Returns
    <3>2. n \in Nat \ {0}
      OBVIOUS
    <3>3. seed' % n \in 0 .. n - 1
      BY <3>1, <3>2, Division
    <3>4. seed' % n < n
      BY <3>2, <3>3
    <3> QED BY <3>1, <3>4 DEF DrawsInRange
  <2>5. ASSUME NEW n \in Limits, CallOneIn(n) PROVE DrawsInRange'
    BY <2>5 DEF CallOneIn, Returns, DrawsInRange
  <2>6. ASSUME NEW l \in MaxLogs, CallSkewed(l) PROVE DrawsInRange'
    <3> DEFINE k == NextSeed(seed) % (l + 1)
    <3>1. /\ ret' = [op |-> "Skewed", arg |-> l, val |-> seed' % 2 ^ k] /\ seed' \in Nat
          /\ l \in Nat
      BY <2>1, <2>6 DEF CallSkewed, Returns
    <3>2. k \in 0 .. l
      <4>1. l + 1 \in Nat \ {0} /\ NextSeed(seed) \in Nat
        BY <2>1, <3>1
      <4>2. k \in 0 .. (l + 1) - 1
        BY <4>1, Division
      <4> QED BY <3>1, <4>2
    <3> HIDE DEF k
    <3>3. 2 ^ k \in Nat \ {0} /\ 2 ^ l \in Nat /\ 2 ^ k <= 2 ^ l
      BY <3>1, <3>2, Powers
    <3>4. seed' % 2 ^ k \in 0 .. 2 ^ k - 1
      BY <3>1, <3>3, Division
    <3>5. seed' % 2 ^ k < 2 ^ l
      BY <3>3, <3>4
    <3> QED BY <3>1, <3>5 DEF DrawsInRange
  <2>7. CASE UNCHANGED vars
    BY <2>7 DEF vars, DrawsInRange
  <2> QED BY <2>2, <2>3, <2>4, <2>5, <2>6, <2>7 DEF Next
<1> QED BY <1>1, <1>2, Invariance, PTL DEF Spec

-----------------------------------------------------------------------------
(* The cycle.                                                              *)

\* A set of numbers has a least one.
LEMMA Least ==
  ASSUME NEW S \in SUBSET Nat, S # {}
  PROVE  \E n \in S : \A m \in S : n <= m
<1> DEFINE R == {ss \in Nat \X Nat : ss[1] < ss[2]}
<1>1. OpToRel(<, Nat) = R
  BY DEF OpToRel
<1>2. PICK n \in S : \A m \in S : ~ (<<m, n>> \in R)
  BY <1>1, NatLessThanWellFounded, WFMin, Zenon
<1>3. \A m \in S : ~ (m < n)
  BY <1>2
<1> QED BY <1>3

\* A set that has 0, and with a number the next, has them all up to a bound.
LEMMA Induction ==
  ASSUME NEW N \in Nat, NEW S, 0 \in S,
         \A n \in Nat : n < N /\ n \in S => n + 1 \in S
  PROVE  N \in S
<1> SUFFICES ASSUME N \notin S PROVE FALSE
  OBVIOUS
<1> DEFINE T == (0 .. N) \ S
<1>1. T \in SUBSET Nat /\ T # {}
  OBVIOUS
<1> HIDE DEF T
<1>2. PICK n \in T : \A m \in T : n <= m
  BY <1>1, Least
<1> USE DEF T
<1>3. n - 1 \in Nat /\ n - 1 < N /\ n - 1 \in S
  BY <1>2
<1> QED BY <1>2, <1>3

Seeds == 1 .. M - 1

\* The first n draws from the seed s, before them s itself.
Drawn(g, s, n) ==
  /\ g \in [0 .. n -> Seeds] /\ g[0] = s
  /\ \A k \in 1 .. n : g[k] = NextSeed(g[k - 1])

\* The recursion of Draws has a solution, and Draws is it.
LEMMA DrawsAreDrawn == ASSUME NEW s \in Seeds PROVE Drawn(Draws(s), s, M - 1)
<1> DEFINE L == M - 1
           Is(f) == f = [k \in 0 .. L |-> IF k = 0 THEN s ELSE NextSeed(f[k - 1])]
           d == CHOOSE f : Is(f)
           S == {n \in 0 .. L : \E g : Drawn(g, s, n)}
<1>1. L \in Nat
  BY ParametersAssumption
<1>2. \A t \in Seeds : NextSeed(t) \in Seeds
  BY NextIsModulo DEF Seeds
<1> HIDE DEF L
<1>3. 0 \in S
  <2>1. Drawn([k \in 0 .. 0 |-> s], s, 0)
    BY DEF Drawn
  <2>2. \E g : Drawn(g, s, 0)
    BY <2>1, Zenon
  <2> QED BY <1>1, <2>2
<1>4. ASSUME NEW n \in Nat, n < L, n \in S PROVE n + 1 \in S
  <2>1. PICK g : Drawn(g, s, n)
    BY <1>4
  <2>2. g \in [0 .. n -> Seeds] /\ g[0] = s /\ \A k \in 1 .. n : g[k] = NextSeed(g[k - 1])
    BY <2>1 DEF Drawn
  <2> DEFINE x == NextSeed(g[n])
             h == [k \in 0 .. n + 1 |-> IF k <= n THEN g[k] ELSE x]
  <2>3. x \in Seeds
    <3>1. g[n] \in Seeds
      BY <2>2
    <3> QED BY <1>2, <3>1
  <2> HIDE DEF x
  <2>4. h \in [0 .. n + 1 -> Seeds] /\ h[0] = s /\ h[n + 1] = x /\ \A k \in 0 .. n : h[k] = g[k]
    BY <2>2, <2>3
  <2> HIDE DEF h
  <2>5. ASSUME NEW k \in 1 .. n + 1 PROVE h[k] = NextSeed(h[k - 1])
    <3>1. CASE k = n + 1
      <4>1. k - 1 = n /\ n \in 0 .. n
        BY <3>1
      <4> QED BY <2>4, <3>1, <4>1 DEF x
    <3>2. CASE k # n + 1
      <4>1. k \in 1 .. n /\ k \in 0 .. n /\ k - 1 \in 0 .. n
        BY <3>2
      <4> QED BY <2>2, <2>4, <4>1
    <3> QED BY <3>1, <3>2
  <2>6. Drawn(h, s, n + 1)
    BY <2>4, <2>5 DEF Drawn
  <2>7. \E f : Drawn(f, s, n + 1)
    BY <2>6, Zenon
  <2> QED BY <1>1, <1>4, <2>7
<1> HIDE DEF S
<1>5. L \in S
  BY <1>1, <1>3, <1>4, Induction
<1>6. PICK g : Drawn(g, s, L)
  BY <1>5 DEF S
<1>7. g \in [0 .. L -> Seeds] /\ g[0] = s /\ \A k \in 1 .. L : g[k] = NextSeed(g[k - 1])
  BY <1>6 DEF Drawn
<1>8. Is(g)
  <2> DEFINE r == [k \in 0 .. L |-> IF k = 0 THEN s ELSE NextSeed(g[k - 1])]
  <2>1. ASSUME NEW k \in 0 .. L PROVE g[k] = r[k]
    BY <1>1, <1>7
  <2> QED BY <1>7, <2>1
<1>9. Is(d)
  BY <1>8, Zenon
<1>10. Draws(s) = d
  BY DEF Draws, L
<1> HIDE DEF d
<1>11. d[0] = s /\ \A k \in 1 .. L : d[k] = NextSeed(d[k - 1])
  BY <1>1, <1>9
<1> DEFINE E == {k \in 0 .. L : d[k] = g[k]}
<1>12. \A m \in 0 .. L : d[m] = g[m]
  <2> SUFFICES ASSUME NEW m \in 0 .. L PROVE d[m] = g[m]
    OBVIOUS
  <2>1. 0 \in E
    BY <1>1, <1>7, <1>11
  <2>2. ASSUME NEW n \in Nat, n < m, n \in E PROVE n + 1 \in E
    <3>1. n + 1 \in 1 .. L /\ n + 1 \in 0 .. L /\ (n + 1) - 1 = n
      BY <1>1, <2>2
    <3> QED BY <1>7, <1>11, <2>2, <3>1
  <2> HIDE DEF E
  <2>3. m \in Nat
    BY <1>1
  <2>4. m \in E
    BY <2>1, <2>2, <2>3, Induction
  <2> QED BY <2>4 DEF E
<1>13. d = g
  <2>1. d = [k \in 0 .. L |-> d[k]]
    BY <1>9
  <2> QED BY <1>7, <1>12, <2>1
<1> QED BY <1>6, <1>10, <1>13 DEF L

\* A is a primitive root of M: from the seed 1 the generator goes through them all.
Primitive == {Draws(1)[k] : k \in Seeds} = Seeds

\* The cycle is one: it comes back to 1 after M - 1 draws and not before.
LEMMA Cycle ==
  ASSUME Primitive
  PROVE  LET d == Draws(1)
         IN  Drawn(d, 1, M - 1) /\ d[M - 1] = 1 /\ 1 \in Seeds
<1> DEFINE L == M - 1  d == Draws(1)  f == [k \in Seeds |-> d[k]]
<1>1. L \in Nat \ {0} /\ Seeds = 1 .. L /\ 1 \in Seeds
  BY ParametersAssumption DEF Seeds
<1>2. Drawn(d, 1, L)
  BY <1>1, DrawsAreDrawn
<1>3. {d[k] : k \in Seeds} = Seeds
  BY DEF Primitive
<1> HIDE DEF L, d
<1>4. d \in [0 .. L -> Seeds] /\ d[0] = 1 /\ \A k \in 1 .. L : d[k] = NextSeed(d[k - 1])
  BY <1>2 DEF Drawn
<1>5. f \in Injection(Seeds, Seeds)
  <2>1. f \in Surjection(Seeds, Seeds)
    <3>1. f \in [Seeds -> Seeds]
      <4>1. Seeds \subseteq 0 .. L
        BY <1>1
      <4> QED BY <1>4, <4>1
    <3>2. \A t \in Seeds : \E k \in Seeds : f[k] = t
      BY <1>3
    <3> QED BY <3>1, <3>2 DEF Surjection
  <2>2. IsFiniteSet(Seeds)
    BY <1>1, FS_Interval
  <2> QED BY <2>1, <2>2, FS_Surjection
<1>6. \A j, k \in Seeds : d[j] = d[k] => j = k
  <2>1. \A k \in Seeds : f[k] = d[k]
    OBVIOUS
  <2> HIDE DEF f
  <2>2. \A j, k \in Seeds : f[j] = f[k] => j = k
    BY <1>5 DEF Injection, IsInjective
  <2> QED BY <2>1, <2>2
<1>7. PICK k \in Seeds : d[k] = 1
  BY <1>1, <1>3
<1>8. k = L
  <2> SUFFICES ASSUME k # L PROVE FALSE
    OBVIOUS
  <2>1. k + 1 \in 1 .. L /\ (k + 1) - 1 = k /\ k + 1 # 1
    BY <1>1
  <2>2. d[k + 1] = NextSeed(1)
    BY <1>4, <1>7, <2>1
  <2>3. d[1] = NextSeed(1)
    <3>1. 1 \in 1 .. L /\ 1 - 1 = 0
      BY <1>1
    <3> QED BY <1>4, <3>1
  <2> QED BY <1>1, <1>6, <2>1, <2>2, <2>3
<1> QED BY <1>1, <1>2, <1>7, <1>8 DEF L, d

\* The draws from any seed are those from 1, from where the seed is among them.
LEMMA SameCycle ==
  ASSUME Primitive, NEW s \in Seeds
  PROVE  {Draws(s)[k] : k \in Seeds} = Seeds
<1> DEFINE L == M - 1  d == Draws(1)  e == Draws(s)
<1>1. L \in Nat \ {0} /\ Seeds = 1 .. L
  BY ParametersAssumption DEF Seeds
<1>2. Drawn(d, 1, L) /\ d[L] = 1 /\ Drawn(e, s, L)
  BY Cycle, DrawsAreDrawn
<1>3. {d[k] : k \in Seeds} = Seeds
  BY DEF Primitive
<1> HIDE DEF L, d, e
<1>4. /\ d[0] = 1 /\ \A k \in 1 .. L : d[k] = NextSeed(d[k - 1])
      /\ e \in [0 .. L -> Seeds] /\ e[0] = s /\ \A k \in 1 .. L : e[k] = NextSeed(e[k - 1])
  BY <1>2 DEF Drawn
<1>5. PICK j \in 1 .. L : d[j] = s
  BY <1>1, <1>3
<1> DEFINE at(k) == IF j + k <= L THEN j + k ELSE (j + k) - L
           S == {k \in 0 .. L : e[k] = d[at(k)]}
<1>6. 0 \in S
  <2>1. at(0) = j
    BY <1>1
  <2>2. e[0] = d[at(0)]
    <3> HIDE DEF at
    <3> QED BY <1>4, <1>5, <2>1
  <2> HIDE DEF at
  <2> QED BY <1>1, <2>2
<1>7. ASSUME NEW k \in Nat, k < L, k \in S PROVE k + 1 \in S
  <2>1. e[k + 1] = NextSeed(d[at(k)])
    <3>1. k + 1 \in 1 .. L /\ (k + 1) - 1 = k
      BY <1>1, <1>7
    <3>2. e[k + 1] = NextSeed(e[k])
      BY <1>4, <3>1
    <3> HIDE DEF at
    <3> QED BY <1>7, <3>2
  <2>2. CASE j + k = L
    <3>1. at(k) = L /\ at(k + 1) = 1 /\ 1 \in 1 .. L /\ 1 - 1 = 0
      BY <1>1, <2>2
    <3> HIDE DEF at
    <3>2. d[at(k + 1)] = e[k + 1]
      BY <1>2, <1>4, <2>1, <3>1
    <3> QED BY <1>1, <1>7, <3>2
  <2>3. CASE j + k # L
    <3>1. at(k + 1) = at(k) + 1 /\ at(k) + 1 \in 1 .. L /\ (at(k) + 1) - 1 = at(k)
      BY <1>1, <1>7, <2>3
    <3> HIDE DEF at
    <3>2. d[at(k + 1)] = e[k + 1]
      BY <1>4, <2>1, <3>1
    <3> QED BY <1>1, <1>7, <3>2
  <2> QED BY <2>2, <2>3
<1>8. \A k \in 0 .. L : e[k] = d[at(k)]
  <2> SUFFICES ASSUME NEW m \in 0 .. L PROVE m \in S
    OBVIOUS
  <2> HIDE DEF S
  <2>1. m \in Nat /\ m <= L
    BY <1>1
  <2>2. \A k \in Nat : k < m /\ k \in S => k + 1 \in S
    BY <1>1, <1>7, <2>1
  <2> QED BY <1>6, <2>1, <2>2, Induction
<1>9. ASSUME NEW t \in Seeds PROVE \E k \in Seeds : e[k] = t
  <2>1. PICK i \in 1 .. L : d[i] = t
    BY <1>1, <1>3
  <2> DEFINE k == IF i > j THEN i - j ELSE (i - j) + L
  <2>2. k \in 1 .. L /\ k \in 0 .. L /\ at(k) = i
    BY <1>1
  <2> HIDE DEF k, at
  <2> QED BY <1>1, <1>8, <2>1, <2>2
<1>10. \A k \in Seeds : e[k] \in Seeds
  <2>1. Seeds \subseteq 0 .. L
    BY <1>1
  <2> QED BY <1>4, <2>1
<1> QED BY <1>9, <1>10 DEF e

\* From whatever state the generator is in, it goes through all seeds, if A is a
\* primitive root of M; 16807 is one of 2^31 - 1.
THEOREM EverySeedCycles == ASSUME Primitive PROVE Spec => []CyclesThroughAll
<1>1. IInv => CyclesThroughAll
  BY SameCycle DEF IInv, Seeds, CyclesThroughAll
<1> QED BY <1>1, Invariance, PTL
=============================================================================
