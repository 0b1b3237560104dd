----------------------------- MODULE Coding_proofs ----------------------------
(***************************************************************************)
(* Proofs about Coding, for every base, every width, all numbers, strings  *)
(* and noise and any number of items: that numbers have one size and one   *)
(* encoding, whatever branch, loop or memcpy() writes it; what each parse  *)
(* takes of the bytes it is given; and from these, the properties of the   *)
(* reader and of the writer.                                               *)
(***************************************************************************)
EXTENDS Coding, SequenceTheorems, WellFoundedInduction, TLAPS

-----------------------------------------------------------------------------
(* Induction and recursion over numbers.  The library states them for      *)
(* operators, which the provers cannot instantiate; here they are about    *)
(* sets and functions.                                                     *)

\* A set of numbers has a least one.
LEMMA Least ==
  ASSUME NEW S \in SUBSET Nat, S # {}
  PROVE  \E n \in S : \A m \in S : n <= m
<1> DEFINE R == {ss \in Nat \X Nat : ss[1] < ss[2]}
<1>1. OpToRel(<, Nat) = R
  BY DEF OpToRel
<1>2. PICK n \in S : \A m \in S : ~ (<<m, n>> \in R)
  BY <1>1, NatLessThanWellFounded, WFMin, Zenon
<1>3. \A m \in S : ~ (m < n)
  BY <1>2
<1> QED BY <1>3

\* A set that has 0, and with a number the next, has them all up to a bound.
LEMMA Induction ==
  ASSUME NEW N \in Nat, NEW S, 0 \in S,
         \A n \in Nat : n < N /\ n \in S => n + 1 \in S
  PROVE  N \in S
<1> SUFFICES ASSUME N \notin S PROVE FALSE
  OBVIOUS
<1> DEFINE T == (0 .. N) \ S
<1>1. T \in SUBSET Nat /\ T # {}
  OBVIOUS
<1> HIDE DEF T
<1>2. PICK n \in T : \A m \in T : n <= m
  BY <1>1, Least
<1> USE DEF T
<1>3. n - 1 \in Nat /\ n - 1 < N /\ n - 1 \in S
  BY <1>2
<1> QED BY <1>2, <1>3

\* g starts at t and goes on as D tells from its last value and its index.
Chain(g, T, t, D, n) ==
  /\ g \in [0 .. n -> T] /\ g[0] = t
  /\ \A k \in 1 .. n : g[k] = D[<<g[k - 1], k>>]

\* A step function can be followed for any number of steps.
LEMMA ChainExists ==
  ASSUME NEW T, NEW t \in T, NEW N \in Nat, NEW D \in [T \X (1 .. N) -> T]
  PROVE  \E g : Chain(g, T, t, D, N)
<1> DEFINE S == {k \in 0 .. N : \E g : Chain(g, T, t, D, k)}
<1>1. 0 \in S
  <2>1. Chain([k \in 0 .. 0 |-> t], T, t, D, 0)
    BY DEF Chain
  <2>2. \E g : Chain(g, T, t, D, 0)
    BY <2>1, Zenon
  <2> QED BY <2>2
<1>2. ASSUME NEW n \in Nat, n < N, n \in S PROVE n + 1 \in S
  <2>1. PICK g : Chain(g, T, t, D, n)
    BY <1>2
  <2> DEFINE h == [k \in 0 .. n + 1 |-> IF k <= n THEN g[k] ELSE D[<<g[n], n + 1>>]]
  <2>2. D[<<g[n], n + 1>>] \in T
    BY <1>2, <2>1 DEF Chain
  <2>3. h \in [0 .. n + 1 -> T] /\ h[0] = t
    BY <2>1, <2>2 DEF Chain
  <2>4. ASSUME NEW k \in 1 .. n + 1 PROVE h[k] = D[<<h[k - 1], k>>]
    <3>1. CASE k = n + 1
      BY <1>2, <3>1
    <3>2. CASE k # n + 1
      BY <1>2, <2>1, <3>2 DEF Chain
    <3> QED BY <3>1, <3>2
  <2> HIDE DEF h
  <2>5. Chain(h, T, t, D, n + 1)
    BY <2>3, <2>4 DEF Chain
  <2>6. \E f : Chain(f, T, t, D, n + 1)
    BY <2>5, Zenon
  <2> QED BY <1>2, <2>6
<1> HIDE DEF S
<1>3. N \in S
  BY <1>1, <1>2, Induction
<1> QED BY <1>3 DEF S

\* The recursion of Power has a solution, and Power is it.
LEMMA PowerChain ==
  ASSUME NEW b \in Nat, NEW n \in Nat
  PROVE  \E g \in [0 .. n -> Nat] :
           /\ g[0] = 1 /\ \A k \in 1 .. n : g[k] = b * g[k - 1]
           /\ Power(b, n) = g[n]
<1> DEFINE D == [x \in Nat \X (1 .. n) |-> b * x[1]]
           Is(f) == f = [j \in 0 .. n |-> IF j = 0 THEN 1 ELSE b * f[j - 1]]
           p == CHOOSE f : Is(f)
<1>1. D \in [Nat \X (1 .. n) -> Nat]
  OBVIOUS
<1>2. \A x \in Nat, k \in 1 .. n : D[<<x, k>>] = b * x
  OBVIOUS
<1> HIDE DEF D
<1>3. PICK g : Chain(g, Nat, 1, D, n)
  BY <1>1, ChainExists
<1>4. g \in [0 .. n -> Nat] /\ g[0] = 1 /\ \A k \in 1 .. n : g[k] = b * g[k - 1]
  <2>1. g \in [0 .. n -> Nat] /\ g[0] = 1 /\ \A k \in 1 .. n : g[k] = D[<<g[k - 1], k>>]
    BY <1>3 DEF Chain
  <2>2. \A k \in 1 .. n : g[k - 1] \in Nat
    BY <2>1
  <2> QED BY <1>2, <2>1, <2>2
<1>5. Is(g)
  BY <1>4
<1>6. Is(p)
  BY <1>5, Zenon
<1>7. Power(b, n) = p[n]
  BY DEF Power
<1> HIDE DEF p
<1>8. p[0] = 1 /\ \A k \in 1 .. n : p[k] = b * p[k - 1]
  BY <1>6
<1> DEFINE S == {k \in 0 .. n : p[k] = g[k]}
<1>9. 0 \in S
  BY <1>4, <1>8
<1>10. \A k \in Nat : k < n /\ k \in S => k + 1 \in S
  BY <1>4, <1>8
<1> HIDE DEF S
<1>11. n \in S
  BY <1>9, <1>10, Induction
<1> QED BY <1>4, <1>7, <1>11 DEF S

\* So Power is the power.
LEMMA Powers ==
  ASSUME NEW b \in Nat, NEW n \in Nat
  PROVE  /\ Power(b, n) \in Nat /\ Power(b, 0) = 1
         /\ Power(b, n + 1) = b * Power(b, n)
<1>1. PICK f \in [0 .. n -> Nat] :
        f[0] = 1 /\ (\A k \in 1 .. n : f[k] = b * f[k - 1]) /\ Power(b, n) = f[n]
  BY PowerChain
<1>2. PICK g \in [0 .. n + 1 -> Nat] :
        g[0] = 1 /\ (\A k \in 1 .. n + 1 : g[k] = b * g[k - 1]) /\ Power(b, n + 1) = g[n + 1]
  <2>1. n + 1 \in Nat
    OBVIOUS
  <2> QED BY <2>1, PowerChain
<1> DEFINE S == {k \in 0 .. n : f[k] = g[k]}
<1>3. 0 \in S
  BY <1>1, <1>2
<1>4. ASSUME NEW k \in Nat, k < n, k \in S PROVE k + 1 \in S
  <2>1. k + 1 \in 1 .. n /\ k + 1 \in 1 .. n + 1 /\ (k + 1) - 1 = k
    BY <1>4
  <2>2. f[k + 1] = b * f[k] /\ g[k + 1] = b * g[k]
    BY <1>1, <1>2, <2>1
  <2> QED BY <1>4, <2>1, <2>2
<1> HIDE DEF S
<1>5. n \in S
  BY <1>3, <1>4, Induction
<1>6. PICK h \in [0 .. 0 -> Nat] : h[0] = 1 /\ Power(b, 0) = h[0]
  BY PowerChain
<1>7. g[n + 1] = b * g[n]
  <2>1. n + 1 \in 1 .. n + 1 /\ (n + 1) - 1 = n
    OBVIOUS
  <2> QED BY <1>2, <2>1
<1> QED BY <1>1, <1>2, <1>5, <1>6, <1>7 DEF S

\* The partial sums of a sequence of numbers, the last of which is Sum.
Partial(g, f) ==
  /\ g \in [0 .. Len(f) -> Nat] /\ g[0] = 0
  /\ \A k \in 1 .. Len(f) : g[k] = g[k - 1] + f[k]

\* The recursion of Sum has a solution, and Sum is it.
LEMMA SumIsPartial ==
  ASSUME NEW f \in Seq(Nat)
  PROVE  \E g : Partial(g, f) /\ Sum(f) = g[Len(f)]
<1> DEFINE n == Len(f)
           D == [x \in Nat \X (1 .. n) |-> x[1] + f[x[2]]]
           Is(g) == g = [i \in 0 .. n |-> IF i = 0 THEN 0 ELSE g[i - 1] + f[i]]
           s == CHOOSE g : Is(g)
<1>1. n \in Nat /\ \A k \in 1 .. n : f[k] \in Nat
  OBVIOUS
<1>2. Sum(f) = s[n]
  BY DEF Sum, n
<1> HIDE DEF n
<1>3. D \in [Nat \X (1 .. n) -> Nat] /\ \A x \in Nat, k \in 1 .. n : D[<<x, k>>] = x + f[k]
  BY <1>1
<1> HIDE DEF D
<1>4. PICK g : Chain(g, Nat, 0, D, n)
  BY <1>1, <1>3, ChainExists
<1>5. g \in [0 .. n -> Nat] /\ g[0] = 0 /\ \A k \in 1 .. n : g[k] = g[k - 1] + f[k]
  <2>1. g \in [0 .. n -> Nat] /\ g[0] = 0 /\ \A k \in 1 .. n : g[k] = D[<<g[k - 1], k>>]
    BY <1>4 DEF Chain
  <2>2. \A k \in 1 .. n : g[k - 1] \in Nat
    BY <1>1, <2>1
  <2> QED BY <1>3, <2>1, <2>2
<1>6. Is(g)
  BY <1>1, <1>5
<1>7. Is(s)
  BY <1>6, Zenon
<1> HIDE DEF s
<1>8. s[0] = 0 /\ \A k \in 1 .. n : s[k] = s[k - 1] + f[k]
  BY <1>1, <1>7
<1> DEFINE S == {k \in 0 .. n : s[k] = g[k]}
<1>9. 0 \in S
  BY <1>1, <1>5, <1>8
<1>10. \A k \in Nat : k < n /\ k \in S => k + 1 \in S
  BY <1>1, <1>5, <1>8
<1> HIDE DEF S
<1>11. n \in S
  BY <1>1, <1>9, <1>10, Induction
<1> QED BY <1>2, <1>5, <1>11 DEF Partial, S, n

\* So Sum is the sum.
LEMMA Sums ==
  ASSUME NEW f \in Seq(Nat), NEW x \in Nat
  PROVE  /\ Sum(f) \in Nat /\ (Len(f) = 0 => Sum(f) = 0)
         /\ Sum(Append(f, x)) = Sum(f) + x
<1> DEFINE n == Len(f)  e == Append(f, x)
<1>1. n \in Nat /\ e \in Seq(Nat) /\ Len(e) = n + 1 /\ e[n + 1] = x
      /\ \A k \in 1 .. n : e[k] = f[k]
  OBVIOUS
<1> HIDE DEF e
<1>2. PICK g : Partial(g, f) /\ Sum(f) = g[n]
  BY SumIsPartial
<1>3. PICK h : Partial(h, e) /\ Sum(e) = h[n + 1]
  BY <1>1, SumIsPartial
<1> HIDE DEF n
<1>4. g \in [0 .. n -> Nat] /\ g[0] = 0 /\ \A k \in 1 .. n : g[k] = g[k - 1] + f[k]
  BY <1>2 DEF Partial, n
<1>5. h[0] = 0 /\ \A k \in 1 .. n + 1 : h[k] = h[k - 1] + e[k]
  BY <1>1, <1>3 DEF Partial
<1> DEFINE S == {k \in 0 .. n : g[k] = h[k]}
<1>6. 0 \in S
  BY <1>1, <1>4, <1>5
<1>7. ASSUME NEW k \in Nat, k < n, k \in S PROVE k + 1 \in S
  <2>1. k + 1 \in 1 .. n /\ k + 1 \in 1 .. n + 1 /\ (k + 1) - 1 = k
    BY <1>1, <1>7
  <2>2. g[k + 1] = g[k] + f[k + 1] /\ h[k + 1] = h[k] + f[k + 1]
    BY <1>1, <1>4, <1>5, <2>1
  <2> QED BY <1>1, <1>7, <2>1, <2>2
<1> HIDE DEF S
<1>8. n \in S
  BY <1>1, <1>6, <1>7, Induction
<1>9. h[n + 1] = h[n] + x
  <2>1. n + 1 \in 1 .. n + 1 /\ (n + 1) - 1 = n
    BY <1>1
  <2> QED BY <1>1, <1>5, <2>1
<1>10. g[n] \in Nat
  BY <1>1, <1>4
<1> QED BY <1>2, <1>3, <1>4, <1>8, <1>9, <1>10 DEF S, n, e

-----------------------------------------------------------------------------
(* Division, powers and digits.                                            *)

\* Division leaves a quotient and a remainder.
LEMMA Division ==
  ASSUME NEW p \in Nat, NEW m \in Nat \ {0}
  PROVE  /\ p \div m \in Nat /\ p % m \in 0 .. m - 1
         /\ p = m * (p \div m) + (p % m)
<1>1. p % m \in 0 .. m - 1
  BY SMT
<1>2. p = m * (p \div m) + (p % m)
  BY SMT
<1>3. p \div m \in Int
  BY SMT
<1>4. p \div m >= 0
  BY SMT
<1> QED BY <1>1, <1>2, <1>3, <1>4

\* And there is only one such pair.
LEMMA DivisionUnique ==
  ASSUME NEW m \in Nat \ {0}, NEW q \in Nat, NEW r \in 0 .. m - 1
  PROVE  (m * q + r) \div m = q /\ (m * q + r) % m = r
<1> DEFINE p == m * q + r  d == p \div m  t == p % m
<1>1. p \in Nat
  OBVIOUS
<1>2. d \in Nat /\ t \in 0 .. m - 1 /\ m * q + r = m * d + t
  BY <1>1, Division
<1> HIDE DEF d, t
<1>3. m * (d - q) = r - t
  BY <1>2
<1>4. CASE d - q >= 1
  <2>1. m * (d - q) >= m
    BY <1>2, <1>4
  <2> QED BY <2>1, <1>2, <1>3
<1>5. CASE d - q <= -1
  <2>1. m * (d - q) <= -m
    BY <1>2, <1>5
  <2> QED BY <2>1, <1>2, <1>3
<1>6. CASE d - q = 0
  <2>1. m * (d - q) = 0
    BY <1>2, <1>6
  <2> QED BY <1>2, <1>3, <1>6, <2>1 DEF d, t
<1> QED BY <1>2, <1>4, <1>5, <1>6

\* A number below the modulus is its own remainder.
LEMMA OwnRemainder ==
  ASSUME NEW m \in Nat \ {0}, NEW r \in 0 .. m - 1
  PROVE  r % m = r
<1>1. 0 \in Nat
  OBVIOUS
<1>2. (m * 0 + r) % m = r
  BY <1>1, DivisionUnique
<1>3. m * 0 + r = r
  OBVIOUS
<1> QED BY <1>2, <1>3

\* The powers of a base grow, and outgrow their exponent.
LEMMA PowersGrow ==
  ASSUME NEW b \in Nat \ {0, 1}, NEW n \in Nat
  PROVE  /\ n < Power(b, n) /\ Power(b, n) \in Nat \ {0}
         /\ \A m \in 0 .. n : Power(b, m) <= Power(b, n)
<1> DEFINE S == {k \in Nat : k < Power(b, k) /\ \A m \in 0 .. k : Power(b, m) <= Power(b, k)}
<1>1. \A k \in Nat : /\ Power(b, k) \in Nat /\ Power(b, 0) = 1
                     /\ Power(b, k + 1) = b * Power(b, k)
  BY Powers
<1>2. 0 \in S
  BY <1>1
<1>3. ASSUME NEW k \in Nat, k < n, k \in S PROVE k + 1 \in S
  <2> DEFINE p == Power(b, k)
  <2>1. p \in Nat /\ k < p /\ Power(b, k + 1) = b * p
    BY <1>1, <1>3
  <2>2. \A m \in 0 .. k : Power(b, m) <= p /\ Power(b, m) \in Nat
    BY <1>1, <1>3
  <2> HIDE DEF p
  <2>3. b * p >= 2 * p
    BY <2>1
  <2>4. b * p \in Nat
    BY <2>1
  <2>5. k + 1 < Power(b, k + 1)
    BY <2>1, <2>3, <2>4
  <2>6. ASSUME NEW m \in 0 .. k + 1 PROVE Power(b, m) <= Power(b, k + 1)
    <3>1. CASE m = k + 1
      BY <2>1, <2>4, <3>1
    <3>2. CASE m # k + 1
      BY <2>1, <2>2, <2>3, <2>4, <3>2
    <3> QED BY <3>1, <3>2
  <2> QED BY <2>5, <2>6
<1> HIDE DEF S
<1>4. n \in S
  BY <1>2, <1>3, Induction
<1> QED BY <1>1, <1>4 DEF S

\* A higher power is a multiple of a lower one.
LEMMA PowersDivide ==
  ASSUME NEW b \in Nat, NEW n \in Nat, NEW m \in 0 .. n
  PROVE  \E y \in Nat : Power(b, n) = Power(b, m) * y
<1> DEFINE S == {k \in Nat : \E y \in Nat : Power(b, m + k) = Power(b, m) * y}
<1>1. \A k \in Nat : Power(b, k) \in Nat /\ Power(b, k + 1) = b * Power(b, k)
  BY Powers
<1>2. 0 \in S
  <2>1. Power(b, m + 0) = Power(b, m) * 1
    BY <1>1
  <2> QED BY <2>1
<1>3. ASSUME NEW k \in Nat, k < n - m, k \in S PROVE k + 1 \in S
  <2>1. PICK y \in Nat : Power(b, m + k) = Power(b, m) * y
    BY <1>3
  <2>2. Power(b, m + (k + 1)) = b * Power(b, m + k)
    <3>1. m + (k + 1) = (m + k) + 1 /\ m + k \in Nat
      OBVIOUS
    <3> QED BY <1>1, <3>1
  <2>3. b * (Power(b, m) * y) = Power(b, m) * (b * y) /\ b * y \in Nat
    BY <1>1
  <2>4. Power(b, m + (k + 1)) = Power(b, m) * (b * y)
    BY <2>1, <2>2, <2>3
  <2> QED BY <2>3, <2>4
<1> HIDE DEF S
<1>4. n - m \in Nat
  OBVIOUS
<1>5. n - m \in S
  BY <1>2, <1>3, <1>4, Induction
<1>6. m + (n - m) = n
  OBVIOUS
<1> QED BY <1>5, <1>6 DEF S

\* One digit more.
LEMMA NextDigit ==
  ASSUME NEW v \in Nat, NEW P \in Nat \ {0}, NEW b \in Nat \ {0}
  PROVE  /\ v % (b * P) = (v % P) + ((v \div P) % b) * P
         /\ v \div (b * P) = (v \div P) \div b
<1> DEFINE q == v \div P  r == v % P  u == q \div b  d == q % b
<1>1. q \in Nat /\ r \in 0 .. P - 1 /\ v = P * q + r
  BY Division
<1> HIDE DEF q, r
<1>2. u \in Nat /\ d \in 0 .. b - 1 /\ q = b * u + d
  BY <1>1, Division
<1> HIDE DEF u, d
<1>3. b * P \in Nat \ {0}
  <2>1. b * P >= P
    OBVIOUS
  <2> QED BY <2>1
<1>4. d * P + r \in 0 .. b * P - 1
  <2>1. d * P <= (b - 1) * P
    BY <1>2
  <2>2. (b - 1) * P = b * P - P
    OBVIOUS
  <2>3. d * P \in Nat
    BY <1>2
  <2> QED BY <1>1, <1>3, <2>1, <2>2, <2>3
<1>5. v = (b * P) * u + (d * P + r)
  <2>1. P * (b * u + d) = (b * P) * u + d * P
    BY <1>2
  <2>2. d * P \in Nat /\ (b * P) * u \in Nat
    BY <1>2, <1>3
  <2> QED BY <1>1, <1>2, <2>1, <2>2
<1>6. v \div (b * P) = u /\ v % (b * P) = d * P + r
  BY <1>2, <1>3, <1>4, <1>5, DivisionUnique
<1>7. d * P + r = r + d * P
  BY <1>1, <1>2
<1> QED BY <1>6, <1>7 DEF q, r, u, d

\* The partial sums of Value.
LEMMA Values ==
  ASSUME NEW b \in Nat, NEW s \in Seq(Nat)
  PROVE  \E g \in [0 .. Len(s) -> Nat] :
           /\ g[0] = 0 /\ \A k \in 1 .. Len(s) : g[k] = g[k - 1] + s[k] * Power(b, k - 1)
           /\ Value(s, b) = g[Len(s)]
<1> DEFINE n == Len(s)  f == [i \in 1 .. n |-> s[i] * Power(b, i - 1)]
<1>1. n \in Nat /\ \A i \in 1 .. n : s[i] \in Nat
  OBVIOUS
<1>2. \A i \in 1 .. n : s[i] * Power(b, i - 1) \in Nat
  <2> SUFFICES ASSUME NEW i \in 1 .. n PROVE s[i] * Power(b, i - 1) \in Nat
    OBVIOUS
  <2>1. i - 1 \in Nat
    OBVIOUS
  <2>2. Power(b, i - 1) \in Nat
    BY <2>1, Powers
  <2> QED BY <1>1, <2>2
<1>3. Value(s, b) = Sum(f)
  BY DEF Value
<1> HIDE DEF n
<1>4. f \in Seq(Nat) /\ Len(f) = n /\ \A i \in 1 .. n : f[i] = s[i] * Power(b, i - 1)
  BY <1>1, <1>2
<1> HIDE DEF f
<1>5. PICK g : Partial(g, f) /\ Sum(f) = g[n]
  BY <1>4, SumIsPartial
<1>6. g \in [0 .. n -> Nat] /\ g[0] = 0 /\ \A k \in 1 .. n : g[k] = g[k - 1] + f[k]
  BY <1>4, <1>5 DEF Partial
<1> QED BY <1>3, <1>4, <1>5, <1>6 DEF n

\* The digits of a number have its value, but for what they leave out.
LEMMA ValueOfDigits ==
  ASSUME NEW b \in Nat \ {0, 1}, NEW v \in Nat, NEW s \in Seq(Nat),
         \A i \in 1 .. Len(s) : s[i] = (v \div Power(b, i - 1)) % b
  PROVE  Value(s, b) = v % Power(b, Len(s))
<1> DEFINE n == Len(s)
<1>1. n \in Nat
  OBVIOUS
<1>2. PICK g \in [0 .. n -> Nat] :
        /\ g[0] = 0 /\ \A k \in 1 .. n : g[k] = g[k - 1] + s[k] * Power(b, k - 1)
        /\ Value(s, b) = g[n]
  BY Values
<1> HIDE DEF n
<1>3. \A k \in Nat : Power(b, k) \in Nat \ {0} /\ Power(b, k + 1) = b * Power(b, k)
  BY Powers, PowersGrow
<1> DEFINE S == {k \in 0 .. n : g[k] = v % Power(b, k)}
<1>4. 0 \in S
  <2>1. Power(b, 0) = 1
    BY Powers
  <2>2. v % 1 = 0
    OBVIOUS
  <2> QED BY <1>1, <1>2, <2>1, <2>2
<1>5. ASSUME NEW k \in Nat, k < n, k \in S PROVE k + 1 \in S
  <2>1. k + 1 \in 1 .. n /\ (k + 1) - 1 = k
    BY <1>1, <1>5
  <2>2. g[k + 1] = g[k] + s[k + 1] * Power(b, k) /\ s[k + 1] = (v \div Power(b, k)) % b
    BY <1>2, <2>1 DEF n
  <2>3. v % (b * Power(b, k)) = (v % Power(b, k)) + ((v \div Power(b, k)) % b) * Power(b, k)
    <3>1. \A P \in Nat \ {0} : v % (b * P) = (v % P) + ((v \div P) % b) * P
      BY NextDigit
    <3> QED BY <1>3, <3>1
  <2>4. g[k + 1] = v % Power(b, k + 1)
    BY <1>3, <1>5, <2>2, <2>3
  <2> QED BY <1>1, <2>1, <2>4
<1> HIDE DEF S
<1>6. n \in S
  BY <1>1, <1>4, <1>5, Induction
<1> QED BY <1>2, <1>6 DEF S, n

\* The value of digits has these digits, and no other.
LEMMA DigitsOfValue ==
  ASSUME NEW b \in Nat \ {0, 1}, NEW s \in Seq(0 .. b - 1)
  PROVE  /\ Value(s, b) \in 0 .. Power(b, Len(s)) - 1
         /\ \A i \in 1 .. Len(s) : (Value(s, b) \div Power(b, i - 1)) % b = s[i]
<1> DEFINE n == Len(s)
<1>1. n \in Nat /\ s \in Seq(Nat) /\ \A i \in 1 .. n : s[i] \in 0 .. b - 1
  OBVIOUS
<1>2. PICK g \in [0 .. n -> Nat] :
        /\ g[0] = 0 /\ \A k \in 1 .. n : g[k] = g[k - 1] + s[k] * Power(b, k - 1)
        /\ Value(s, b) = g[n]
  BY <1>1, Values
<1> HIDE DEF n
<1>3. \A k \in Nat : Power(b, k) \in Nat \ {0} /\ Power(b, k + 1) = b * Power(b, k)
  BY Powers, PowersGrow
<1> DEFINE Has(k) == /\ g[k] \in 0 .. Power(b, k) - 1
                     /\ \A i \in 1 .. k : (g[k] \div Power(b, i - 1)) % b = s[i]
           S == {k \in 0 .. n : Has(k)}
<1>4. 0 \in S
  <2>1. Power(b, 0) = 1
    BY Powers
  <2> QED BY <1>1, <1>2, <2>1
<1>5. ASSUME NEW k \in Nat, k < n, k \in S PROVE k + 1 \in S
  <2> DEFINE d == s[k + 1]  P == Power(b, k)
  <2>1. k + 1 \in 1 .. n /\ (k + 1) - 1 = k /\ k \in 0 .. n
    BY <1>1, <1>5
  <2>2. g[k + 1] = g[k] + d * P /\ d \in 0 .. b - 1 /\ g[k] \in 0 .. P - 1
        /\ P \in Nat \ {0} /\ Power(b, k + 1) = b * P
    BY <1>1, <1>2, <1>3, <1>5, <2>1
  <2>3. \A i \in 1 .. k : (g[k] \div Power(b, i - 1)) % b = s[i]
    BY <1>5
  <2> HIDE DEF d, P
  <2>4. d * P <= (b - 1) * P /\ (b - 1) * P = b * P - P /\ d * P \in Nat /\ b * P \in Nat
    BY <2>2
  <2>5. g[k + 1] \in 0 .. Power(b, k + 1) - 1
    <3> DEFINE e == d * P  f == b * P
    <3>1. e \in Nat /\ f \in Nat /\ e <= f - P
      BY <2>4
    <3> HIDE DEF e, f
    <3>2. g[k] + e \in 0 .. f - 1
      BY <2>2, <3>1
    <3> QED BY <2>2, <3>2 DEF e, f
  <2>6. (g[k + 1] \div P) % b = d
    <3>1. g[k + 1] = P * d + g[k]
      BY <2>2, <2>4
    <3>2. d \in Nat /\ d \in 0 .. b - 1 /\ P \in Nat \ {0} /\ g[k] \in 0 .. P - 1
      BY <2>2
    <3>3. (P * d + g[k]) \div P = d
      BY ONLY <3>2, DivisionUnique
    <3>4. d % b = d
      <4>1. b \in Nat \ {0}
        OBVIOUS
      <4> QED BY ONLY <3>2, <4>1, OwnRemainder
    <3> QED BY <3>1, <3>3, <3>4
  <2>7. ASSUME NEW i \in 1 .. k PROVE (g[k + 1] \div Power(b, i - 1)) % b = s[i]
    <3> DEFINE Q == Power(b, i - 1)  q == g[k] \div Q  r == g[k] % Q
    <3>1. Q \in Nat \ {0} /\ Power(b, i) = b * Q
      <4>1. i - 1 \in Nat /\ (i - 1) + 1 = i
        OBVIOUS
      <4> QED BY <1>3, <4>1
    <3>2. PICK y \in Nat : P = Power(b, i) * y
      <4>1. k \in Nat /\ i \in 0 .. k
        OBVIOUS
      <4> QED BY <4>1, PowersDivide DEF P
    <3> HIDE DEF Q
    <3>3. q \in Nat /\ r \in 0 .. Q - 1 /\ g[k] = Q * q + r
      <4>1. g[k] \in Nat
        BY <2>2
      <4> QED BY <3>1, <4>1, Division
    <3>4. q % b = s[i]
      BY <2>3 DEF Q
    <3> HIDE DEF q, r
    <3>5. d * P = Q * (b * (d * y))
      BY <2>2, <3>1, <3>2
    <3>6. d * y \in Nat /\ b * (d * y) \in Nat
      BY <2>2
    <3> DEFINE z == d * y  x == b * z
    <3> HIDE DEF z
    <3>7. z \in Nat /\ x \in Nat /\ q + x \in Nat /\ d * P = Q * x
      BY <3>3, <3>5, <3>6 DEF z
    <3>8. Q * (q + x) = Q * q + Q * x
      BY <3>1, <3>3, <3>7
    <3>9. g[k + 1] = Q * (q + x) + r
      BY <2>2, <2>4, <3>1, <3>3, <3>7, <3>8
    <3>10. g[k + 1] \div Q = q + x
      BY <3>1, <3>3, <3>7, <3>9, DivisionUnique
    <3>11. (q + x) % b = q % b
      <4> DEFINE u == q \div b  t == q % b
      <4>1. u \in Nat /\ t \in 0 .. b - 1 /\ q = b * u + t
        BY <3>3, Division
      <4> HIDE DEF u, t
      <4>2. q + x = b * (u + z) + t /\ u + z \in Nat
        BY <3>7, <4>1
      <4>3. (b * (u + z) + t) % b = t
        BY <4>1, <4>2, DivisionUnique
      <4> QED BY <4>2, <4>3 DEF t
    <3> QED BY <3>4, <3>10, <3>11 DEF Q
  <2>8. Has(k + 1)
    <3>1. ASSUME NEW i \in 1 .. k + 1 PROVE (g[k + 1] \div Power(b, i - 1)) % b = s[i]
      <4>1. CASE i = k + 1
        BY <2>1, <2>6, <4>1 DEF d, P
      <4>2. CASE i # k + 1
        BY <2>7, <4>2
      <4> QED BY <4>1, <4>2
    <3> QED BY <2>5, <3>1
  <2> QED BY <1>1, <2>1, <2>8
<1> HIDE DEF S
<1>6. n \in S
  BY <1>1, <1>4, <1>5, Induction
<1> QED BY <1>2, <1>6 DEF S, n

-----------------------------------------------------------------------------
(* Varints.                                                                *)

\* A varint of v has k bytes.
HasLength(v, k) == k \in Nat \ {0} /\ v < Power(B, k) /\ (k = 1 \/ Power(B, k - 1) <= v)

\* The bytes of v, whose number is unique.
Size(v) == CHOOSE k : HasLength(v, k)

\* The bases of the varints and of the bytes.
LEMMA Base ==
  /\ B \in Nat \ {0, 1} /\ B \in Nat /\ B \in Nat \ {0}
  /\ Byte = 2 * B /\ Byte \in Nat \ {0, 1}
<1> QED BY SizesAssumption DEF Byte

\* The facts about powers, for that base.
LEMMA BPowers ==
  \A k \in Nat : /\ Power(B, k) \in Nat \ {0} /\ Power(B, k + 1) = B * Power(B, k)
                 /\ k < Power(B, k) /\ \A m \in 0 .. k : Power(B, m) <= Power(B, k)
<1> QED BY Base, Powers, PowersGrow

\* A number has one length only, whichever routine counts it...
LEMMA LengthUnique ==
  ASSUME NEW v \in Nat, NEW k, NEW j, HasLength(v, k), HasLength(v, j)
  PROVE  k = j
<1>1. ASSUME NEW m, NEW n, HasLength(v, m), HasLength(v, n), m < n PROVE FALSE
  <2>1. m \in Nat /\ n - 1 \in Nat /\ m \in 0 .. n - 1 /\ n # 1
    BY <1>1 DEF HasLength
  <2>2. Power(B, m) <= Power(B, n - 1) /\ Power(B, m) \in Nat /\ Power(B, n - 1) \in Nat
    BY <2>1, BPowers
  <2>3. v < Power(B, m) /\ Power(B, n - 1) <= v
    BY <1>1, <2>1 DEF HasLength
  <2> QED BY <2>2, <2>3
<1>2. k \in Nat /\ j \in Nat
  BY DEF HasLength
<1> QED BY <1>1, <1>2

\* ...and it has one.
LEMMA Sizes ==
  ASSUME NEW v \in Nat
  PROVE  HasLength(v, Size(v)) /\ \A k : HasLength(v, k) => k = Size(v)
<1> DEFINE S == {k \in Nat \ {0} : v < Power(B, k)}
<1>1. v + 1 \in S
  <2>1. v + 1 < Power(B, v + 1) /\ Power(B, v + 1) \in Nat
    BY BPowers
  <2> QED BY <2>1
<1>2. PICK k \in S : \A m \in S : k <= m
  BY <1>1, Least
<1>3. HasLength(v, k)
  <2>1. CASE k = 1
    BY <2>1 DEF HasLength
  <2>2. CASE k # 1
    <3>1. k - 1 \in Nat \ {0} /\ k - 1 \notin S
      BY <1>2, <2>2
    <3>2. Power(B, k - 1) <= v
      BY <3>1, BPowers
    <3> QED BY <1>2, <3>2 DEF HasLength
  <2> QED BY <2>1, <2>2
<1>4. HasLength(v, Size(v))
  BY <1>3, Zenon DEF Size
<1> QED BY <1>4, LengthUnique

\* The length of v follows from that of v without its lowest digit.
LEMMA NextSize ==
  ASSUME NEW v \in Nat
  PROVE  /\ v < B => Size(v) = 1
         /\ v >= B => v \div B \in Nat /\ v \div B < v /\ Size(v) = 1 + Size(v \div B)
         /\ Size(v) \in Nat \ {0}
<1>1. Power(B, 0) = 1 /\ Power(B, 1) = B
  <2>1. Power(B, 0) = 1 /\ Power(B, 0 + 1) = B * Power(B, 0)
    BY Base, Powers
  <2> QED BY <2>1, Base
<1>2. ASSUME v < B PROVE Size(v) = 1
  <2>1. HasLength(v, 1)
    BY <1>1, <1>2 DEF HasLength
  <2> QED BY <2>1, Sizes
<1>3. ASSUME v >= B
      PROVE  v \div B \in Nat /\ v \div B < v /\ Size(v) = 1 + Size(v \div B)
  <2> DEFINE q == v \div B  r == v % B  n == Size(q)
  <2>1. q \in Nat /\ r \in 0 .. B - 1 /\ v = B * q + r
    BY Base, Division
  <2> HIDE DEF q, r
  <2>2. q > 0
    BY <1>3, <2>1, Base
  <2>3. q < v
    <3> DEFINE p == B * q
    <3>1. p >= 2 * q /\ p \in Nat
      BY <2>1, Base
    <3>2. v = p + r
      BY <2>1
    <3> HIDE DEF p
    <3> QED BY <2>1, <2>2, <3>1, <3>2
  <2>4. n \in Nat \ {0} /\ q < Power(B, n) /\ (n = 1 \/ Power(B, n - 1) <= q)
    BY <2>1, Sizes DEF HasLength
  <2> HIDE DEF n
  <2>5. v < Power(B, n + 1)
    <3> DEFINE P == Power(B, n)
    <3>1. Power(B, n + 1) = B * P /\ P \in Nat
      BY <2>4, BPowers
    <3> HIDE DEF P
    <3>2. q <= P - 1
      BY <2>1, <2>4, <3>1 DEF P
    <3>3. B * q <= B * (P - 1) /\ B * (P - 1) = B * P - B
      BY <2>1, <3>1, <3>2, Base
    <3>4. B * q \in Nat /\ B * P \in Nat
      BY <2>1, <3>1, Base
    <3> QED BY <2>1, <3>1, <3>3, <3>4, Base
  <2>6. Power(B, n) <= v
    <3>1. CASE n = 1
      BY <1>1, <1>3, <3>1
    <3>2. CASE n # 1
      <4> DEFINE P == Power(B, n - 1)
      <4>1. n - 1 \in Nat /\ (n - 1) + 1 = n
        BY <2>4, <3>2
      <4>2. Power(B, n) = B * P /\ P \in Nat
        BY <4>1, BPowers
      <4> HIDE DEF P
      <4>3. P <= q
        BY <2>4, <3>2 DEF P
      <4>4. B * P <= B * q
        BY <2>1, <4>2, <4>3, Base
      <4> QED BY <2>1, <4>2, <4>4, Base
    <3> QED BY <3>1, <3>2
  <2>7. HasLength(v, n + 1)
    BY <2>4, <2>5, <2>6 DEF HasLength
  <2>8. Size(v) = n + 1
    BY <2>7, Sizes
  <2> QED BY <2>1, <2>3, <2>4, <2>8 DEF q, n
<1>4. Size(v) \in Nat \ {0}
  BY Sizes DEF HasLength
<1> QED BY <1>2, <1>3, <1>4

\* The loop of VarintLength counts it.
LEMMA VarintLengthIsSize == ASSUME NEW v \in Nat PROVE VarintLength(v) = Size(v)
<1> DEFINE g == [u \in Nat |-> Size(u)]
           Is(f) == f = [u \in Nat |-> IF u >= B THEN 1 + f[u \div B] ELSE 1]
           loop == CHOOSE f : Is(f)
<1>1. ASSUME NEW u \in Nat PROVE g[u] = IF u >= B THEN 1 + g[u \div B] ELSE 1
  BY NextSize, Base
<1>2. Is(g)
  <2>1. g = [u \in Nat |-> g[u]]
    OBVIOUS
  <2> HIDE DEF g
  <2> QED BY <1>1, <2>1
<1>3. Is(loop)
  BY <1>2, Zenon
<1>4. VarintLength(v) = loop[v]
  BY DEF VarintLength
<1> HIDE DEF loop
<1>5. \A u \in Nat : loop[u] = IF u >= B THEN 1 + loop[u \div B] ELSE 1
  BY <1>3
<1> HIDE DEF g
<1> DEFINE S == {u \in Nat : loop[u] # g[u]}
<1>6. S = {}
  <2> SUFFICES ASSUME S # {} PROVE FALSE
    OBVIOUS
  <2>1. PICK u \in S : \A w \in S : u <= w
    <3>1. S \in SUBSET Nat
      OBVIOUS
    <3> HIDE DEF S
    <3> QED BY <3>1, Least
  <2>2. CASE u >= B
    <3>1. u \div B \in Nat /\ u \div B < u
      BY <2>2, NextSize
    <3>2. u \div B \notin S
      BY <2>1, <3>1
    <3> QED BY <1>1, <1>5, <2>1, <2>2, <3>1, <3>2
  <2>3. CASE ~(u >= B)
    BY <1>1, <1>5, <2>1, <2>3
  <2> QED BY <2>2, <2>3
<1>7. loop[v] = g[v]
  BY <1>6
<1> QED BY <1>4, <1>7 DEF g

\* The bytes of a varint, whose top bits tell where it ends.
LEMMA GroupsAre ==
  ASSUME NEW v \in Nat, NEW n, HasLength(v, n)
  PROVE  /\ n \in Nat \ {0} /\ Len(Groups(v, n)) = n /\ Groups(v, n) \in Seq(0 .. Byte - 1)
         /\ Groups(v, n)[n] < B /\ \A i \in 1 .. n - 1 : Groups(v, n)[i] >= B
         /\ \A i \in 1 .. n : Groups(v, n)[i] % B = (v \div Power(B, i - 1)) % B
<1>1. n \in Nat \ {0} /\ v < Power(B, n)
  BY DEF HasLength
<1> DEFINE d == [i \in 1 .. n |-> v \div Power(B, i - 1)]  e == [i \in 1 .. n |-> d[i] % B]
<1>2. \A i \in 1 .. n : d[i] \in Nat /\ e[i] \in 0 .. B - 1
  <2> SUFFICES ASSUME NEW i \in 1 .. n
               PROVE  v \div Power(B, i - 1) \in Nat /\ (v \div Power(B, i - 1)) % B \in 0 .. B - 1
    OBVIOUS
  <2>1. i - 1 \in Nat
    BY <1>1
  <2>2. Power(B, i - 1) \in Nat \ {0}
    BY <2>1, BPowers
  <2>3. v \div Power(B, i - 1) \in Nat
    BY <2>2, Division
  <2> QED BY <2>3, Base, Division
<1>3. d[n] < B
  <2> DEFINE P == Power(B, n - 1)  q == v \div P  r == v % P
  <2>1. n - 1 \in Nat /\ (n - 1) + 1 = n
    BY <1>1
  <2>2. P \in Nat \ {0} /\ Power(B, n) = B * P
    BY <2>1, BPowers
  <2> HIDE DEF P
  <2>3. q \in Nat /\ r \in 0 .. P - 1 /\ v = P * q + r
    BY <2>2, Division
  <2>4. d[n] = q
    BY <1>1 DEF P
  <2> HIDE DEF q, r
  <2>5. SUFFICES ASSUME q >= B PROVE FALSE
    BY <2>3, <2>4, Base
  <2>6. P * q >= P * B
    BY <2>2, <2>3, <2>5, Base
  <2>7. P * q \in Nat /\ P * B = B * P /\ B * P \in Nat
    BY <2>2, <2>3, Base
  <2> QED BY <1>1, <2>2, <2>3, <2>6, <2>7
<1>4. e[n] = d[n]
  <2>1. n \in 1 .. n /\ d[n] \in Nat /\ d[n] \in 0 .. B - 1 /\ e[n] = d[n] % B
    BY <1>1, <1>2, <1>3, Base
  <2> HIDE DEF d, e
  <2> QED BY <2>1, Base, OwnRemainder
<1> DEFINE G == Groups(v, n)
<1>5. G = [i \in 1 .. n |-> IF i < n THEN B + e[i] ELSE d[n]]
  BY <1>1 DEF Groups
<1> HIDE DEF d, e, G
<1>6. \A i \in 1 .. n : G[i] = IF i < n THEN B + e[i] ELSE d[n]
  BY <1>5
<1>7. \A i \in 1 .. n : G[i] \in 0 .. Byte - 1
  BY <1>1, <1>2, <1>3, <1>6, Base
<1>8. G \in Seq(0 .. Byte - 1) /\ Len(G) = n
  BY <1>1, <1>5, <1>7
<1>9. ASSUME NEW i \in 1 .. n PROVE G[i] % B = e[i]
  <2>1. CASE i < n
    <3>1. e[i] \in 0 .. B - 1 /\ G[i] = B * 1 + e[i] /\ 1 \in Nat
      BY <1>2, <1>6, <2>1, Base
    <3>2. (B * 1 + e[i]) % B = e[i]
      BY <3>1, Base, DivisionUnique
    <3> QED BY <3>1, <3>2
  <2>2. CASE ~(i < n)
    <3>1. i = n /\ G[n] = d[n] /\ e[n] = d[n] % B
      BY <1>1, <1>6, <2>2 DEF e
    <3> QED BY <3>1
  <2> QED BY <2>1, <2>2
<1>10. G[n] < B /\ \A i \in 1 .. n - 1 : G[i] >= B
  BY <1>1, <1>2, <1>3, <1>6, Base
<1> QED BY <1>1, <1>8, <1>9, <1>10 DEF G, d, e

\* The loop of EncodeVarint64 writes that many bytes, and these.
LEMMA EncodeVarint64IsGroups == ASSUME NEW v \in Nat PROVE EncodeVarint64(v) = Groups(v, Size(v))
<1> DEFINE g == [u \in Nat |-> Groups(u, Size(u))]
           Is(f) == f = [u \in Nat |-> IF u >= B THEN <<B + (u % B)>> \o f[u \div B] ELSE <<u>>]
           loop == CHOOSE f : Is(f)
<1>0. Power(B, 0) = 1
  BY Base, Powers
<1>1. ASSUME NEW u \in Nat
      PROVE  g[u] = IF u >= B THEN <<B + (u % B)>> \o g[u \div B] ELSE <<u>>
  <2>1. CASE u < B
    <3>1. Groups(u, 1) = [i \in 1 .. 1 |-> u \div 1]
      BY <1>0 DEF Groups
    <3>2. u \div 1 = u
      OBVIOUS
    <3>3. Groups(u, 1) = <<u>>
      BY <3>1, <3>2
    <3> QED BY <2>1, <3>3, NextSize, Base
  <2>2. CASE u >= B
    <3> DEFINE q == u \div B  n == Size(q)  G == Groups(q, n)  H == Groups(u, n + 1)
               L == <<B + (u % B)>> \o G
    <3>1. q \in Nat /\ n \in Nat \ {0} /\ Size(u) = n + 1
      BY <2>2, NextSize
    <3>2. HasLength(q, n) /\ HasLength(u, n + 1)
      BY <3>1, Sizes
    <3>3. G \in Seq(0 .. Byte - 1) /\ Len(G) = n
      BY <3>1, <3>2, GroupsAre
    <3>4. /\ H = [i \in 1 .. n + 1 |-> IF i < n + 1 THEN B + ((u \div Power(B, i - 1)) % B)
                                       ELSE u \div Power(B, n)]
          /\ G = [i \in 1 .. n |-> IF i < n THEN B + ((q \div Power(B, i - 1)) % B)
                                   ELSE q \div Power(B, n - 1)]
      BY <3>1 DEF Groups
    <3>5. ASSUME NEW i \in 1 .. n PROVE u \div Power(B, i) = q \div Power(B, i - 1)
      <4>1. i - 1 \in Nat /\ (i - 1) + 1 = i
        BY <3>1
      <4>2. Power(B, i) = B * Power(B, i - 1) /\ Power(B, i - 1) \in Nat \ {0}
        BY <4>1, BPowers
      <4>3. u \div (Power(B, i - 1) * B) = q \div Power(B, i - 1)
        BY <4>2, Base, NextDigit
      <4>4. Power(B, i - 1) * B = Power(B, i)
        BY <4>2, Base
      <4> QED BY <4>3, <4>4
    <3>6. H[1] = B + (u % B)
      <4>1. u \div 1 = u
        OBVIOUS
      <4>2. H[1] = B + ((u \div Power(B, 0)) % B)
        BY <3>1, <3>4
      <4> QED BY <1>0, <4>1, <4>2
    <3>7. ASSUME NEW i \in 1 .. n PROVE H[i + 1] = G[i]
      <4>1. i + 1 \in 1 .. n + 1 /\ (i + 1) - 1 = i /\ (i + 1 < n + 1 <=> i < n)
        BY <3>1
      <4>2. H[i + 1] = IF i < n THEN B + ((u \div Power(B, i)) % B) ELSE u \div Power(B, n)
        BY <3>4, <4>1
      <4>3. G[i] = IF i < n THEN B + ((q \div Power(B, i - 1)) % B) ELSE q \div Power(B, n - 1)
        BY <3>4
      <4>4. u \div Power(B, i) = q \div Power(B, i - 1)
        BY <3>5
      <4>5. ~(i < n) => i = n
        BY <3>1
      <4> QED BY <4>2, <4>3, <4>4, <4>5
    <3>8. /\ H \in Seq(0 .. Byte - 1) /\ Len(H) = n + 1
      BY <3>1, <3>2, GroupsAre
    <3>9. u % B \in Nat
      BY Base, Division
    <3> HIDE DEF G, H, q, n
    <3>10. /\ L \in Seq(Nat) /\ Len(L) = n + 1 /\ L[1] = B + (u % B)
           /\ \A i \in 1 .. n : L[i + 1] = G[i]
      <4>1. G \in Seq(Nat) /\ B + (u % B) \in Nat
        BY <3>3, <3>9, Base
      <4> DEFINE b == B + (u % B)
      <4> HIDE DEF b
      <4> QED BY <3>1, <3>3, <4>1 DEF b
    <3> HIDE DEF L
    <3>11. ASSUME NEW i \in 1 .. n + 1 PROVE H[i] = L[i]
      <4>1. CASE i = 1
        BY <3>6, <3>10, <4>1
      <4>2. CASE i # 1
        <5>1. i - 1 \in 1 .. n /\ (i - 1) + 1 = i
          BY <3>1, <4>2
        <5>2. H[(i - 1) + 1] = G[i - 1] /\ L[(i - 1) + 1] = G[i - 1]
          BY <3>7, <3>10, <5>1
        <5> QED BY <5>1, <5>2
      <4> QED BY <4>1, <4>2
    <3>12. H = L
      BY <3>1, <3>8, <3>10, <3>11
    <3> QED BY <2>2, <3>1, <3>12 DEF L, H, G, n, q
  <2> QED BY <2>1, <2>2, Base
<1>2. Is(g)
  <2>1. g = [u \in Nat |-> g[u]]
    OBVIOUS
  <2> HIDE DEF g
  <2> QED BY <1>1, <2>1
<1>3. Is(loop)
  BY <1>2, Zenon
<1>4. EncodeVarint64(v) = loop[v]
  BY DEF EncodeVarint64
<1> HIDE DEF loop
<1>5. \A u \in Nat : loop[u] = IF u >= B THEN <<B + (u % B)>> \o loop[u \div B] ELSE <<u>>
  BY <1>3
<1> HIDE DEF g
<1> DEFINE S == {u \in Nat : loop[u] # g[u]}
<1>6. S = {}
  <2> SUFFICES ASSUME S # {} PROVE FALSE
    OBVIOUS
  <2>1. PICK u \in S : \A w \in S : u <= w
    <3>1. S \in SUBSET Nat
      OBVIOUS
    <3> HIDE DEF S
    <3> QED BY <3>1, Least
  <2>2. CASE u >= B
    <3>1. u \div B \in Nat /\ u \div B < u
      BY <2>2, NextSize
    <3>2. u \div B \notin S
      BY <2>1, <3>1
    <3> QED BY <1>1, <1>5, <2>1, <2>2, <3>1, <3>2
  <2>3. CASE ~(u >= B)
    BY <1>1, <1>5, <2>1, <2>3
  <2> QED BY <2>2, <2>3
<1>7. loop[v] = g[v]
  BY <1>6
<1> QED BY <1>4, <1>7 DEF g

\* And so does the branch of EncodeVarint32 for that length.
LEMMA EncodeVarint32IsGroups ==
  ASSUME NEW v \in 0 .. Lim32 - 1
  PROVE  EncodeVarint32(v) = Groups(v, Size(v)) /\ Size(v) \in 1 .. N32
<1> DEFINE n == Size(v)
           Branch(k) == /\ k = N32 \/ v < Power(B, k)
                        /\ \A j \in 1 .. k - 1 : v >= Power(B, j)
<1>1. /\ N32 \in Nat \ {0} /\ Power(B, N32) \in Nat /\ Lim32 \in Nat /\ Lim32 <= Power(B, N32)
      /\ v \in Nat /\ v < Power(B, N32)
  <2>1. N32 \in Nat \ {0} /\ Lim32 <= Power(B, N32) /\ W32 \in Nat
    BY SizesAssumption
  <2>2. Lim32 \in Nat /\ Power(B, N32) \in Nat
    BY <2>1, Base, Powers DEF Lim32
  <2> QED BY <2>1, <2>2
<1>2. n \in Nat \ {0} /\ v < Power(B, n) /\ (n = 1 \/ Power(B, n - 1) <= v)
  BY <1>1, Sizes DEF HasLength
<1> HIDE DEF n
<1>3. n <= N32
  <2> SUFFICES ASSUME N32 < n PROVE FALSE
    BY <1>1, <1>2
  <2>1. n - 1 \in Nat /\ N32 \in 0 .. n - 1 /\ n # 1
    BY <1>1, <1>2
  <2>2. Power(B, N32) <= Power(B, n - 1) /\ Power(B, n - 1) \in Nat
    BY <2>1, BPowers
  <2> QED BY <1>1, <1>2, <2>1, <2>2
<1>4. Branch(n)
  <2>1. ASSUME NEW j \in 1 .. n - 1 PROVE v >= Power(B, j)
    <3>1. j \in Nat /\ n - 1 \in Nat /\ j \in 0 .. n - 1 /\ n # 1
      BY <1>2
    <3>2. Power(B, j) <= Power(B, n - 1) /\ Power(B, j) \in Nat /\ Power(B, n - 1) \in Nat
      BY <3>1, BPowers
    <3> QED BY <1>1, <1>2, <3>1, <3>2
  <2> QED BY <1>2, <2>1
<1>5. ASSUME NEW k \in 1 .. N32, Branch(k) PROVE k = n
  <2>0. k \in Nat \ {0}
    BY <1>1
  <2>1. ASSUME k < n PROVE FALSE
    <3>1. v < Power(B, k)
      BY <1>1, <1>2, <1>3, <1>5, <2>0, <2>1
    <3>2. v >= Power(B, k)
      <4>1. k \in 1 .. n - 1
        BY <1>2, <2>0, <2>1
      <4> QED BY <1>4, <4>1
    <3>3. Power(B, k) \in Nat
      BY <2>0, BPowers
    <3> QED BY <1>1, <3>1, <3>2, <3>3
  <2>2. ASSUME n < k PROVE FALSE
    <3>1. n \in 1 .. k - 1
      BY <1>2, <2>0, <2>2
    <3>2. v >= Power(B, n) /\ Power(B, n) \in Nat
      BY <1>2, <1>5, <3>1, BPowers
    <3> QED BY <1>1, <1>2, <3>2
  <2> QED BY <1>2, <2>0, <2>1, <2>2
<1> DEFINE c == CHOOSE k \in 1 .. N32 : Branch(k)
<1>6. EncodeVarint32(v) = Groups(v, c)
  BY DEF EncodeVarint32
<1>7. n \in 1 .. N32
  BY <1>1, <1>2, <1>3
<1> HIDE DEF Branch
<1>8. c \in 1 .. N32 /\ Branch(c)
  BY <1>4, <1>7
<1> HIDE DEF c
<1>9. c = n
  BY <1>5, <1>8
<1> QED BY <1>6, <1>7, <1>9 DEF n

-----------------------------------------------------------------------------
(* What a parse of a varint finds.                                         *)

\* The first byte of s whose top bit is clear is its k-th.
EndsAt(s, k) == k \in 1 .. Len(s) /\ s[k] < B /\ \A i \in 1 .. k - 1 : s[i] >= B

\* The low bits of the first k bytes.
Low(s, k) == [i \in 1 .. k |-> s[i] % B]

\* The loop of a parse stops at the first byte whose top bit is clear, if it may.
LEMMA Parses ==
  ASSUME NEW s \in Seq(0 .. Byte - 1), NEW n \in Nat, NEW limit \in Nat \ {0}
  PROVE  /\ \A k \in 1 .. n : EndsAt(s, k) =>
              GetVarintPtr(s, n, limit) = [val |-> Value(Low(s, k), B) % limit, used |-> k]
         /\ (\A k \in 1 .. n : ~EndsAt(s, k)) => GetVarintPtr(s, n, limit) = NULL
<1> DEFINE ends == {i \in 1 .. n : i <= Len(s) /\ s[i] < B}
           First(i) == i \in ends /\ \A j \in ends : i <= j
           c == CHOOSE i \in ends : \A j \in ends : i <= j
<1>1. Len(s) \in Nat /\ B \in Nat /\ \A i \in 1 .. Len(s) : s[i] \in Nat
  BY Base
<1>2. GetVarintPtr(s, n, limit) =
        IF ends = {} THEN NULL ELSE [val |-> Value(Low(s, c), B) % limit, used |-> c]
  BY DEF GetVarintPtr, Low
<1>3. \A i \in 1 .. n : EndsAt(s, i) <=> First(i)
  <2> SUFFICES ASSUME NEW i \in 1 .. n PROVE EndsAt(s, i) <=> First(i)
    OBVIOUS
  <2>1. ASSUME EndsAt(s, i) PROVE First(i)
    BY <1>1, <2>1 DEF EndsAt
  <2>2. ASSUME First(i) PROVE EndsAt(s, i)
    <3>1. i \in 1 .. Len(s) /\ s[i] < B
      BY <1>1, <2>2
    <3>2. ASSUME NEW j \in 1 .. i - 1 PROVE s[j] >= B
      <4>1. j \notin ends
        BY <2>2
      <4> QED BY <1>1, <3>1, <4>1
    <3> QED BY <3>1, <3>2 DEF EndsAt
  <2> QED BY <2>1, <2>2
<1>4. ASSUME NEW k \in 1 .. n, EndsAt(s, k)
      PROVE  GetVarintPtr(s, n, limit) = [val |-> Value(Low(s, k), B) % limit, used |-> k]
  <2>1. First(k)
    BY <1>3, <1>4
  <2>2. c \in ends /\ \A j \in ends : c <= j
    <3> HIDE DEF ends
    <3> QED BY <2>1
  <2>3. c = k
    BY <2>1, <2>2
  <2> HIDE DEF c
  <2> QED BY <1>2, <2>1, <2>3
<1>5. ASSUME \A k \in 1 .. n : ~EndsAt(s, k) PROVE GetVarintPtr(s, n, limit) = NULL
  <2>1. SUFFICES ASSUME ends # {} PROVE FALSE
    BY <1>2
  <2>2. PICK i \in ends : \A j \in ends : i <= j
    <3>1. ends \in SUBSET Nat
      OBVIOUS
    <3> HIDE DEF ends
    <3> QED BY <2>1, <3>1, Least
  <2> QED BY <1>3, <1>5, <2>2
<1> QED BY <1>4, <1>5

\* A varint at the front of s is parsed.
LEMMA VarintRead ==
  ASSUME NEW n \in Nat, NEW limit \in Nat \ {0}, NEW v \in 0 .. limit - 1, Size(v) <= n,
         NEW s \in Seq(0 .. Byte - 1), Size(v) <= Len(s),
         \A i \in 1 .. Size(v) : s[i] = Groups(v, Size(v))[i]
  PROVE  GetVarintPtr(s, n, limit) = [val |-> v, used |-> Size(v)]
<1> DEFINE k == Size(v)
<1>1. v \in Nat /\ HasLength(v, k) /\ k \in Nat \ {0} /\ v < Power(B, k)
  BY Sizes DEF HasLength
<1>2. /\ Groups(v, k)[k] < B /\ \A i \in 1 .. k - 1 : Groups(v, k)[i] >= B
      /\ \A i \in 1 .. k : Groups(v, k)[i] % B = (v \div Power(B, i - 1)) % B
  BY <1>1, GroupsAre
<1> HIDE DEF k
<1>3. k \in 1 .. n /\ k \in 1 .. Len(s) /\ \A i \in 1 .. k : s[i] = Groups(v, k)[i]
  BY <1>1 DEF k
<1>4. EndsAt(s, k)
  <2>1. \A i \in 1 .. k - 1 : i \in 1 .. k
    BY <1>1
  <2>2. \A i \in 1 .. k - 1 : s[i] >= B
    BY <1>2, <1>3, <2>1
  <2>3. s[k] < B
    BY <1>1, <1>2, <1>3
  <2> QED BY <1>3, <2>2, <2>3 DEF EndsAt
<1> DEFINE d == Low(s, k)
<1>5. /\ d \in Seq(Nat) /\ Len(d) = k
      /\ \A i \in 1 .. k : d[i] = (v \div Power(B, i - 1)) % B
  <2>1. \A i \in 1 .. k : s[i] % B \in Nat
    <3> SUFFICES ASSUME NEW i \in 1 .. k PROVE s[i] % B \in Nat
      OBVIOUS
    <3>1. i \in 1 .. Len(s)
      BY <1>3
    <3>2. s[i] \in Nat
      BY <3>1, Base
    <3>3. s[i] % B \in 0 .. B - 1
      BY <3>2, Base, Division
    <3> QED BY <3>3, Base
  <2>2. d = [i \in 1 .. k |-> s[i] % B]
    BY DEF Low
  <2> HIDE DEF d
  <2>3. d \in Seq(Nat) /\ Len(d) = k
    BY <1>1, <2>1, <2>2
  <2> QED BY <1>2, <1>3, <2>2, <2>3
<1> HIDE DEF d
<1>6. Value(d, B) = v % Power(B, k)
  BY <1>1, <1>5, Base, ValueOfDigits
<1>7. \A m \in Nat \ {0} : v < m => v % m = v
  <2> SUFFICES ASSUME NEW m \in Nat \ {0}, v < m PROVE v % m = v
    OBVIOUS
  <2>1. v \in 0 .. m - 1
    BY <1>1
  <2> QED BY <2>1, OwnRemainder
<1>8. Value(d, B) % limit = v
  <2>1. Power(B, k) \in Nat \ {0}
    BY <1>1, BPowers
  <2>2. Value(d, B) = v
    BY <1>1, <1>6, <1>7, <2>1
  <2>3. v < limit
    OBVIOUS
  <2> QED BY <1>7, <2>2, <2>3
<1>9. GetVarintPtr(s, n, limit) = [val |-> Value(d, B) % limit, used |-> k]
  BY <1>3, <1>4, Parses DEF d
<1> QED BY <1>8, <1>9 DEF k

\* A varint that is cut is not.
LEMMA VarintCut ==
  ASSUME NEW n \in Nat, NEW limit \in Nat \ {0}, NEW v \in Nat,
         NEW s \in Seq(0 .. Byte - 1), Len(s) < Size(v),
         \A i \in 1 .. Len(s) : s[i] = Groups(v, Size(v))[i]
  PROVE  GetVarintPtr(s, n, limit) = NULL
<1>1. HasLength(v, Size(v)) /\ Size(v) \in Nat \ {0} /\ Len(s) \in Nat
  BY Sizes DEF HasLength
<1>2. \A i \in 1 .. Size(v) - 1 : Groups(v, Size(v))[i] >= B
  BY <1>1, GroupsAre
<1>3. \A i \in 1 .. Len(s) : s[i] >= B /\ s[i] \in Nat
  <2> SUFFICES ASSUME NEW i \in 1 .. Len(s) PROVE s[i] >= B /\ s[i] \in Nat
    OBVIOUS
  <2>1. s[i] \in Nat /\ s[i] = Groups(v, Size(v))[i]
    BY Base
  <2>2. i \in 1 .. Size(v) - 1
    BY <1>1
  <2> QED BY <1>2, <2>1, <2>2
<1>4. \A k \in 1 .. n : ~EndsAt(s, k)
  BY <1>3, Base DEF EndsAt
<1> QED BY <1>4, Parses

\* Whatever is parsed, it is of the type, was there, and no shorter than what it
\* takes to write the number.
LEMMA VarintFits ==
  ASSUME NEW n \in Nat, NEW limit \in Nat \ {0}, NEW s \in Seq(0 .. Byte - 1),
         GetVarintPtr(s, n, limit) # NULL
  PROVE  LET p == GetVarintPtr(s, n, limit)
         IN  /\ p.val \in 0 .. limit - 1 /\ p.used \in 1 .. Len(s) /\ p.used \in Nat
             /\ Size(p.val) <= p.used
<1>1. PICK k \in 1 .. n : EndsAt(s, k)
  BY Parses
<1>2. GetVarintPtr(s, n, limit) = [val |-> Value(Low(s, k), B) % limit, used |-> k]
  BY <1>1, Parses
<1>3. k \in Nat \ {0} /\ k \in 1 .. Len(s)
  BY <1>1 DEF EndsAt
<1> DEFINE d == Low(s, k)
<1>4. d \in Seq(0 .. B - 1) /\ Len(d) = k
  <2>1. \A i \in 1 .. k : s[i] % B \in 0 .. B - 1
    <3>1. \A i \in 1 .. k : s[i] \in Nat
      BY <1>3, Base
    <3> QED BY <3>1, Base, Division
  <2>2. d = [i \in 1 .. k |-> s[i] % B]
    BY DEF Low
  <2> HIDE DEF d
  <2> QED BY <1>3, <2>1, <2>2
<1> HIDE DEF d
<1> DEFINE w == Value(d, B)  v == w % limit
<1>5. w \in 0 .. Power(B, k) - 1 /\ Power(B, k) \in Nat
  <2>1. Power(B, k) \in Nat
    BY <1>3, BPowers
  <2> QED BY <1>4, <2>1, Base, DigitsOfValue
<1> HIDE DEF w
<1>6. v \in 0 .. limit - 1 /\ v <= w
  <2> DEFINE q == w \div limit
  <2>1. w \in Nat
    BY <1>5
  <2>2. q \in Nat /\ v \in 0 .. limit - 1 /\ w = limit * q + v
    BY <2>1, Division
  <2> HIDE DEF q, v
  <2>3. limit * q \in Nat
    BY <2>2
  <2> QED BY <2>2, <2>3
<1> HIDE DEF v
<1>7. v \in Nat /\ v < Power(B, k)
  BY <1>5, <1>6
<1>8. Size(v) <= k
  <2> DEFINE m == Size(v)
  <2>1. m \in Nat \ {0} /\ (m = 1 \/ Power(B, m - 1) <= v)
    BY <1>7, Sizes DEF HasLength
  <2> HIDE DEF m
  <2>2. SUFFICES ASSUME k < m PROVE FALSE
    BY <1>3, <2>1 DEF m
  <2>3. m - 1 \in Nat /\ k \in 0 .. m - 1 /\ m # 1
    BY <1>3, <2>1, <2>2
  <2>4. Power(B, k) <= Power(B, m - 1) /\ Power(B, m - 1) \in Nat
    BY <2>3, BPowers
  <2> QED BY <1>5, <1>7, <2>1, <2>3, <2>4
<1> QED BY <1>2, <1>3, <1>6, <1>8 DEF d, w, v

-----------------------------------------------------------------------------
(* What the routines write of an item, and what they parse of it.          *)

\* Strings.
Bytes == Seq(0 .. Byte - 1)

\* The w bytes of v, the lowest first.
Fixed(v, w) == [i \in 1 .. w |-> (v \div Power(Byte, i - 1)) % Byte]

\* The widths, and how many values they have.
LEMMA Limits ==
  /\ Lim32 \in Nat \ {0} /\ Lim64 \in Nat \ {0} /\ Lim32 <= Lim64
  /\ Lim32 = Power(Byte, W32) /\ Lim64 = Power(Byte, W64)
  /\ W32 \in Nat \ {0} /\ W64 \in Nat \ {0} /\ N32 \in Nat \ {0} /\ N64 \in Nat \ {0}
  /\ Lim32 <= Power(B, N32) /\ Lim64 <= Power(B, N64)
<1>1. /\ W32 \in Nat \ {0} /\ W64 \in Nat \ {0} /\ N32 \in Nat \ {0} /\ N64 \in Nat \ {0}
      /\ W32 <= W64 /\ Lim32 <= Power(B, N32) /\ Lim64 <= Power(B, N64)
  BY SizesAssumption
<1>2. Byte \in Nat \ {0, 1} /\ W32 \in 0 .. W64
  BY <1>1, Base
<1>3. /\ Power(Byte, W32) \in Nat \ {0} /\ Power(Byte, W64) \in Nat \ {0}
      /\ Power(Byte, W32) <= Power(Byte, W64)
  BY <1>1, <1>2, PowersGrow
<1> QED BY <1>1, <1>3 DEF Lim32, Lim64

\* Either machine writes the bytes of v, which have its value.
LEMMA FixedIs ==
  ASSUME NEW v \in Nat, NEW w \in Nat
  PROVE  /\ Fixed(v, w) \in Bytes /\ Len(Fixed(v, w)) = w
         /\ EncodeFixed(v, w) = Fixed(v, w)
         /\ v < Power(Byte, w) => Value(Fixed(v, w), Byte) = v
<1>1. \A i \in 1 .. w : (v \div Power(Byte, i - 1)) % Byte \in 0 .. Byte - 1
  <2> SUFFICES ASSUME NEW i \in 1 .. w
               PROVE  (v \div Power(Byte, i - 1)) % Byte \in 0 .. Byte - 1
    OBVIOUS
  <2>1. i - 1 \in Nat /\ Byte \in Nat \ {0, 1} /\ Byte \in Nat \ {0}
    BY Base
  <2>2. Power(Byte, i - 1) \in Nat \ {0}
    BY <2>1, PowersGrow
  <2>3. v \div Power(Byte, i - 1) \in Nat
    BY <2>2, Division
  <2> QED BY <2>1, <2>3, Division
<1> DEFINE s == Fixed(v, w)
<1>2. s = [i \in 1 .. w |-> (v \div Power(Byte, i - 1)) % Byte]
  BY DEF Fixed
<1>3. EncodeFixed(v, w) = s
  BY DEF EncodeFixed, InMemory, Fixed
<1> HIDE DEF s
<1>4. s \in Bytes /\ Len(s) = w
  BY <1>1, <1>2 DEF Bytes
<1>5. ASSUME v < Power(Byte, w) PROVE Value(s, Byte) = v
  <2>1. s \in Seq(Nat) /\ \A i \in 1 .. Len(s) : s[i] = (v \div Power(Byte, i - 1)) % Byte
    BY <1>2, <1>4, Base DEF Bytes
  <2>2. Byte \in Nat \ {0, 1}
    BY Base
  <2>3. Value(s, Byte) = v % Power(Byte, w)
    BY <1>4, <2>1, <2>2, ValueOfDigits
  <2> DEFINE P == Power(Byte, w)
  <2>4. v \in 0 .. P - 1 /\ P \in Nat \ {0}
    BY <1>5, <2>2, PowersGrow
  <2> HIDE DEF P
  <2>5. v % P = v
    BY <2>4, OwnRemainder
  <2> QED BY <2>3, <2>5 DEF P
<1> QED BY <1>3, <1>4, <1>5 DEF s

\* Either machine decodes the value of the bytes.
LEMMA DecodeFixedIs ==
  ASSUME NEW s \in Bytes
  PROVE  /\ DecodeFixed(s, Len(s)) = Value(s, Byte)
         /\ Value(s, Byte) \in 0 .. Power(Byte, Len(s)) - 1
<1> DEFINE w == Len(s)  x == Value(s, Byte)
<1>1. w \in Nat /\ Byte \in Nat \ {0, 1}
  BY Base DEF Bytes
<1>2. x \in 0 .. Power(Byte, w) - 1 /\ \A i \in 1 .. w : (x \div Power(Byte, i - 1)) % Byte = s[i]
  BY <1>1, DigitsOfValue DEF Bytes
<1>3. s = [i \in 1 .. w |-> s[i]]
  BY DEF Bytes
<1> HIDE DEF w, x
<1>4. x \in Nat /\ Fixed(x, w) = s
  <2>1. Power(Byte, w) \in Nat
    BY <1>1, PowersGrow
  <2> QED BY <1>2, <1>3, <2>1 DEF Fixed
<1>5. CASE reader = "little"
  <2> DEFINE Is(v) == InMemory(v, w, reader) = s
             c == CHOOSE v \in 0 .. Power(Byte, w) - 1 : Is(v)
  <2>1. \A v : InMemory(v, w, reader) = Fixed(v, w)
    BY <1>5 DEF InMemory, Fixed
  <2>2. DecodeFixed(s, w) = c
    BY <1>5 DEF DecodeFixed
  <2>3. Is(x)
    BY <1>4, <2>1
  <2> HIDE DEF Is
  <2>4. c \in 0 .. Power(Byte, w) - 1 /\ Is(c)
    BY <1>2, <2>3
  <2> USE DEF Is
  <2> HIDE DEF c
  <2>5. c \in Nat /\ c < Power(Byte, w) /\ Fixed(c, w) = s
    <3>1. Power(Byte, w) \in Nat
      BY <1>1, PowersGrow
    <3>2. Fixed(c, w) = s
      BY <2>1, <2>4
    <3> QED BY <2>4, <3>1, <3>2
  <2>6. x = c
    BY <1>1, <2>5, FixedIs DEF x
  <2> QED BY <1>2, <2>2, <2>6 DEF w, x
<1>6. CASE reader # "little"
  BY <1>2, <1>6 DEF DecodeFixed, w, x
<1> QED BY <1>5, <1>6

-----------------------------------------------------------------------------
\* Items, and those whose length a uint32_t can hold.
Items ==
  [kind : {"fixed32", "varint32"}, val : 0 .. Lim32 - 1]
    \cup [kind : {"fixed64", "varint64"}, val : 0 .. Lim64 - 1]
    \cup [kind : {"slice"}, val : Bytes]

Short(item) == item.kind = "slice" => Len(item.val) < Lim32

\* The varint of v, and an item as it is written.
Varint(v) == Groups(v, Size(v))

Written(item) ==
  CASE item.kind = "fixed32"  -> Fixed(item.val, W32)
    [] item.kind = "fixed64"  -> Fixed(item.val, W64)
    [] item.kind = "varint32" -> Varint(item.val)
    [] item.kind = "varint64" -> Varint(item.val)
    [] item.kind = "slice"    -> Varint(Len(item.val) % Lim32) \o item.val

\* What items there are.
LEMMA Kinds ==
  ASSUME NEW item \in Items
  PROVE  /\ item.kind \in {"fixed32", "fixed64", "varint32", "varint64", "slice"}
         /\ item = Item(item.kind, item.val)
         /\ item.kind \in {"fixed32", "varint32"} => item.val \in 0 .. Lim32 - 1
         /\ item.kind \in {"fixed64", "varint64"} => item.val \in 0 .. Lim64 - 1
         /\ item.kind = "slice" => item.val \in Bytes
<1> QED BY DEF Items, Item

\* And what makes one.
LEMMA MadeItem ==
  ASSUME NEW kind, NEW val,
         \/ kind \in {"fixed32", "varint32"} /\ val \in 0 .. Lim32 - 1
         \/ kind \in {"fixed64", "varint64"} /\ val \in 0 .. Lim64 - 1
         \/ kind = "slice" /\ val \in Bytes
  PROVE  Item(kind, val) \in Items /\ Item(kind, val).kind = kind /\ Item(kind, val).val = val
<1> QED BY DEF Items, Item

\* A varint has as many bytes as the size of its number.
LEMMA VarintIs ==
  ASSUME NEW v \in Nat
  PROVE  Varint(v) \in Bytes /\ Len(Varint(v)) = Size(v) /\ Size(v) \in Nat \ {0}
<1>1. HasLength(v, Size(v)) /\ Size(v) \in Nat \ {0}
  BY Sizes DEF HasLength
<1> QED BY <1>1, GroupsAre DEF Varint, Bytes

\* The routines write Written, and never nothing.
LEMMA WrittenIs ==
  ASSUME NEW item \in Items
  PROVE  /\ Encoding(item) = Written(item) /\ Written(item) \in Bytes
         /\ Len(Written(item)) \in Nat \ {0}
<1>1. Lim32 \in Nat \ {0} /\ Lim64 \in Nat \ {0} /\ W32 \in Nat \ {0} /\ W64 \in Nat \ {0}
      /\ Lim32 <= Lim64
  BY Limits
<1>2. CASE item.kind \in {"fixed32", "fixed64"}
  <2>1. item.val \in Nat
    BY <1>1, <1>2, Kinds
  <2> QED BY <1>1, <1>2, <2>1, FixedIs DEF Encoding, Written
<1>3. CASE item.kind \in {"varint32", "varint64"}
  <2>1. item.val \in Nat /\ (item.kind = "varint32" => item.val \in 0 .. Lim32 - 1)
    BY <1>1, <1>3, Kinds
  <2>2. /\ item.kind = "varint32" => EncodeVarint32(item.val) = Varint(item.val)
        /\ EncodeVarint64(item.val) = Varint(item.val)
    BY <2>1, EncodeVarint32IsGroups, EncodeVarint64IsGroups DEF Varint
  <2> QED BY <1>3, <2>1, <2>2, VarintIs DEF Encoding, Written
<1>4. CASE item.kind = "slice"
  <2> DEFINE n == Len(item.val) % Lim32
  <2>1. item.val \in Bytes /\ Len(item.val) \in Nat
    BY <1>4, Kinds DEF Bytes
  <2>2. n \in 0 .. Lim32 - 1
    BY <1>1, <2>1, Division
  <2>3. Encoding(item) = EncodeVarint32(n) \o item.val /\ Written(item) = Varint(n) \o item.val
    BY <1>4 DEF Encoding, EncodeLengthPrefixedSlice, Written
  <2> HIDE DEF n
  <2>7. n \in Nat
    BY <1>1, <2>2
  <2>4. EncodeVarint32(n) = Varint(n)
    BY <2>2, EncodeVarint32IsGroups DEF Varint
  <2>5. Varint(n) \in Bytes /\ Len(Varint(n)) \in Nat \ {0}
    BY <2>7, VarintIs
  <2>6. Varint(n) \o item.val \in Bytes /\ Len(Varint(n) \o item.val) \in Nat \ {0}
    <3>1. /\ Varint(n) \o item.val \in Bytes
          /\ Len(Varint(n) \o item.val) = Len(Varint(n)) + Len(item.val)
      BY <2>1, <2>5, ConcatProperties DEF Bytes
    <3> QED BY <2>1, <2>5, <3>1
  <2> QED BY <2>3, <2>4, <2>6
<1> QED BY <1>2, <1>3, <1>4, Kinds

\* What is left of a string.
LEMMA Removed ==
  ASSUME NEW s \in Bytes, NEW n \in 0 .. Len(s)
  PROVE  /\ remove_prefix(s, n) \in Bytes /\ Len(remove_prefix(s, n)) = Len(s) - n
         /\ \A i \in 1 .. Len(s) - n : remove_prefix(s, n)[i] = s[n + i]
         /\ SubSeq(s, 1, n) \in Bytes /\ Len(SubSeq(s, 1, n)) = n
         /\ \A i \in 1 .. n : SubSeq(s, 1, n)[i] = s[i]
<1> DEFINE S == 0 .. Byte - 1  l == Len(s)
<1>0. s \in Seq(S)
  BY DEF Bytes
<1>1. l \in Nat /\ n \in Nat /\ n <= l /\ \A i \in 1 .. l : s[i] \in S
  <2> HIDE DEF S
  <2>1. l \in Nat /\ \A i \in 1 .. l : s[i] \in S
    BY <1>0
  <2> QED BY <2>1
<1> HIDE DEF S, l
<1>2. n + 1 \in Int /\ l \in Int /\ n \in Int /\ 1 \in Int
      /\ (\A i \in n + 1 .. l : s[i] \in S) /\ (\A i \in 1 .. n : s[i] \in S)
  BY <1>1
<1>3. /\ SubSeq(s, n + 1, l) \in Seq(S)
      /\ Len(SubSeq(s, n + 1, l)) = IF n + 1 <= l THEN l - (n + 1) + 1 ELSE 0
      /\ \A i \in 1 .. l - (n + 1) + 1 : SubSeq(s, n + 1, l)[i] = s[(n + 1) + i - 1]
  BY <1>2, SubSeqProperties
<1>4. /\ SubSeq(s, 1, n) \in Seq(S)
      /\ Len(SubSeq(s, 1, n)) = IF 1 <= n THEN n - 1 + 1 ELSE 0
      /\ \A i \in 1 .. n - 1 + 1 : SubSeq(s, 1, n)[i] = s[1 + i - 1]
  BY <1>2, SubSeqProperties
<1>5. l - (n + 1) + 1 = l - n /\ n - 1 + 1 = n
      /\ \A i \in Int : (n + 1) + i - 1 = n + i /\ 1 + i - 1 = i
  BY <1>1
<1>6. /\ SubSeq(s, n + 1, l) \in Seq(S) /\ Len(SubSeq(s, n + 1, l)) = l - n
      /\ \A i \in 1 .. l - n : SubSeq(s, n + 1, l)[i] = s[n + i]
  BY <1>1, <1>3, <1>5
<1>7. /\ SubSeq(s, 1, n) \in Seq(S) /\ Len(SubSeq(s, 1, n)) = n
      /\ \A i \in 1 .. n : SubSeq(s, 1, n)[i] = s[i]
  <2>1. \A i \in 1 .. n : SubSeq(s, 1, n)[i] = s[i]
    <3> SUFFICES ASSUME NEW i \in 1 .. n PROVE SubSeq(s, 1, n)[i] = s[i]
      OBVIOUS
    <3>1. i \in 1 .. n - 1 + 1 /\ 1 + i - 1 = i
      BY <1>1
    <3>2. SubSeq(s, 1, n)[i] = s[1 + i - 1]
      BY <1>4, <3>1
    <3> QED BY <3>1, <3>2
  <2>2. (IF 1 <= n THEN n - 1 + 1 ELSE 0) = n
    BY <1>1
  <2> QED BY <1>4, <2>1, <2>2
<1> QED BY <1>6, <1>7 DEF remove_prefix, Bytes, S, l

\* Two prefixes are one.
LEMMA RemovedTwice ==
  ASSUME NEW s \in Bytes, NEW n \in 0 .. Len(s), NEW m \in 0 .. Len(s) - n
  PROVE  remove_prefix(remove_prefix(s, n), m) = remove_prefix(s, n + m)
<1> DEFINE t == remove_prefix(s, n)  u == remove_prefix(t, m)  x == remove_prefix(s, n + m)
<1>1. Len(s) \in Nat /\ n + m \in 0 .. Len(s)
  BY DEF Bytes
<1>2. t \in Bytes /\ Len(t) = Len(s) - n /\ \A i \in 1 .. Len(s) - n : t[i] = s[n + i]
  BY Removed
<1>3. /\ x \in Bytes /\ Len(x) = Len(s) - (n + m)
      /\ \A i \in 1 .. Len(s) - (n + m) : x[i] = s[(n + m) + i]
  BY <1>1, Removed
<1> HIDE DEF t, x
<1>4. u \in Bytes /\ Len(u) = Len(t) - m /\ \A i \in 1 .. Len(t) - m : u[i] = t[m + i]
  <2>1. m \in 0 .. Len(t)
    BY <1>2
  <2> QED BY <1>2, <2>1, Removed
<1> HIDE DEF u
<1>5. \A i \in 1 .. Len(u) : u[i] = x[i]
  BY <1>1, <1>2, <1>3, <1>4
<1>6. Len(u) = Len(x)
  BY <1>1, <1>2, <1>3, <1>4
<1>7. u = x
  BY <1>3, <1>4, <1>5, <1>6, SeqEqual DEF Bytes
<1> QED BY <1>7 DEF u, t, x

\* No prefix is none.
LEMMA RemovedNone ==
  ASSUME NEW s \in Bytes
  PROVE  remove_prefix(s, 0) = s /\ Len(s) \in Nat /\ 0 \in 0 .. Len(s)
<1>1. Len(s) \in Nat /\ 0 \in 0 .. Len(s)
  BY DEF Bytes
<1>2. /\ remove_prefix(s, 0) \in Bytes /\ Len(remove_prefix(s, 0)) = Len(s) - 0
      /\ \A i \in 1 .. Len(s) - 0 : remove_prefix(s, 0)[i] = s[0 + i]
  BY <1>1, Removed
<1>3. \A i \in 1 .. Len(s) : remove_prefix(s, 0)[i] = s[i]
  BY <1>1, <1>2
<1>4. Len(remove_prefix(s, 0)) = Len(s)
  BY <1>1, <1>2
<1> QED BY <1>1, <1>2, <1>3, <1>4, SeqEqual DEF Bytes

-----------------------------------------------------------------------------
\* A parse succeeds with an item, and takes n bytes; or it fails.
Takes(item, n) ==
  /\ item \in Items /\ Short(item)
  /\ n \in 0 .. Len(input) /\ Len(Written(item)) <= n
  /\ got' = Append(got, item) /\ input' = remove_prefix(input, n) /\ phase' = "read"

\* The length of a string has been taken when its bytes are found missing.
GivesUp(n) ==
  /\ n \in 0 .. Len(input) /\ input' = remove_prefix(input, n)
  /\ phase' = "failed" /\ got' = got

\* The Get routines.
Get ==
  \/ GetVarint32 \/ GetVarint64 \/ GetLengthPrefixedSlice \/ GetLengthPrefixedSlicePtr
  \/ GetFixed("fixed32", W32) \/ GetFixed("fixed64", W64)

\* As much of the input as there is looks like the item.
Matches(item) == \A i \in 1 .. Len(Written(item)) : i <= Len(input) => input[i] = Written(item)[i]

\* What a parse comes to; and when the item that is expected is at the front.
Outcome(kind) ==
  /\ Expects(kind)
  /\ \/ \E item, n : item.kind = kind /\ Takes(item, n)
     \/ \E n : GivesUp(n)

Exact(kind) ==
  \A item \in Items : item.kind = kind /\ Short(item) /\ Matches(item) =>
    IF Len(Written(item)) <= Len(input) THEN Takes(item, Len(Written(item)))
                                        ELSE \E n : GivesUp(n)

\* The fixed-width numbers, on either machine.
LEMMA GetFixedIs ==
  ASSUME input \in Bytes, NEW kind \in {"fixed32", "fixed64"},
         GetFixed(kind, IF kind = "fixed32" THEN W32 ELSE W64)
  PROVE  Outcome(kind) /\ Exact(kind)
<1> DEFINE w == IF kind = "fixed32" THEN W32 ELSE W64
           limit == IF kind = "fixed32" THEN Lim32 ELSE Lim64
<1>1. /\ w \in Nat \ {0} /\ limit = Power(Byte, w)
      /\ \A v \in 0 .. limit - 1 : Item(kind, v) \in Items /\ Short(Item(kind, v)) /\ v \in Nat
  BY Limits, MadeItem DEF Short
<1>2. /\ Expects(kind) /\ phase = "read"
      /\ IF Len(input) >= w
         THEN Yields(kind, DecodeFixed(SubSeq(input, 1, w), w), remove_prefix(input, w))
         ELSE Fails(input)
  BY DEF GetFixed, Expects
<1>3. \A v : Written(Item(kind, v)) = Fixed(v, w)
  BY DEF Written, Item
<1> HIDE DEF w, limit
<1>4. \A v \in 0 .. limit - 1 : Len(Written(Item(kind, v))) = w
  BY <1>1, <1>3, FixedIs
<1>5. \A item \in Items : item.kind = kind =>
        item.val \in 0 .. limit - 1 /\ item = Item(kind, item.val)
  BY Kinds DEF limit
<1>6. CASE Len(input) >= w
  <2> DEFINE s == SubSeq(input, 1, w)  v == DecodeFixed(s, w)
  <2>1. /\ w \in 0 .. Len(input) /\ Len(input) \in Nat /\ s \in Bytes /\ Len(s) = w
        /\ \A i \in 1 .. w : s[i] = input[i]
    <3>1. w \in 0 .. Len(input) /\ Len(input) \in Nat
      BY <1>1, <1>6 DEF Bytes
    <3> QED BY <3>1, Removed
  <2>2. got' = Append(got, Item(kind, v)) /\ input' = remove_prefix(input, w) /\ phase' = "read"
    BY <1>2, <1>6 DEF Yields
  <2> HIDE DEF s
  <2>3. v = Value(s, Byte) /\ v \in 0 .. limit - 1
    BY <1>1, <2>1, DecodeFixedIs
  <2> HIDE DEF v
  <2>4. Takes(Item(kind, v), w)
    BY <1>1, <1>4, <2>1, <2>2, <2>3 DEF Takes
  <2>5. Item(kind, v).kind = kind
    BY DEF Item
  <2>6. Outcome(kind)
    BY <1>2, <2>4, <2>5 DEF Outcome
  <2>7. ASSUME NEW item \in Items, item.kind = kind, Matches(item)
        PROVE  Len(Written(item)) = w /\ Takes(item, w)
    <3>1. item.val \in 0 .. limit - 1 /\ item = Item(kind, item.val) /\ Len(Written(item)) = w
      BY <1>4, <1>5, <2>7
    <3>2. Written(item) = Fixed(item.val, w) /\ item.val \in Nat /\ item.val < Power(Byte, w)
      BY <1>1, <1>3, <3>1, Limits DEF limit
    <3>3. /\ Fixed(item.val, w) \in Bytes /\ Len(Fixed(item.val, w)) = w
          /\ Value(Fixed(item.val, w), Byte) = item.val
      BY <1>1, <3>2, FixedIs
    <3>4. \A i \in 1 .. w : s[i] = Fixed(item.val, w)[i]
      BY <2>1, <2>7, <3>1, <3>2 DEF Matches
    <3>5. s = Fixed(item.val, w)
      BY <2>1, <3>3, <3>4, SeqEqual DEF Bytes
    <3> QED BY <2>3, <2>4, <3>1, <3>3, <3>5
  <2> QED BY <1>1, <1>6, <2>1, <2>6, <2>7 DEF Exact
<1>7. CASE ~(Len(input) >= w)
  <2>1. phase' = "failed" /\ input' = input /\ got' = got
    BY <1>2, <1>7 DEF Fails
  <2>2. GivesUp(0)
    BY <2>1, RemovedNone DEF GivesUp
  <2>3. \A item \in Items : item.kind = kind => ~(Len(Written(item)) <= Len(input))
    BY <1>1, <1>4, <1>5, <1>7, RemovedNone
  <2> QED BY <1>2, <2>2, <2>3 DEF Outcome, Exact
<1> QED BY <1>6, <1>7

\* The two varints.
LEMMA GetVarintIs ==
  ASSUME input \in Bytes, NEW kind \in {"varint32", "varint64"},
         GetVarint(kind, IF kind = "varint32" THEN GetVarint32Ptr(input) ELSE GetVarint64Ptr(input))
  PROVE  Outcome(kind) /\ Exact(kind)
<1> DEFINE n == IF kind = "varint32" THEN N32 ELSE N64
           limit == IF kind = "varint32" THEN Lim32 ELSE Lim64
           p == GetVarintPtr(input, n, limit)
<1>1. /\ n \in Nat \ {0} /\ limit \in Nat \ {0} /\ limit <= Power(B, n) /\ n \in Nat
      /\ \A v \in 0 .. limit - 1 : Item(kind, v) \in Items /\ Short(Item(kind, v)) /\ v \in Nat
  BY Limits, MadeItem DEF Short
<1>2. /\ Expects(kind) /\ phase = "read"
      /\ IF p # NULL THEN Yields(kind, p.val, remove_prefix(input, p.used)) ELSE Fails(input)
  BY DEF GetVarint, Expects, GetVarint32Ptr, GetVarint64Ptr
<1>3. \A v : Written(Item(kind, v)) = Varint(v) /\ Item(kind, v).kind = kind
  BY DEF Written, Item
<1>4. \A item \in Items : item.kind = kind =>
        item.val \in 0 .. limit - 1 /\ item = Item(kind, item.val)
  BY Kinds DEF limit
<1> HIDE DEF n, limit
<1>5. \A v \in 0 .. limit - 1 :
        Len(Written(Item(kind, v))) = Size(v) /\ Size(v) \in Nat \ {0} /\ Size(v) <= n
  <2> SUFFICES ASSUME NEW v \in 0 .. limit - 1
               PROVE  Len(Varint(v)) = Size(v) /\ Size(v) \in Nat \ {0} /\ Size(v) <= n
    BY <1>3
  <2>1. v \in Nat /\ v < Power(B, n) /\ Power(B, n) \in Nat
    <3>1. Power(B, n) \in Nat
      BY <1>1, BPowers
    <3> QED BY <1>1, <3>1
  <2> DEFINE m == Size(v)
  <2>2. Len(Varint(v)) = m /\ m \in Nat \ {0} /\ (m = 1 \/ Power(B, m - 1) <= v)
    BY <2>1, VarintIs, Sizes DEF HasLength
  <2> HIDE DEF m
  <2>3. SUFFICES ASSUME n < m PROVE FALSE
    BY <1>1, <2>2 DEF m
  <2>4. m - 1 \in Nat /\ n \in 0 .. m - 1 /\ m # 1
    BY <1>1, <2>2, <2>3
  <2>5. Power(B, n) <= Power(B, m - 1) /\ Power(B, m - 1) \in Nat
    BY <2>4, BPowers
  <2> QED BY <2>1, <2>2, <2>4, <2>5
<1>6. input \in Seq(0 .. Byte - 1) /\ Len(input) \in Nat
  BY DEF Bytes
<1>7. ASSUME NEW item \in Items, item.kind = kind, Matches(item)
      PROVE  /\ item.val \in 0 .. limit - 1 /\ item = Item(kind, item.val)
             /\ Len(Written(item)) = Size(item.val) /\ Size(item.val) \in Nat \ {0}
             /\ Size(item.val) <= Len(input) => p = [val |-> item.val, used |-> Size(item.val)]
             /\ ~(Size(item.val) <= Len(input)) => p = NULL
  <2> DEFINE v == item.val  k == Size(v)
  <2>1. v \in 0 .. limit - 1 /\ item = Item(kind, v) /\ v \in Nat
    BY <1>1, <1>4, <1>7
  <2>2. Len(Written(item)) = k /\ k \in Nat \ {0} /\ k <= n /\ Written(item) = Groups(v, k)
    BY <1>3, <1>5, <2>1 DEF Varint
  <2>3. \A i \in 1 .. k : i <= Len(input) => input[i] = Groups(v, k)[i]
    BY <1>7, <2>2 DEF Matches
  <2>4. ASSUME k <= Len(input) PROVE p = [val |-> v, used |-> k]
    <3>1. \A i \in 1 .. k : input[i] = Groups(v, k)[i]
      BY <1>6, <2>2, <2>3, <2>4
    <3> HIDE DEF v
    <3> QED BY <1>1, <1>6, <2>1, <2>2, <2>4, <3>1, VarintRead
  <2>5. ASSUME ~(k <= Len(input)) PROVE p = NULL
    <3>1. Len(input) < k /\ \A i \in 1 .. Len(input) : input[i] = Groups(v, k)[i]
      BY <1>6, <2>2, <2>3, <2>5
    <3> HIDE DEF v
    <3> QED BY <1>1, <1>6, <2>1, <3>1, VarintCut
  <2> QED BY <2>1, <2>2, <2>4, <2>5
<1>8. CASE p # NULL
  <2>1. /\ p.val \in 0 .. limit - 1 /\ p.used \in 1 .. Len(input) /\ p.used \in Nat
        /\ Size(p.val) <= p.used
    BY <1>1, <1>6, <1>8, VarintFits
  <2>2. /\ got' = Append(got, Item(kind, p.val)) /\ input' = remove_prefix(input, p.used)
        /\ phase' = "read"
    BY <1>2, <1>8 DEF Yields
  <2> HIDE DEF p
  <2>3. Takes(Item(kind, p.val), p.used)
    BY <1>1, <1>5, <2>1, <2>2 DEF Takes
  <2>4. Outcome(kind)
    BY <1>2, <1>3, <2>3 DEF Outcome
  <2>5. ASSUME NEW item \in Items, item.kind = kind, Matches(item)
        PROVE  Len(Written(item)) <= Len(input) /\ Takes(item, Len(Written(item)))
    <3>1. p.val = item.val /\ p.used = Size(item.val) /\ Len(Written(item)) = Size(item.val)
          /\ item = Item(kind, item.val) /\ Size(item.val) <= Len(input)
      BY <1>7, <1>8, <2>5 DEF p
    <3> QED BY <2>3, <3>1
  <2> QED BY <2>4, <2>5 DEF Exact
<1>9. CASE p = NULL
  <2>1. phase' = "failed" /\ input' = input /\ got' = got
    BY <1>2, <1>9 DEF Fails
  <2>2. GivesUp(0)
    BY <2>1, RemovedNone DEF GivesUp
  <2>3. ASSUME NEW item \in Items, item.kind = kind, Matches(item)
        PROVE  ~(Len(Written(item)) <= Len(input))
    <3>1. SUFFICES ASSUME Size(item.val) <= Len(input) PROVE FALSE
      BY <1>7, <2>3
    <3>2. p = [val |-> item.val, used |-> Size(item.val)] /\ Size(item.val) # 0
      BY <1>7, <2>3, <3>1
    <3> QED BY <1>9, <3>2 DEF NULL
  <2> QED BY <1>2, <2>2, <2>3 DEF Outcome, Exact
<1> QED BY <1>8, <1>9

\* The strings: their length, and their bytes if they are there.
LEMMA GetSliceIs ==
  ASSUME input \in Bytes, GetLengthPrefixedSlice \/ GetLengthPrefixedSlicePtr
  PROVE  Outcome("slice") /\ Exact("slice")
<1> DEFINE p == GetVarintPtr(input, N32, Lim32)  rest == remove_prefix(input, p.used)
<1>1. N32 \in Nat /\ Lim32 \in Nat \ {0} /\ input \in Seq(0 .. Byte - 1) /\ Len(input) \in Nat
  BY Limits DEF Bytes
<1>2. /\ Expects("slice") /\ phase = "read"
      /\ IF p = NULL THEN Fails(input)
         ELSE IF Len(rest) >= p.val
              THEN Yields("slice", SubSeq(rest, 1, p.val), remove_prefix(rest, p.val))
              ELSE Fails(rest) \/ Fails(input)
  BY DEF GetLengthPrefixedSlice, GetLengthPrefixedSlicePtr, Expects, GetVarint32Ptr
\* What is written of a slice.
<1>3. ASSUME NEW item \in Items, item.kind = "slice", Short(item)
      PROVE  LET v == Len(item.val)  k == Size(v)
             IN  /\ item.val \in Bytes /\ item = Item("slice", item.val)
                 /\ v \in 0 .. Lim32 - 1 /\ v \in Nat /\ k \in Nat \ {0} /\ k <= N32
                 /\ Varint(v) = Groups(v, k) /\ Len(Varint(v)) = k
                 /\ Len(Written(item)) = k + v
                 /\ \A i \in 1 .. k : Written(item)[i] = Groups(v, k)[i]
                 /\ \A i \in 1 .. v : Written(item)[k + i] = item.val[i]
  <2> DEFINE x == item.val  v == Len(x)  k == Size(v)
  <2>1. x \in Bytes /\ item = Item("slice", x) /\ v \in Nat /\ v < Lim32
    BY <1>3, Kinds DEF Short, Bytes
  <2>2. v % Lim32 = v
    <3>1. v \in 0 .. Lim32 - 1
      BY <1>1, <2>1
    <3> QED BY <1>1, <3>1, OwnRemainder
  <2>3. Written(item) = Varint(v) \o x
    BY <1>3, <2>2 DEF Written
  <2> HIDE DEF v
  <2>4. v \in 0 .. Lim32 - 1 /\ k \in 1 .. N32
    BY <1>1, <2>1, EncodeVarint32IsGroups
  <2>5. Varint(v) \in Bytes /\ Len(Varint(v)) = k /\ k \in Nat \ {0} /\ Varint(v) = Groups(v, k)
    BY <2>1, VarintIs DEF Varint
  <2>6. /\ Len(Varint(v) \o x) = k + Len(x)
        /\ \A i \in 1 .. k + Len(x) : (Varint(v) \o x)[i] = IF i <= k THEN Varint(v)[i] ELSE x[i - k]
    <3> DEFINE s == Varint(v)
    <3>1. s \in Seq(0 .. Byte - 1) /\ x \in Seq(0 .. Byte - 1) /\ Len(s) = k
      BY <2>1, <2>5 DEF Bytes
    <3> HIDE DEF s, x, k
    <3>2. /\ Len(s \o x) = Len(s) + Len(x)
          /\ \A i \in 1 .. Len(s) + Len(x) : (s \o x)[i] = IF i <= Len(s) THEN s[i] ELSE x[i - Len(s)]
      BY <3>1, ConcatProperties
    <3> QED BY <3>1, <3>2 DEF s
  <2> HIDE DEF k, x
  <2>7. Len(x) = v
    BY DEF v
  <2>8. \A i \in 1 .. k : Written(item)[i] = Groups(v, k)[i]
    BY <2>1, <2>3, <2>5, <2>6, <2>7
  <2>9. \A i \in 1 .. v : Written(item)[k + i] = x[i]
    <3> SUFFICES ASSUME NEW i \in 1 .. v PROVE Written(item)[k + i] = x[i]
      OBVIOUS
    <3>1. k + i \in 1 .. k + Len(x) /\ ~(k + i <= k) /\ (k + i) - k = i
      BY <2>1, <2>5, <2>7
    <3> QED BY <2>3, <2>6, <3>1
  <2>10. Len(Written(item)) = k + v /\ k <= N32
    BY <1>1, <2>3, <2>4, <2>6, <2>7
  <2> QED BY <2>1, <2>4, <2>5, <2>8, <2>9, <2>10 DEF v, k, x
\* What is parsed when it is there.
<1>4. ASSUME NEW item \in Items, item.kind = "slice", Short(item), Matches(item)
      PROVE  LET v == Len(item.val)  k == Size(v)
             IN  IF k <= Len(input) THEN p = [val |-> v, used |-> k] ELSE p = NULL
  <2> DEFINE v == Len(item.val)  k == Size(v)
  <2>1. /\ v \in 0 .. Lim32 - 1 /\ v \in Nat /\ k \in Nat \ {0} /\ k <= N32
        /\ Len(Written(item)) = k + v
        /\ \A i \in 1 .. k : Written(item)[i] = Groups(v, k)[i]
    BY <1>3, <1>4
  <2> HIDE DEF v
  <2>2. \A i \in 1 .. k : i <= Len(input) => input[i] = Groups(v, k)[i]
    BY <1>4, <2>1 DEF Matches
  <2>3. ASSUME k <= Len(input) PROVE p = [val |-> v, used |-> k]
    <3>1. \A i \in 1 .. k : input[i] = Groups(v, k)[i]
      BY <1>1, <2>1, <2>2, <2>3
    <3> QED BY <1>1, <2>1, <2>3, <3>1, VarintRead
  <2>4. ASSUME ~(k <= Len(input)) PROVE p = NULL
    <3>1. Len(input) < k /\ \A i \in 1 .. Len(input) : input[i] = Groups(v, k)[i]
      BY <1>1, <2>1, <2>2, <2>4
    <3> QED BY <1>1, <2>1, <3>1, VarintCut
  <2> QED BY <2>3, <2>4 DEF v
<1>5. CASE p = NULL
  <2>1. phase' = "failed" /\ input' = input /\ got' = got
    BY <1>2, <1>5 DEF Fails
  <2>2. GivesUp(0)
    BY <2>1, RemovedNone DEF GivesUp
  <2>3. ASSUME NEW item \in Items, item.kind = "slice", Short(item), Matches(item)
        PROVE  ~(Len(Written(item)) <= Len(input))
    <3> DEFINE v == Len(item.val)  k == Size(v)
    <3>1. ~(k <= Len(input))
      <4>1. SUFFICES ASSUME k <= Len(input) PROVE FALSE
        OBVIOUS
      <4>2. p = [val |-> v, used |-> k] /\ k # 0
        BY <1>3, <1>4, <2>3, <4>1
      <4> QED BY <1>5, <4>2 DEF NULL
    <3>2. Len(Written(item)) = k + v /\ k \in Nat /\ v \in Nat
      BY <1>3, <2>3
    <3> HIDE DEF v, k
    <3> QED BY <1>1, <3>1, <3>2
  <2> QED BY <1>2, <2>2, <2>3 DEF Outcome, Exact
<1>6. CASE p # NULL
  <2> DEFINE v == p.val  k == p.used
  <2>1. v \in 0 .. Lim32 - 1 /\ k \in 1 .. Len(input) /\ k \in Nat /\ Size(v) <= k
    BY <1>1, <1>6, VarintFits
  <2>2. IF Len(rest) >= v
        THEN Yields("slice", SubSeq(rest, 1, v), remove_prefix(rest, v))
        ELSE Fails(rest) \/ Fails(input)
    BY <1>2, <1>6
  <2>3. rest = remove_prefix(input, k)
    OBVIOUS
  <2>4. ASSUME NEW item \in Items, item.kind = "slice", Short(item), Matches(item)
        PROVE  v = Len(item.val) /\ k = Size(Len(item.val)) /\ k <= Len(input)
    <3>1. Size(Len(item.val)) <= Len(input)
      BY <1>4, <1>6, <2>4
    <3>2. p = [val |-> Len(item.val), used |-> Size(Len(item.val))]
      BY <1>4, <2>4, <3>1
    <3> QED BY <3>1, <3>2
  <2> HIDE DEF rest, v, k
  <2>5. /\ k \in 0 .. Len(input) /\ v \in Nat
        /\ rest \in Bytes /\ Len(rest) = Len(input) - k /\ Len(rest) \in Nat
        /\ \A i \in 1 .. Len(rest) : rest[i] = input[k + i]
    <3>1. k \in 0 .. Len(input) /\ v \in Nat
      BY <1>1, <2>1
    <3>2. rest \in Bytes /\ Len(rest) = Len(input) - k
          /\ \A i \in 1 .. Len(input) - k : rest[i] = input[k + i]
      BY <2>3, <3>1, Removed
    <3> QED BY <1>1, <3>1, <3>2
  <2>6. CASE Len(rest) >= v
    <3> DEFINE x == SubSeq(rest, 1, v)
    <3>1. /\ v \in 0 .. Len(rest) /\ x \in Bytes /\ Len(x) = v
          /\ \A i \in 1 .. v : x[i] = rest[i]
      <4>1. v \in 0 .. Len(rest)
        BY <2>5, <2>6
      <4> QED BY <2>5, <4>1, Removed
    <3>2. got' = Append(got, Item("slice", x)) /\ input' = remove_prefix(rest, v)
      BY <2>2, <2>6 DEF Yields
    <3>3. phase' = "read"
      BY <1>2, <2>2, <2>6 DEF Yields
    <3> HIDE DEF x
    <3>4. k + v \in 0 .. Len(input) /\ input' = remove_prefix(input, k + v)
      <4>1. k + v \in 0 .. Len(input) /\ v \in 0 .. Len(input) - k
        BY <1>1, <2>1, <2>5, <2>6
      <4> QED BY <2>3, <2>5, <3>2, <4>1, RemovedTwice
    <3>5. Item("slice", x) \in Items /\ Item("slice", x).kind = "slice" /\ Item("slice", x).val = x
      BY <3>1, MadeItem
    <3>6. Short(Item("slice", x))
      <4>1. v < Lim32
        BY <1>1, <2>1
      <4> QED BY <3>1, <3>5, <4>1 DEF Short
    <3>7. Len(Written(Item("slice", x))) = Size(v) + v /\ Size(v) \in Nat
      BY <1>3, <3>1, <3>5, <3>6
    <3>8. Takes(Item("slice", x), k + v)
      <4>1. Size(v) + v <= k + v
        BY <2>1, <2>5, <3>7
      <4> QED BY <3>2, <3>3, <3>4, <3>5, <3>6, <3>7, <4>1 DEF Takes
    <3>9. ASSUME NEW item \in Items, item.kind = "slice", Short(item), Matches(item)
          PROVE  Len(Written(item)) <= Len(input) /\ Takes(item, Len(Written(item)))
      <4>1. v = Len(item.val) /\ k = Size(Len(item.val))
        BY <2>4, <3>9
      <4>2. /\ item.val \in Bytes /\ item = Item("slice", item.val) /\ Len(Written(item)) = k + v
            /\ \A i \in 1 .. v : Written(item)[k + i] = item.val[i]
        BY <1>3, <3>9, <4>1
      <4>3. ASSUME NEW i \in 1 .. v PROVE x[i] = item.val[i]
        <5>1. i \in 1 .. Len(rest) /\ k + i \in 1 .. Len(Written(item)) /\ k + i <= Len(input)
          BY <1>1, <2>1, <2>5, <3>1, <3>4, <4>2
        <5>2. input[k + i] = Written(item)[k + i]
          BY <3>9, <5>1 DEF Matches
        <5> QED BY <2>5, <3>1, <4>2, <5>1, <5>2
      <4>4. x = item.val
        BY <3>1, <4>1, <4>2, <4>3, SeqEqual DEF Bytes
      <4> QED BY <3>4, <3>8, <4>2, <4>4
    <3>10. Outcome("slice")
      BY <1>2, <3>5, <3>8 DEF Outcome
    <3> QED BY <3>9, <3>10 DEF Exact
  <2>7. CASE ~(Len(rest) >= v)
    <3>1. phase' = "failed" /\ (input' = rest \/ input' = input) /\ got' = got
      BY <2>2, <2>7 DEF Fails
    <3>2. \E n \in {0, k} : GivesUp(n)
      BY <2>3, <2>5, <3>1, RemovedNone DEF GivesUp
    <3>3. ASSUME NEW item \in Items, item.kind = "slice", Short(item), Matches(item)
          PROVE  ~(Len(Written(item)) <= Len(input))
      <4>1. Len(Written(item)) = k + v
        BY <1>3, <2>4, <3>3
      <4> QED BY <1>1, <2>1, <2>5, <2>7, <4>1
    <3> QED BY <1>2, <3>2, <3>3 DEF Outcome, Exact
  <2> QED BY <2>6, <2>7
<1> QED BY <1>5, <1>6

\* Any of them.
LEMMA GetIs ==
  ASSUME input \in Bytes, Get
  PROVE  \E kind : Outcome(kind) /\ Exact(kind)
<1>1. CASE GetVarint32
  BY <1>1, GetVarintIs DEF GetVarint32
<1>2. CASE GetVarint64
  BY <1>2, GetVarintIs DEF GetVarint64
<1>3. CASE GetLengthPrefixedSlice \/ GetLengthPrefixedSlicePtr
  BY <1>3, GetSliceIs
<1>4. CASE GetFixed("fixed32", W32)
  BY <1>4, GetFixedIs
<1>5. CASE GetFixed("fixed64", W64)
  BY <1>5, GetFixedIs
<1> QED BY <1>1, <1>2, <1>3, <1>4, <1>5 DEF Get

-----------------------------------------------------------------------------
(* The invariant of any reader.                                            *)

\* The lengths of the items, as they are written.
Lengths(items) == [i \in 1 .. Len(items) |-> Len(Written(items[i]))]

\* What has been parsed fits into the n bytes that have been taken.
Fits(n) ==
  /\ n \in 0 .. Len(given) /\ input = remove_prefix(given, n)
  /\ Sum(Lengths(got)) <= n

\* The bytes are bytes, the items are of their types, and fit.
IInv ==
  /\ phase \in {"write", "read", "failed"}
  /\ dst \in Bytes /\ given \in Bytes /\ input \in Bytes
  /\ put \in Seq(Items) /\ got \in Seq(Items)
  /\ phase = "write" => Len(got) = 0
  /\ \A i \in 1 .. Len(put) : put[i].kind = "slice" => put[i].val \in Slices
  /\ \E n : Fits(n)

\* An item more is its length more.
LEMMA LengthsAre ==
  ASSUME NEW s \in Seq(Items)
  PROVE  /\ Lengths(s) \in Seq(Nat) /\ Len(Lengths(s)) = Len(s) /\ Len(s) \in Nat
         /\ \A item \in Items : Lengths(Append(s, item)) = Append(Lengths(s), Len(Written(item)))
<1>1. Len(s) \in Nat /\ \A i \in 1 .. Len(s) : Len(Written(s[i])) \in Nat
  BY WrittenIs
<1>2. Lengths(s) = [i \in 1 .. Len(s) |-> Len(Written(s[i]))]
  BY DEF Lengths
<1>3. Lengths(s) \in Seq(Nat) /\ Len(Lengths(s)) = Len(s)
  BY <1>1, <1>2
<1>4. ASSUME NEW item \in Items
      PROVE  Lengths(Append(s, item)) = Append(Lengths(s), Len(Written(item)))
  <2> DEFINE t == Append(s, item)  n == Len(s)  x == Len(Written(item))
             a == Lengths(t)  b == Append(Lengths(s), x)
  <2>1. t \in Seq(Items) /\ Len(t) = n + 1 /\ t[n + 1] = item /\ \A i \in 1 .. n : t[i] = s[i]
    OBVIOUS
  <2>2. \A i \in 1 .. n + 1 : Len(Written(t[i])) \in Nat
    BY <2>1, WrittenIs
  <2>3. x \in Nat
    BY WrittenIs
  <2>4. a = [i \in 1 .. n + 1 |-> Len(Written(t[i]))]
    BY <2>1 DEF Lengths
  <2> HIDE DEF t, a
  <2>5. a \in Seq(Nat) /\ Len(a) = n + 1
    BY <1>1, <2>2, <2>4
  <2>6. b \in Seq(Nat) /\ Len(b) = n + 1 /\ b[n + 1] = x
        /\ \A i \in 1 .. n : b[i] = Lengths(s)[i]
    BY <1>1, <1>3, <2>3
  <2> HIDE DEF b
  <2>7. ASSUME NEW i \in 1 .. n + 1 PROVE a[i] = b[i]
    <3>1. CASE i = n + 1
      BY <1>1, <2>1, <2>4, <2>6, <3>1
    <3>2. CASE i # n + 1
      <4>1. i \in 1 .. n
        BY <1>1, <3>2
      <4> QED BY <1>2, <2>1, <2>4, <2>6, <4>1
    <3> QED BY <3>1, <3>2
  <2> QED BY <2>5, <2>6, <2>7, SeqEqual DEF a, b, t
<1> QED BY <1>1, <1>3, <1>4

\* Nothing has been written or parsed.
LEMMA InitIInv == Init => IInv
<1> SUFFICES ASSUME Init PROVE IInv
  OBVIOUS
<1>1. /\ dst = <<>> /\ put = <<>> /\ got = <<>> /\ input = given
      /\ phase \in {"write", "read"}
  BY DEF Init
<1>2. given \in Bytes
  <2>1. CASE given = <<>>
    BY <2>1 DEF Bytes
  <2>2. CASE \E n \in 1 .. MaxNoise : given \in [1 .. n -> Noise]
    <3>1. PICK n \in 1 .. MaxNoise : given \in [1 .. n -> Noise]
      BY <2>2
    <3>2. n \in Nat /\ given \in [1 .. n -> 0 .. Byte - 1]
      <4>1. n \in Nat /\ Noise \subseteq 0 .. Byte - 1
        BY BoundsAssumption
      <4> DEFINE T == 0 .. Byte - 1
      <4> HIDE DEF T
      <4>2. given \in [1 .. n -> Noise] /\ Noise \subseteq T
        BY <3>1, <4>1 DEF T
      <4>3. given \in [1 .. n -> T]
        BY <4>2
      <4> QED BY <4>1, <4>3 DEF T
    <3> DEFINE S == 0 .. Byte - 1
    <3> HIDE DEF S
    <3>3. n \in Nat /\ given \in [1 .. n -> S]
      BY <3>2 DEF S
    <3>4. given \in Seq(S)
      BY <3>3
    <3> QED BY <3>4 DEF S, Bytes
  <2> QED BY <2>1, <2>2 DEF Init
<1>3. Fits(0)
  <2>1. got \in Seq(Items) /\ Len(got) = 0
    BY <1>1
  <2>2. Lengths(got) \in Seq(Nat) /\ Len(Lengths(got)) = 0
    BY <2>1, LengthsAre
  <2>3. Sum(Lengths(got)) = 0
    BY <2>2, Sums
  <2> QED BY <1>1, <1>2, <2>3, RemovedNone DEF Fits
<1> QED BY <1>1, <1>2, <1>3 DEF IInv, Bytes

\* A Put appends an item and what is written of it.
Put ==
  \/ \E v \in Numbers : PutFixed32(v) \/ PutFixed64(v) \/ PutVarint32(v) \/ PutVarint64(v)
  \/ \E s \in Slices : PutLengthPrefixedSlice(s)

LEMMA PutIs ==
  ASSUME Put
  PROVE  /\ phase = "write" /\ UNCHANGED <<phase, given, input, got>>
         /\ \E item \in Items :
              /\ item.kind = "slice" => item.val \in Slices
              /\ put' = Append(put, item) /\ dst' = dst \o Written(item)
<1>1. \E item \in Items : (item.kind = "slice" => item.val \in Slices) /\ Puts(item)
  <2>1. ASSUME NEW v \in Numbers, PutFixed32(v) \/ PutVarint32(v)
        PROVE  \E item \in Items : (item.kind = "slice" => item.val \in Slices) /\ Puts(item)
    <3>1. v \in 0 .. Lim32 - 1
      BY <2>1, BoundsAssumption, Limits DEF PutFixed32, PutVarint32
    <3>2. \A kind \in {"fixed32", "varint32"} :
            Item(kind, v) \in Items /\ Item(kind, v).kind = kind
      BY <3>1, MadeItem
    <3>3. Puts(Item("fixed32", v)) \/ Puts(Item("varint32", v))
      BY <2>1 DEF PutFixed32, PutVarint32
    <3> QED BY <3>2, <3>3
  <2>2. ASSUME NEW v \in Numbers, PutFixed64(v) \/ PutVarint64(v)
        PROVE  \E item \in Items : (item.kind = "slice" => item.val \in Slices) /\ Puts(item)
    <3>1. v \in 0 .. Lim64 - 1
      BY BoundsAssumption
    <3>2. \A kind \in {"fixed64", "varint64"} :
            Item(kind, v) \in Items /\ Item(kind, v).kind = kind
      BY <3>1, MadeItem
    <3>3. Puts(Item("fixed64", v)) \/ Puts(Item("varint64", v))
      BY <2>2 DEF PutFixed64, PutVarint64
    <3> QED BY <3>2, <3>3
  <2>3. ASSUME NEW s \in Slices, PutLengthPrefixedSlice(s)
        PROVE  \E item \in Items : (item.kind = "slice" => item.val \in Slices) /\ Puts(item)
    <3>1. s \in Bytes
      BY BoundsAssumption DEF Bytes
    <3>2. Item("slice", s) \in Items /\ Item("slice", s).val = s
      BY <3>1, MadeItem
    <3>3. Puts(Item("slice", s))
      BY <2>3 DEF PutLengthPrefixedSlice
    <3> QED BY <3>2, <3>3
  <2> QED BY <2>1, <2>2, <2>3 DEF Put
<1>2. PICK item \in Items : (item.kind = "slice" => item.val \in Slices) /\ Puts(item)
  BY <1>1
<1>3. phase = "write" /\ UNCHANGED <<phase, given, input, got>>
      /\ put' = Append(put, item) /\ dst' = dst \o Encoding(item)
  BY <1>2 DEF Puts
<1> QED BY <1>2, <1>3, WrittenIs

\* The steps.
LEMMA NextIs == [Next]_vars => Put \/ Deliver \/ Get \/ UNCHANGED vars
<1> QED BY DEF Next, Put, Get

\* No routine spoils it.
LEMMA NextIInv == IInv /\ [Next]_vars => IInv'
<1> SUFFICES ASSUME IInv, [Next]_vars PROVE IInv'
  OBVIOUS
<1>0. /\ phase \in {"write", "read", "failed"}
      /\ dst \in Bytes /\ given \in Bytes /\ input \in Bytes
      /\ put \in Seq(Items) /\ got \in Seq(Items)
      /\ phase = "write" => Len(got) = 0
      /\ \A i \in 1 .. Len(put) : put[i].kind = "slice" => put[i].val \in Slices
      /\ \E n : Fits(n)
  BY DEF IInv
<1>1. CASE Put
  <2>1. UNCHANGED <<phase, given, input, got>>
    BY <1>1, PutIs
  <2>2. PICK item \in Items : /\ item.kind = "slice" => item.val \in Slices
                              /\ put' = Append(put, item) /\ dst' = dst \o Written(item)
    BY <1>1, PutIs
  <2>3. dst' \in Bytes
    BY <1>0, <2>2, WrittenIs, ConcatProperties DEF Bytes
  <2>4. /\ put' \in Seq(Items)
        /\ \A i \in 1 .. Len(put') : put'[i].kind = "slice" => put'[i].val \in Slices
    BY <1>0, <2>2
  <2>5. \E n : Fits(n)'
    BY <1>0, <2>1 DEF Fits
  <2> QED BY <1>0, <2>1, <2>3, <2>4, <2>5 DEF IInv
<1>2. CASE Deliver
  <2>1. /\ phase = "write" /\ phase' = "read" /\ UNCHANGED <<dst, put, got>>
        /\ input' = given' /\ Len(got) = 0
    BY <1>0, <1>2 DEF Deliver
  <2>2. given' \in Bytes
    <3>1. PICK n \in 0 .. Len(dst) : given' = SubSeq(dst, 1, n)
      BY <1>2 DEF Deliver
    <3> QED BY <1>0, <3>1, Removed
  <2>3. Fits(0)'
    <3>1. Lengths(got) \in Seq(Nat) /\ Len(Lengths(got)) = 0
      BY <1>0, <2>1, LengthsAre
    <3>2. Sum(Lengths(got)) = 0
      BY <3>1, Sums
    <3>3. remove_prefix(given', 0) = given' /\ 0 \in 0 .. Len(given')
      BY <2>2, RemovedNone
    <3> QED BY <2>1, <3>2, <3>3 DEF Fits
  <2>4. \E n : Fits(n)'
    BY <2>3, Zenon
  <2> QED BY <1>0, <2>1, <2>2, <2>4 DEF IInv
<1>3. CASE Get
  <2>1. PICK kind : Outcome(kind)
    BY <1>0, <1>3, GetIs
  <2>2. UNCHANGED <<dst, put, given>>
    BY <2>1 DEF Outcome, Expects
  <2>3. PICK n : Fits(n)
    BY <1>0
  <2>4. n \in 0 .. Len(given) /\ input = remove_prefix(given, n) /\ Sum(Lengths(got)) <= n
        /\ Len(given) \in Nat /\ Len(input) = Len(given) - n
    <3>1. n \in 0 .. Len(given) /\ input = remove_prefix(given, n) /\ Sum(Lengths(got)) <= n
      BY <2>3 DEF Fits
    <3> QED BY <1>0, <3>1, Removed, RemovedNone
  <2>5. Sum(Lengths(got)) \in Nat /\ Lengths(got) \in Seq(Nat)
    <3>1. Lengths(got) \in Seq(Nat)
      BY <1>0, LengthsAre
    <3> QED BY <3>1, Sums
  <2>6. ASSUME NEW m \in 0 .. Len(input)
        PROVE  /\ n + m \in 0 .. Len(given) /\ remove_prefix(input, m) = remove_prefix(given, n + m)
               /\ remove_prefix(input, m) \in Bytes
    <3>1. m \in 0 .. Len(given) - n /\ n + m \in 0 .. Len(given)
      BY <2>4
    <3> QED BY <1>0, <2>4, <3>1, Removed, RemovedTwice
  <2>7. CASE \E item, m : Takes(item, m)
    <3>1. PICK item, m : Takes(item, m)
      BY <2>7
    <3>2. /\ item \in Items /\ m \in 0 .. Len(input) /\ Len(Written(item)) <= m
          /\ got' = Append(got, item) /\ input' = remove_prefix(input, m) /\ phase' = "read"
      BY <3>1 DEF Takes
    <3>3. Lengths(got') = Append(Lengths(got), Len(Written(item))) /\ Len(Written(item)) \in Nat
      BY <1>0, <3>2, LengthsAre, WrittenIs
    <3>4. Sum(Lengths(got')) = Sum(Lengths(got)) + Len(Written(item))
      BY <2>5, <3>3, Sums
    <3>5. Sum(Lengths(got')) <= n + m
      BY <2>4, <2>5, <3>2, <3>3, <3>4
    <3>6. Fits(n + m)'
      BY <2>2, <2>6, <3>2, <3>5 DEF Fits
    <3>7. \E k : Fits(k)'
      BY <3>6, Zenon
    <3>8. got' \in Seq(Items) /\ input' \in Bytes
      BY <1>0, <2>6, <3>2
    <3> QED BY <1>0, <2>2, <3>2, <3>7, <3>8 DEF IInv
  <2>8. CASE \E m : GivesUp(m)
    <3>1. PICK m : GivesUp(m)
      BY <2>8
    <3>2. m \in 0 .. Len(input) /\ input' = remove_prefix(input, m)
          /\ phase' = "failed" /\ got' = got
      BY <3>1 DEF GivesUp
    <3>3. Sum(Lengths(got)) <= n + m
      BY <2>4, <2>5, <3>2
    <3>4. Fits(n + m)'
      BY <2>2, <2>6, <3>2, <3>3 DEF Fits
    <3>5. \E k : Fits(k)'
      BY <3>4, Zenon
    <3>6. input' \in Bytes
      BY <2>6, <3>2
    <3> QED BY <1>0, <2>2, <3>2, <3>5, <3>6 DEF IInv
  <2> QED BY <2>1, <2>7, <2>8 DEF Outcome
<1>4. CASE UNCHANGED vars
  BY <1>4 DEF vars, IInv, Fits
<1> QED BY <1>1, <1>2, <1>3, <1>4, NextIs

\* What the Get routines take is there, and what they make of it could be written.
THEOREM Invariance == Spec => []IInv
<1> QED BY InitIInv, NextIInv, PTL DEF Spec

\* The routines' types: a decoded uint32_t has 32 bits, whatever the bytes.
THEOREM TypeCorrect == Spec => []TypeOK
<1>1. IInv => TypeOK
  <2> SUFFICES ASSUME IInv PROVE TypeOK
    OBVIOUS
  <2>1. /\ put \in Seq(Items) /\ got \in Seq(Items)
        /\ phase \in {"write", "read", "failed"}
        /\ dst \in Seq(0 .. Byte - 1) /\ given \in Seq(0 .. Byte - 1)
        /\ input \in Seq(0 .. Byte - 1)
    BY DEF IInv, Bytes
  <2>2. \A item \in {put[i] : i \in DOMAIN put} \cup {got[i] : i \in DOMAIN got} : item \in Items
    BY <2>1
  <2>3. ASSUME NEW item \in Items
        PROVE  CASE item.kind \in {"fixed32", "varint32"} -> item.val \in 0 .. Lim32 - 1
                 [] item.kind \in {"fixed64", "varint64"} -> item.val \in 0 .. Lim64 - 1
                 [] item.kind = "slice"                   -> item.val \in Seq(0 .. Byte - 1)
    BY Kinds DEF Bytes
  <2> QED BY <2>1, <2>2, <2>3 DEF TypeOK
<1> QED BY <1>1, Invariance, PTL

\* The Get routines: of whatever bytes, no more are taken than there are, and no
\* fewer than the items take to write.
THEOREM ParsesInPlace == Spec => []FitsInPlace
<1>1. IInv => FitsInPlace
  <2> SUFFICES ASSUME IInv PROVE FitsInPlace
    OBVIOUS
  <2>1. given \in Bytes /\ input \in Bytes /\ got \in Seq(Items)
    BY DEF IInv
  <2>2. PICK n : Fits(n)
    BY DEF IInv
  <2>3. n \in 0 .. Len(given) /\ input = remove_prefix(given, n) /\ Sum(Lengths(got)) <= n
    BY <2>2 DEF Fits
  <2>4. /\ Len(given) \in Nat /\ Len(input) = Len(given) - n
        /\ \A i \in 1 .. Len(given) - n : input[i] = given[n + i]
    BY <2>1, <2>3, Removed, RemovedNone
  <2>5. IsSuffix(input, given)
    <3> DEFINE a == Reverse(input)  b == Reverse(given)  l == Len(input)  m == Len(given)
    <3>1. /\ l \in Nat /\ m \in Nat /\ l <= m
          /\ \A i \in 1 .. l : input[i] = given[(m - l) + i]
      BY <2>3, <2>4
    <3>2. a = [i \in 1 .. l |-> input[(l - i) + 1]] /\ b = [i \in 1 .. m |-> given[(m - i) + 1]]
      BY DEF Reverse
    <3>3. a \in Bytes /\ b \in Bytes /\ Len(a) = l /\ Len(b) = m
      <4> DEFINE S == 0 .. Byte - 1
      <4>1. input \in Seq(S) /\ given \in Seq(S)
        BY <2>1 DEF Bytes
      <4> HIDE DEF S
      <4>2. (\A i \in 1 .. l : input[i] \in S) /\ \A i \in 1 .. m : given[i] \in S
        BY <4>1
      <4>3. (\A i \in 1 .. l : (l - i) + 1 \in 1 .. l) /\ \A i \in 1 .. m : (m - i) + 1 \in 1 .. m
        BY <3>1
      <4> HIDE DEF a, b, l, m
      <4>4. a \in [1 .. l -> S] /\ b \in [1 .. m -> S]
        BY <3>2, <4>2, <4>3
      <4>5. a \in Seq(S) /\ b \in Seq(S) /\ Len(a) = l /\ Len(b) = m
        BY <3>1, <4>4
      <4> QED BY <4>5 DEF S, Bytes
    <3> HIDE DEF a, b, l, m
    <3>4. ASSUME NEW i \in 1 .. l PROVE a[i] = b[i]
      <4>1. (l - i) + 1 \in 1 .. l /\ (m - l) + ((l - i) + 1) = (m - i) + 1 /\ i \in 1 .. m
        BY <3>1
      <4> QED BY <3>1, <3>2, <4>1
    <3>5. /\ SubSeq(a, 1, l) \in Bytes /\ Len(SubSeq(a, 1, l)) = l
          /\ \A i \in 1 .. l : SubSeq(a, 1, l)[i] = a[i]
      BY <3>1, <3>3, Removed
    <3>6. /\ SubSeq(b, 1, l) \in Bytes /\ Len(SubSeq(b, 1, l)) = l
          /\ \A i \in 1 .. l : SubSeq(b, 1, l)[i] = b[i]
      <4>1. l \in 0 .. Len(b)
        BY <3>1, <3>3
      <4> QED BY <3>3, <4>1, Removed
    <3>7. SubSeq(a, 1, l) = SubSeq(b, 1, l)
      BY <3>4, <3>5, <3>6, SeqEqual DEF Bytes
    <3> QED BY <3>1, <3>3, <3>7 DEF IsSuffix, IsPrefix, a, b
  <2>6. Len(Consumed) = n
    <3>1. Len(given) - Len(input) = n /\ n \in 0 .. Len(given)
      BY <2>3, <2>4
    <3> QED BY <2>1, <3>1, Removed DEF Consumed
  <2>7. Lengths(got) = [i \in 1 .. Len(got) |-> Len(Encoding(got[i]))]
    <3>1. \A i \in 1 .. Len(got) : Encoding(got[i]) = Written(got[i])
      BY <2>1, WrittenIs
    <3> QED BY <3>1 DEF Lengths
  <2> QED BY <2>3, <2>5, <2>6, <2>7 DEF FitsInPlace
<1> QED BY <1>1, Invariance, PTL

-----------------------------------------------------------------------------
(* The reader of what a writer wrote, whose strings are shorter than 2^32. *)

\* PutLengthPrefixedSlice keeps a length in a uint32_t.
ShortSlices == \A s \in Slices : Len(s) < Lim32

\* The string is the items end to end: the i-th ends at off[i].
Layout(off) ==
  /\ off \in [0 .. Len(put) -> Nat] /\ off[0] = 0 /\ off[Len(put)] = Len(dst)
  /\ \A i \in 1 .. Len(put) :
       /\ off[i] = off[i - 1] + Len(Written(put[i])) /\ off[i] <= Len(dst)
       /\ \A j \in 1 .. Len(Written(put[i])) : dst[off[i - 1] + j] = Written(put[i])[j]

\* The reader stands where an item ends, or has met the end of what it was given.
Reading(off) ==
  phase # "write" /\ Len(put) # 0 =>
    /\ Len(given) <= Len(dst) /\ \A i \in 1 .. Len(given) : given[i] = dst[i]
    /\ Len(got) <= Len(put) /\ \A i \in 1 .. Len(got) : got[i] = put[i]
    /\ phase = "read" => off[Len(got)] <= Len(given) /\ input = remove_prefix(given, off[Len(got)])
    /\ phase = "failed" => Len(given) < Len(dst) /\ Len(got) < Len(put)

\* The reader is at an item of the string.
RInv == \E off : Layout(off) /\ Reading(off)

\* Before the first item.
LEMMA InitRInv == Init => RInv
<1> SUFFICES ASSUME Init PROVE RInv
  OBVIOUS
<1> DEFINE off == [i \in 0 .. 0 |-> 0]
<1>1. Len(put) = 0 /\ Len(dst) = 0
  BY DEF Init
<1>2. off \in [0 .. 0 -> Nat] /\ off[0] = 0
  OBVIOUS
<1> HIDE DEF off
<1>3. Layout(off) /\ Reading(off)
  BY <1>1, <1>2 DEF Layout, Reading
<1>4. \E o : Layout(o) /\ Reading(o)
  BY <1>3, Zenon
<1> QED BY <1>4 DEF RInv

\* A Put lays one more item at the end of the string.
LEMMA PutRInv == ASSUME IInv, RInv, Put PROVE RInv'
<1>1. dst \in Bytes /\ put \in Seq(Items) /\ Len(dst) \in Nat /\ Len(put) \in Nat
  BY DEF IInv, Bytes
<1>2. phase' = "write"
  BY PutIs
<1>3. PICK item \in Items : put' = Append(put, item) /\ dst' = dst \o Written(item)
  BY PutIs
<1>4. PICK off : Layout(off)
  BY DEF RInv
<1> DEFINE n == Len(put)  d == Len(dst)  w == Len(Written(item))
<1>5. /\ off \in [0 .. n -> Nat] /\ off[0] = 0 /\ off[n] = d
      /\ \A i \in 1 .. n :
           /\ off[i] = off[i - 1] + Len(Written(put[i])) /\ off[i] <= d
           /\ \A j \in 1 .. Len(Written(put[i])) : dst[off[i - 1] + j] = Written(put[i])[j]
  BY <1>4 DEF Layout
<1>6. w \in Nat /\ Written(item) \in Bytes
  BY WrittenIs
<1>7. /\ Len(put') = n + 1 /\ put'[n + 1] = item /\ \A i \in 1 .. n : put'[i] = put[i]
      /\ \A i \in 1 .. n : Len(Written(put[i])) \in Nat
  BY <1>1, <1>3, WrittenIs
<1>8. /\ Len(dst') = d + w
      /\ \A i \in 1 .. d : dst'[i] = dst[i]
      /\ \A i \in 1 .. w : dst'[d + i] = Written(item)[i]
  <2> DEFINE s == Written(item)  t == dst \o s
  <2>1. /\ Len(t) = d + w
        /\ \A i \in 1 .. d + w : t[i] = IF i <= d THEN dst[i] ELSE s[i - d]
    BY <1>1, <1>6, ConcatProperties DEF Bytes
  <2> HIDE DEF s, t, d, w
  <2>2. d \in Nat /\ w \in Nat
    BY <1>1, <1>6 DEF d
  <2>3. \A i \in 1 .. d : t[i] = dst[i]
    BY <2>1, <2>2
  <2>4. ASSUME NEW i \in 1 .. w PROVE t[d + i] = s[i]
    <3>1. d + i \in 1 .. d + w /\ ~(d + i <= d) /\ (d + i) - d = i
      BY <2>2
    <3> QED BY <2>1, <3>1
  <2> QED BY <1>3, <2>1, <2>3, <2>4 DEF s, t
<1> HIDE DEF n, d, w
<1>9. n \in Nat /\ d \in Nat
  BY <1>1 DEF n, d
<1>10. PICK new \in [0 .. n + 1 -> Nat] : new[n + 1] = d + w /\ \A i \in 0 .. n : new[i] = off[i]
  <2> DEFINE e == [i \in 0 .. n + 1 |-> IF i <= n THEN off[i] ELSE d + w]
  <2>1. e \in [0 .. n + 1 -> Nat] /\ e[n + 1] = d + w /\ \A i \in 0 .. n : e[i] = off[i]
    BY <1>5, <1>6, <1>9
  <2> HIDE DEF e
  <2> QED BY <2>1
<1>11. ASSUME NEW i \in 1 .. n + 1
       PROVE  /\ new[i] = new[i - 1] + Len(Written(put'[i])) /\ new[i] <= d + w
              /\ \A j \in 1 .. Len(Written(put'[i])) : dst'[new[i - 1] + j] = Written(put'[i])[j]
  <2>1. CASE i = n + 1
    <3>1. new[i] = d + w /\ put'[i] = item /\ new[i - 1] = d
      <4>1. i - 1 = n /\ n \in 0 .. n
        BY <1>9, <2>1
      <4> QED BY <1>5, <1>7, <1>10, <2>1, <4>1
    <3> QED BY <1>6, <1>8, <1>9, <3>1 DEF w
  <2>2. CASE i # n + 1
    <3>1. i \in 1 .. n /\ i - 1 \in 0 .. n /\ i \in 0 .. n
      BY <1>9, <2>2
    <3> DEFINE s == Written(put[i])
    <3>2. new[i] = off[i] /\ new[i - 1] = off[i - 1] /\ put'[i] = put[i]
          /\ off[i] \in Nat /\ off[i - 1] \in Nat /\ Len(s) \in Nat
      BY <1>5, <1>7, <1>10, <3>1
    <3>3. /\ off[i] = off[i - 1] + Len(s) /\ off[i] <= d
          /\ \A j \in 1 .. Len(s) : dst[off[i - 1] + j] = s[j]
      BY <1>5, <3>1
    <3> HIDE DEF s
    <3>4. new[i] = new[i - 1] + Len(s) /\ new[i] <= d + w
      BY <1>6, <1>9, <3>2, <3>3
    <3>5. ASSUME NEW j \in 1 .. Len(s) PROVE dst'[new[i - 1] + j] = s[j]
      <4>1. off[i - 1] + j \in 1 .. d
        BY <1>9, <3>2, <3>3
      <4> QED BY <1>8, <3>2, <3>3, <4>1
    <3> QED BY <3>2, <3>4, <3>5 DEF s
  <2> QED BY <2>1, <2>2
<1>12. new[0] = 0
  BY <1>5, <1>9, <1>10
<1>13. Layout(new)'
  BY <1>7, <1>8, <1>9, <1>10, <1>11, <1>12 DEF Layout
<1>14. \E o : Layout(o)' /\ Reading(o)'
  <2>1. Reading(new)'
    BY <1>2 DEF Reading
  <2> QED BY <1>13, <2>1, Zenon
<1> QED BY <1>14 DEF RInv

\* The reader begins at the beginning.
LEMMA DeliverRInv == ASSUME IInv, RInv, Deliver PROVE RInv'
<1>1. /\ dst \in Bytes /\ Len(got) = 0
      /\ UNCHANGED <<dst, put, got>> /\ phase' = "read" /\ input' = given'
  BY DEF Deliver, IInv
<1>2. PICK n \in 0 .. Len(dst) : given' = SubSeq(dst, 1, n)
  BY DEF Deliver
<1>3. /\ given' \in Bytes /\ Len(given') = n /\ n <= Len(dst) /\ n \in Nat
      /\ \A i \in 1 .. n : given'[i] = dst[i]
  <2>1. Len(dst) \in Nat
    BY <1>1 DEF Bytes
  <2> QED BY <1>1, <1>2, <2>1, Removed
<1>4. remove_prefix(given', 0) = given'
  BY <1>3, RemovedNone
<1>5. PICK off : Layout(off)
  BY DEF RInv
<1>6. off[0] = 0 /\ Layout(off)' /\ Len(put) \in Nat
  <2>1. Len(put) \in Nat
    BY DEF IInv
  <2>2. off[0] = 0
    BY <1>5 DEF Layout
  <2>3. Layout(off)'
    BY <1>1, <1>5 DEF Layout
  <2> QED BY <2>1, <2>2, <2>3
<1>7. Reading(off)'
  BY <1>1, <1>3, <1>4, <1>6 DEF Reading
<1>8. \E o : Layout(o)' /\ Reading(o)'
  BY <1>6, <1>7, Zenon
<1> QED BY <1>8 DEF RInv

\* Their lengths are not cut.
LEMMA ShortPut ==
  ASSUME ShortSlices, IInv
  PROVE  \A i \in 1 .. Len(put) : put[i] \in Items /\ Short(put[i])
<1> QED BY DEF ShortSlices, IInv, Short

\* A Get finds the next item where the one before it ends, or not all of it.
LEMMA GetRInv == ASSUME ShortSlices, IInv, RInv, Get PROVE RInv'
<1>1. /\ dst \in Bytes /\ given \in Bytes /\ input \in Bytes
      /\ put \in Seq(Items) /\ got \in Seq(Items) /\ Len(put) \in Nat /\ Len(got) \in Nat
      /\ Len(dst) \in Nat /\ Len(given) \in Nat /\ Len(input) \in Nat
  BY DEF IInv, Bytes
<1>2. PICK kind : Outcome(kind) /\ Exact(kind)
  BY <1>1, GetIs
<1>3. /\ phase = "read" /\ UNCHANGED <<dst, put, given>>
      /\ put # <<>> => Len(got) < Len(put) /\ put[Len(got) + 1].kind = kind
  BY <1>2 DEF Outcome, Expects
<1>4. PICK off : Layout(off) /\ Reading(off)
  BY DEF RInv
<1>5. Layout(off)'
  BY <1>3, <1>4 DEF Layout
<1>6. CASE Len(put) = 0
  <2>1. Reading(off)'
    BY <1>3, <1>6 DEF Reading
  <2>2. \E o : Layout(o)' /\ Reading(o)'
    BY <1>5, <2>1, Zenon
  <2> QED BY <2>2 DEF RInv
<1>7. CASE Len(put) # 0
  <2> DEFINE k == Len(got)  item == put[k + 1]  s == Written(item)  o == off[k]
  <2>1. k \in Nat /\ k < Len(put) /\ item.kind = kind /\ item \in Items /\ Short(item)
    <3>1. put # <<>>
      BY <1>7
    <3>2. k < Len(put) /\ item.kind = kind
      BY <1>3, <3>1
    <3>3. k + 1 \in 1 .. Len(put)
      BY <1>1, <3>2
    <3> QED BY <1>1, <3>2, <3>3, ShortPut
  <2>2. Len(s) \in Nat /\ s \in Bytes
    BY <2>1, WrittenIs
  <2>3. /\ Len(given) <= Len(dst) /\ \A i \in 1 .. Len(given) : given[i] = dst[i]
        /\ \A i \in 1 .. k : got[i] = put[i]
        /\ o <= Len(given) /\ input = remove_prefix(given, o)
    BY <1>3, <1>4, <1>7 DEF Reading
  <2>4. /\ o \in Nat /\ off[k + 1] = o + Len(s) /\ o + Len(s) <= Len(dst)
        /\ \A j \in 1 .. Len(s) : dst[o + j] = s[j]
    <3>1. k \in 0 .. Len(put) /\ k + 1 \in 1 .. Len(put) /\ (k + 1) - 1 = k
      BY <1>1, <2>1
    <3>2. off \in [0 .. Len(put) -> Nat]
      BY <1>4 DEF Layout
    <3>3. /\ off[k + 1] = off[(k + 1) - 1] + Len(s) /\ off[k + 1] <= Len(dst)
          /\ \A j \in 1 .. Len(s) : dst[off[(k + 1) - 1] + j] = s[j]
      BY <1>4, <3>1 DEF Layout
    <3> QED BY <3>1, <3>2, <3>3
  <2> HIDE DEF k, item, s, o
  <2>5. /\ o \in 0 .. Len(given) /\ Len(input) = Len(given) - o
        /\ \A i \in 1 .. Len(given) - o : input[i] = given[o + i]
    <3>1. o \in 0 .. Len(given)
      BY <1>1, <2>3, <2>4
    <3> QED BY <1>1, <2>3, <3>1, Removed
  <2>6. Matches(item)
    <3> SUFFICES ASSUME NEW i \in 1 .. Len(s), i <= Len(input) PROVE input[i] = s[i]
      BY DEF Matches, s
    <3>1. i \in 1 .. Len(given) - o /\ o + i \in 1 .. Len(given)
      BY <1>1, <2>2, <2>4, <2>5
    <3> QED BY <2>3, <2>4, <2>5, <3>1
  <2>7. CASE Len(s) <= Len(input)
    <3>1. Takes(item, Len(s))
      BY <1>2, <2>1, <2>6, <2>7 DEF Exact, s
    <3>2. got' = Append(got, item) /\ input' = remove_prefix(input, Len(s)) /\ phase' = "read"
      BY <3>1 DEF Takes
    <3>3. /\ Len(got') = k + 1 /\ got'[k + 1] = item /\ \A i \in 1 .. k : got'[i] = got[i]
      BY <1>1, <2>1, <3>2 DEF k
    <3>4. o + Len(s) <= Len(given) /\ input' = remove_prefix(given, o + Len(s))
      <4>1. Len(s) \in 0 .. Len(given) - o /\ o + Len(s) <= Len(given)
        BY <1>1, <2>2, <2>4, <2>5, <2>7
      <4> QED BY <1>1, <2>3, <2>5, <3>2, <4>1, RemovedTwice
    <3>5. ASSUME NEW i \in 1 .. k + 1 PROVE got'[i] = put[i]
      <4>1. CASE i = k + 1
        BY <3>3, <4>1 DEF item
      <4>2. CASE i # k + 1
        <5>1. i \in 1 .. k
          BY <2>1, <4>2
        <5> QED BY <2>3, <3>3, <5>1
      <4> QED BY <4>1, <4>2
    <3>6. k + 1 <= Len(put)
      BY <1>1, <2>1
    <3>7. Reading(off)'
      BY <1>3, <2>3, <2>4, <3>2, <3>3, <3>4, <3>5, <3>6 DEF Reading
    <3>8. \E x : Layout(x)' /\ Reading(x)'
      BY <1>5, <3>7, Zenon
    <3> QED BY <3>8 DEF RInv
  <2>8. CASE ~(Len(s) <= Len(input))
    <3>1. \E n : GivesUp(n)
      BY <1>2, <2>1, <2>6, <2>8 DEF Exact, s
    <3>2. phase' = "failed" /\ got' = got
      BY <3>1 DEF GivesUp
    <3>3. Len(given) < Len(dst)
      BY <1>1, <2>2, <2>4, <2>5, <2>8
    <3>4. Len(got') = k /\ \A i \in 1 .. k : got'[i] = put[i]
      BY <2>3, <3>2 DEF k
    <3>5. k <= Len(put)
      BY <1>1, <2>1
    <3>6. Reading(off)'
      BY <1>3, <2>1, <2>3, <3>2, <3>3, <3>4, <3>5 DEF Reading
    <3>7. \E x : Layout(x)' /\ Reading(x)'
      BY <1>5, <3>6, Zenon
    <3> QED BY <3>7 DEF RInv
  <2> QED BY <2>7, <2>8
<1> QED BY <1>6, <1>7

\* So no step spoils it.
LEMMA NextRInv == ASSUME ShortSlices, IInv, RInv, [Next]_vars PROVE RInv'
<1>1. CASE UNCHANGED vars
  BY <1>1 DEF vars, RInv, Layout, Reading
<1> QED BY <1>1, NextIs, PutRInv, DeliverRInv, GetRInv

\* So the reader of a writer's string stands at an item.
LEMMA Reader == ASSUME ShortSlices PROVE Spec => [](IInv /\ RInv)
<1>1. RInv /\ IInv /\ [Next]_vars => RInv'
  BY NextRInv
<1> QED BY <1>1, InitRInv, InitIInv, NextIInv, PTL DEF Spec

\* The Put and the Get routines together: on machines of whatever byte orders the
\* reader gets what was written, in order, and nothing else.
THEOREM GetsWhatWasPut == ASSUME ShortSlices PROVE Spec => []RoundTrip
<1>1. IInv /\ RInv => RoundTrip
  <2> SUFFICES ASSUME IInv, RInv, put # <<>> PROVE IsPrefix(got, put)
    BY DEF RoundTrip
  <2> DEFINE l == Len(got)
  <2>1. put \in Seq(Items) /\ got \in Seq(Items) /\ l \in Nat /\ Len(put) \in Nat
    BY DEF IInv
  <2>2. PICK off : Layout(off) /\ Reading(off)
    BY DEF RInv
  <2>3. l <= Len(put) /\ \A i \in 1 .. l : got[i] = put[i]
    <3>1. CASE phase = "write"
      <4>1. l = 0
        BY <3>1 DEF IInv
      <4> QED BY <2>1, <4>1
    <3>2. CASE phase # "write"
      <4>1. Len(put) # 0
        BY <2>1
      <4> QED BY <2>2, <3>2, <4>1 DEF Reading
    <3> QED BY <3>1, <3>2
  <2> HIDE DEF l
  <2>4. /\ SubSeq(got, 1, l) \in Seq(Items) /\ Len(SubSeq(got, 1, l)) = l
        /\ \A i \in 1 .. l : SubSeq(got, 1, l)[i] = got[i]
    BY <2>1 DEF l
  <2>5. /\ SubSeq(put, 1, l) \in Seq(Items) /\ Len(SubSeq(put, 1, l)) = l
        /\ \A i \in 1 .. l : SubSeq(put, 1, l)[i] = put[i]
    BY <2>1, <2>3
  <2>6. SubSeq(got, 1, l) = SubSeq(put, 1, l)
    BY <2>3, <2>4, <2>5, SeqEqual
  <2> QED BY <2>3, <2>6 DEF IsPrefix, l
<1> QED BY <1>1, Reader, PTL

\* The Get routines: they fail on a string that was cut, and only on one; and a
\* reader who has everything stands at the end of a whole string.
THEOREM FailsIfCut == ASSUME ShortSlices PROVE Spec => []FailsOnlyIfCut
<1>1. IInv /\ RInv => FailsOnlyIfCut
  <2> SUFFICES ASSUME IInv, RInv, put # <<>>, phase # "write"
               PROVE  /\ phase = "failed" => given # dst
                      /\ got = put => given = dst /\ input = <<>>
    BY DEF FailsOnlyIfCut
  <2>1. /\ put \in Seq(Items) /\ Len(put) \in Nat /\ given \in Bytes /\ dst \in Bytes
        /\ Len(given) \in Nat /\ Len(dst) \in Nat /\ input \in Bytes
        /\ phase \in {"read", "failed"} /\ Len(put) # 0
    BY DEF IInv, Bytes
  <2>2. PICK off : Layout(off) /\ Reading(off)
    BY DEF RInv
  <2>3. /\ Len(given) <= Len(dst) /\ \A i \in 1 .. Len(given) : given[i] = dst[i]
        /\ phase = "read" => off[Len(got)] <= Len(given) /\ input = remove_prefix(given, off[Len(got)])
        /\ phase = "failed" => Len(given) < Len(dst) /\ Len(got) < Len(put)
    BY <2>1, <2>2 DEF Reading
  <2>4. ASSUME phase = "failed" PROVE given # dst
    BY <2>1, <2>3, <2>4
  <2>5. ASSUME got = put PROVE given = dst /\ input = <<>>
    <3>1. phase = "read"
      BY <2>1, <2>3, <2>5
    <3>2. off[Len(got)] = Len(dst)
      BY <2>2, <2>5 DEF Layout
    <3>3. Len(dst) <= Len(given) /\ input = remove_prefix(given, Len(dst))
      BY <2>3, <3>1, <3>2
    <3>4. Len(given) = Len(dst)
      BY <2>1, <2>3, <3>3
    <3>5. given = dst
      BY <2>1, <2>3, <3>4, SeqEqual DEF Bytes
    <3>6. Len(input) = 0
      <4>1. Len(given) \in 0 .. Len(given)
        BY <2>1
      <4>2. Len(input) = Len(given) - Len(given)
        BY <2>1, <3>3, <3>4, <4>1, Removed
      <4> QED BY <2>1, <4>2
    <3>7. input = <<>>
      BY <2>1, <3>6 DEF Bytes
    <3> QED BY <3>5, <3>7
  <2> QED BY <2>4, <2>5
<1> QED BY <1>1, Reader, PTL

\* VarintLength and the Put routines: what a caller reserves is what is written.
THEOREM LengthsAgreed == ASSUME ShortSlices PROVE Spec => []LengthsAgree
<1>1. IInv => LengthsAgree
  <2>0. SUFFICES ASSUME NEW item \in Items, Short(item)
                 PROVE  Len(Encoding(item)) =
                          CASE item.kind = "fixed32" -> W32
                            [] item.kind = "fixed64" -> W64
                            [] item.kind = "slice"   -> VarintLength(Len(item.val)) + Len(item.val)
                            [] OTHER                 -> VarintLength(item.val)
    <3> SUFFICES ASSUME IInv PROVE \A i \in DOMAIN put : put[i] \in Items /\ Short(put[i])
      BY DEF LengthsAgree
    <3>1. put \in Seq(Items)
      BY DEF IInv
    <3>2. \A i \in 1 .. Len(put) : put[i] \in Items /\ Short(put[i])
      BY ShortPut
    <3> QED BY <3>1, <3>2
  <2>1. Encoding(item) = Written(item)
    BY WrittenIs
  <2>2. Lim32 \in Nat \ {0} /\ Lim64 \in Nat \ {0} /\ W32 \in Nat /\ W64 \in Nat
    BY Limits
  <2>3. CASE item.kind = "fixed32"
    <3>1. item.val \in Nat
      BY <2>2, <2>3, Kinds
    <3> QED BY <2>1, <2>2, <2>3, <3>1, FixedIs DEF Written
  <2>4. CASE item.kind = "fixed64"
    <3>1. item.val \in Nat
      BY <2>2, <2>4, Kinds
    <3> QED BY <2>1, <2>2, <2>4, <3>1, FixedIs DEF Written
  <2>5. CASE item.kind \in {"varint32", "varint64"}
    <3>1. item.val \in Nat
      BY <2>2, <2>5, Kinds
    <3>2. Len(Varint(item.val)) = VarintLength(item.val)
      BY <3>1, VarintIs, VarintLengthIsSize
    <3> QED BY <2>1, <2>5, <3>2 DEF Written
  <2>6. CASE item.kind = "slice"
    <3> DEFINE x == item.val  n == Len(x)
    <3>1. x \in Bytes /\ n \in Nat /\ n < Lim32
      <4>1. x \in Bytes
        BY <2>6, Kinds
      <4>2. n < Lim32
        BY <2>0, <2>6 DEF Short
      <4>3. n \in Nat
        BY <4>1 DEF Bytes
      <4> QED BY <4>1, <4>2, <4>3
    <3>2. n % Lim32 = n
      <4>1. n \in 0 .. Lim32 - 1
        BY <2>2, <3>1
      <4> QED BY <2>2, <4>1, OwnRemainder
    <3>3. Written(item) = Varint(n) \o x
      BY <2>6, <3>2 DEF Written
    <3> HIDE DEF x
    <3>4. Varint(n) \in Bytes /\ Len(Varint(n)) = VarintLength(n)
      BY <3>1, VarintIs, VarintLengthIsSize
    <3>5. Len(Varint(n) \o x) = Len(Varint(n)) + n
      BY <3>1, <3>4, ConcatProperties DEF Bytes
    <3> QED BY <2>1, <2>6, <3>3, <3>4, <3>5 DEF x
  <2> QED BY <2>3, <2>4, <2>5, <2>6, Kinds
<1> QED BY <1>1, Invariance, PTL

-----------------------------------------------------------------------------
(* Comparisons.                                                            *)

\* What r tells of the first n bytes: no difference, or the first.
Alike(x, y, n, r) == r = 0 /\ \A i \in 1 .. n : x[i] = y[i]
Unlike(x, y, n, r) ==
  \E k \in 1 .. n : /\ x[k] # y[k] /\ \A i \in 1 .. k - 1 : x[i] = y[i]
                    /\ r = IF x[k] < y[k] THEN -1 ELSE 1

\* memcmp() tells just this.
LEMMA MemcmpIs ==
  ASSUME NEW x, NEW y, NEW n \in Nat
  PROVE  Alike(x, y, n, memcmp(x, y, n)) \/ Unlike(x, y, n, memcmp(x, y, n))
<1> DEFINE differ == {i \in 1 .. n : x[i] # y[i]}
           c == CHOOSE i \in differ : \A j \in differ : i <= j
<1>1. memcmp(x, y, n) = IF differ = {} THEN 0 ELSE IF x[c] < y[c] THEN -1 ELSE 1
  BY DEF memcmp
<1>2. CASE differ = {}
  BY <1>1, <1>2 DEF Alike
<1>3. CASE differ # {}
  <2>1. \E i \in differ : \A j \in differ : i <= j
    <3>1. differ \in SUBSET Nat
      OBVIOUS
    <3> HIDE DEF differ
    <3> QED BY <1>3, <3>1, Least
  <2>2. c \in differ /\ \A j \in differ : c <= j
    <3> HIDE DEF differ
    <3> QED BY <2>1
  <2> HIDE DEF c
  <2>3. c \in 1 .. n /\ x[c] # y[c]
    BY <2>2
  <2>4. \A i \in 1 .. c - 1 : x[i] = y[i]
    <3> SUFFICES ASSUME NEW i \in 1 .. c - 1 PROVE x[i] = y[i]
      OBVIOUS
    <3>1. i \in 1 .. n /\ ~(c <= i)
      BY <2>3
    <3> QED BY <2>2, <3>1
  <2> HIDE DEF differ
  <2> QED BY <1>1, <1>3, <2>3, <2>4 DEF Unlike
<1> QED BY <1>2, <1>3

\* The order of the dictionary is decided where two strings differ first...
LEMMA FirstDifference ==
  ASSUME NEW x \in Seq(Nat), NEW y \in Seq(Nat), NEW k \in 1 .. Len(x), k \in 1 .. Len(y),
         x[k] # y[k], \A i \in 1 .. k - 1 : x[i] = y[i]
  PROVE  Before(x, y) <=> x[k] < y[k]
<1>1. /\ Len(x) \in Nat /\ Len(y) \in Nat
      /\ (\A i \in 1 .. Len(x) : x[i] \in Nat) /\ \A i \in 1 .. Len(y) : y[i] \in Nat
  OBVIOUS
<1>2. ASSUME x[k] < y[k] PROVE Before(x, y)
  <2>1. k - 1 \in 0 .. Len(x) /\ k - 1 < Len(y) /\ (k - 1) + 1 = k
    BY <1>1
  <2> QED BY <1>2, <2>1 DEF Before
<1>3. ASSUME Before(x, y) PROVE x[k] < y[k]
  <2>1. PICK j \in 0 .. Len(x) : /\ j < Len(y) /\ \A i \in 1 .. j : x[i] = y[i]
                                 /\ j < Len(x) => x[j + 1] < y[j + 1]
    BY <1>3 DEF Before
  <2>2. ~(k \in 1 .. j)
    BY <2>1
  <2>3. j < k /\ j < Len(x) /\ j + 1 \in 1 .. Len(x) /\ j + 1 \in 1 .. Len(y)
    BY <1>1, <2>1, <2>2
  <2>4. x[j + 1] < y[j + 1] /\ x[j + 1] \in Nat /\ y[j + 1] \in Nat
    BY <1>1, <2>1, <2>3
  <2>5. ~(j + 1 \in 1 .. k - 1)
    BY <2>4
  <2>6. j + 1 = k
    BY <1>1, <2>3, <2>5
  <2> QED BY <2>4, <2>6
<1> QED BY <1>2, <1>3

\* ...or by their lengths.
LEMMA NoDifference ==
  ASSUME NEW x \in Seq(Nat), NEW y \in Seq(Nat),
         \A i \in Nat \ {0} : i <= Len(x) /\ i <= Len(y) => x[i] = y[i]
  PROVE  Before(x, y) <=> Len(x) < Len(y)
<1>1. /\ Len(x) \in Nat /\ Len(y) \in Nat
      /\ (\A i \in 1 .. Len(x) : x[i] \in Nat) /\ \A i \in 1 .. Len(y) : y[i] \in Nat
  OBVIOUS
<1>2. ASSUME Len(x) < Len(y) PROVE Before(x, y)
  <2>1. Len(x) \in 0 .. Len(x) /\ \A i \in 1 .. Len(x) : x[i] = y[i]
    BY <1>1, <1>2
  <2> QED BY <1>1, <1>2, <2>1 DEF Before
<1>3. ASSUME Before(x, y), ~(Len(x) < Len(y)) PROVE FALSE
  <2>1. PICK j \in 0 .. Len(x) : j < Len(y) /\ (j < Len(x) => x[j + 1] < y[j + 1])
    BY <1>3 DEF Before
  <2>2. j < Len(x) /\ j + 1 \in Nat \ {0} /\ j + 1 <= Len(x) /\ j + 1 <= Len(y)
        /\ j + 1 \in 1 .. Len(x)
    BY <1>1, <1>3, <2>1
  <2>3. x[j + 1] = y[j + 1] /\ x[j + 1] < y[j + 1] /\ x[j + 1] \in Nat
    BY <1>1, <2>1, <2>2
  <2> QED BY <2>3
<1> QED BY <1>2, <1>3

\* A size that an int can hold.
LEMMA IntHolds == ASSUME NEW n \in Nat, n < IntLim PROVE AsInt(n) = n
<1>1. IntLim \in Nat \ {0}
  BY IntAssumption
<1>2. 2 * IntLim \in Nat \ {0} /\ n + IntLim \in 0 .. (2 * IntLim) - 1
  BY <1>1
<1>3. (n + IntLim) % (2 * IntLim) = n + IntLim
  BY <1>2, OwnRemainder
<1> QED BY <1>1, <1>3 DEF AsInt

\* compare() is the order of the dictionary.
LEMMA CompareIs ==
  ASSUME NEW x \in Seq(Nat), NEW y \in Seq(Nat), Len(x) < IntLim \/ Len(y) < IntLim
  PROVE  compare(x, y) = {IF Before(x, y) THEN -1 ELSE IF Before(y, x) THEN 1 ELSE 0}
<1> DEFINE m == IF Len(x) < Len(y) THEN Len(x) ELSE Len(y)
           r == memcmp(x, y, m)
<1>1. /\ Len(x) \in Nat /\ Len(y) \in Nat /\ IntLim \in Nat
      /\ (\A i \in 1 .. Len(x) : x[i] \in Nat) /\ \A i \in 1 .. Len(y) : y[i] \in Nat
  BY IntAssumption
<1>2. m \in Nat /\ m <= Len(x) /\ m <= Len(y) /\ m < IntLim /\ (m = Len(x) \/ m = Len(y))
  BY <1>1
<1>3. AsInt(m) = m
  BY <1>2, IntHolds
<1>4. compare(x, y) = IF r # 0 THEN {r}
                      ELSE IF Len(x) < Len(y) THEN {-1}
                      ELSE IF Len(x) > Len(y) THEN {1} ELSE {0}
  <2>1. ~(m < 0)
    BY <1>2
  <2> QED BY <1>3, <2>1 DEF compare
<1> HIDE DEF m
<1>5. CASE Alike(x, y, m, r)
  <2>0. r = 0 /\ \A i \in 1 .. m : x[i] = y[i]
    BY <1>5 DEF Alike
  <2>1. \A i \in Nat \ {0} : i <= Len(x) /\ i <= Len(y) => x[i] = y[i]
    <3> SUFFICES ASSUME NEW i \in Nat \ {0}, i <= Len(x), i <= Len(y) PROVE x[i] = y[i]
      OBVIOUS
    <3>1. i \in 1 .. m
      BY <1>1, <1>2
    <3> QED BY <2>0, <3>1
  <2>2. Before(x, y) <=> Len(x) < Len(y)
    BY <2>1, NoDifference
  <2>3. Before(y, x) <=> Len(y) < Len(x)
    BY <2>1, NoDifference
  <2> HIDE DEF r
  <2> QED BY <1>1, <1>4, <2>0, <2>2, <2>3
<1>6. CASE Unlike(x, y, m, r)
  <2> HIDE DEF r
  <2>1. PICK k \in 1 .. m : /\ x[k] # y[k] /\ \A i \in 1 .. k - 1 : x[i] = y[i]
                            /\ r = IF x[k] < y[k] THEN -1 ELSE 1
    BY <1>6 DEF Unlike
  <2>2. k \in 1 .. Len(x) /\ k \in 1 .. Len(y) /\ x[k] \in Nat /\ y[k] \in Nat
    <3>1. k \in 1 .. Len(x) /\ k \in 1 .. Len(y)
      BY <1>1, <1>2
    <3> QED BY <1>1, <3>1
  <2>3. Before(x, y) <=> x[k] < y[k]
    BY <2>1, <2>2, FirstDifference
  <2>4. Before(y, x) <=> y[k] < x[k]
    BY <2>1, <2>2, FirstDifference
  <2>5. CASE x[k] < y[k]
    BY <1>4, <2>1, <2>3, <2>5
  <2>6. CASE y[k] < x[k]
    <3>1. ~(x[k] < y[k])
      BY <2>2, <2>6
    <3> QED BY <1>4, <2>1, <2>3, <2>4, <2>6, <3>1
  <2> QED BY <2>1, <2>2, <2>5, <2>6
<1> QED BY <1>2, <1>5, <1>6, MemcmpIs

\* The bytes are the same.
LEMMA MemcmpZero ==
  ASSUME NEW x, NEW y, NEW n \in Nat
  PROVE  memcmp(x, y, n) = 0 <=> \A i \in 1 .. n : x[i] = y[i]
<1>1. CASE Alike(x, y, n, memcmp(x, y, n))
  BY <1>1 DEF Alike
<1>2. CASE Unlike(x, y, n, memcmp(x, y, n))
  <2>1. memcmp(x, y, n) # 0
    BY <1>2 DEF Unlike
  <2> QED BY <1>2, <2>1 DEF Unlike
<1> QED BY <1>1, <1>2, MemcmpIs

\* All comparisons of two strings agree.
LEMMA InOrder == ASSUME NEW x \in Bytes, NEW y \in Bytes PROVE Ordered(x, y)
<1>1. /\ x \in Seq(Nat) /\ y \in Seq(Nat) /\ Len(x) \in Nat /\ Len(y) \in Nat
      /\ x \in Seq(0 .. Byte - 1) /\ y \in Seq(0 .. Byte - 1)
  <2> DEFINE S == 0 .. Byte - 1
  <2>1. x \in Seq(S) /\ y \in Seq(S) /\ S \subseteq Nat
    BY Base DEF Bytes
  <2> HIDE DEF S
  <2>2. \A s \in Seq(S) : s \in Seq(Nat) /\ Len(s) \in Nat
    <3> SUFFICES ASSUME NEW s \in Seq(S) PROVE s \in Seq(Nat) /\ Len(s) \in Nat
      OBVIOUS
    <3>1. Len(s) \in Nat /\ s \in [1 .. Len(s) -> S]
      OBVIOUS
    <3>2. s \in [1 .. Len(s) -> Nat]
      BY <2>1, <3>1
    <3> QED BY <3>1, <3>2
  <2> QED BY <2>1, <2>2 DEF S
<1> DEFINE d == Len(x) - Len(y)
           Starts == Len(x) >= Len(y) /\ \A i \in 1 .. Len(y) : x[i] = y[i]
           Ends == Len(x) >= Len(y) /\ \A i \in 1 .. Len(y) : x[d + i] = y[i]
<1>2. Equals(x, y) <=> x = y
  <2>1. Equals(x, y) <=> Len(x) = Len(y) /\ \A i \in 1 .. Len(y) : x[i] = y[i]
    BY <1>1, MemcmpZero DEF Equals
  <2> QED BY <1>1, <2>1, SeqEqual
<1>3. starts_with(x, y) <=> Starts
  BY <1>1, MemcmpZero DEF starts_with
<1>4. Starts <=> \E n \in 0 .. Len(x) : remove_suffix(x, n) = y
  <2>1. \A n \in 0 .. Len(x) :
          LET s == remove_suffix(x, n)
          IN  s \in Bytes /\ Len(s) = Len(x) - n /\ \A i \in 1 .. Len(x) - n : s[i] = x[i]
    <3> SUFFICES ASSUME NEW n \in 0 .. Len(x)
                 PROVE  LET s == remove_suffix(x, n)
                        IN  s \in Bytes /\ Len(s) = Len(x) - n /\ \A i \in 1 .. Len(x) - n : s[i] = x[i]
      OBVIOUS
    <3>1. Len(x) - n \in 0 .. Len(x)
      BY <1>1
    <3> QED BY <3>1, Removed DEF remove_suffix
  <2>2. ASSUME Starts PROVE \E n \in 0 .. Len(x) : remove_suffix(x, n) = y
    <3> DEFINE s == remove_suffix(x, d)
    <3>1. d \in 0 .. Len(x) /\ Len(x) - d = Len(y)
      BY <1>1, <2>2
    <3>2. s \in Bytes /\ Len(s) = Len(y) /\ \A i \in 1 .. Len(y) : s[i] = x[i]
      BY <2>1, <3>1
    <3> HIDE DEF s
    <3>3. s = y
      BY <1>1, <2>2, <3>2, SeqEqual DEF Bytes
    <3> QED BY <3>1, <3>3 DEF s
  <2>3. ASSUME NEW n \in 0 .. Len(x), remove_suffix(x, n) = y PROVE Starts
    <3>1. Len(y) = Len(x) - n /\ \A i \in 1 .. Len(x) - n : y[i] = x[i]
      BY <2>1, <2>3
    <3> QED BY <1>1, <3>1
  <2> QED BY <2>2, <2>3
<1>5. ends_with(x, y) <=> Ends
  <2>1. CASE Len(x) >= Len(y)
    <3>1. d \in 0 .. Len(x) /\ Len(x) - d = Len(y)
      BY <1>1, <2>1
    <3> DEFINE s == remove_prefix(x, d)
    <3>2. \A i \in 1 .. Len(y) : s[i] = x[d + i]
      <4> HIDE DEF d
      <4>1. \A i \in 1 .. Len(x) - d : s[i] = x[d + i]
        BY <3>1, Removed
      <4> QED BY <3>1, <4>1
    <3> HIDE DEF s
    <3>3. memcmp(s, y, Len(y)) = 0 <=> \A i \in 1 .. Len(y) : s[i] = y[i]
      BY <1>1, MemcmpZero
    <3>4. ends_with(x, y) <=> memcmp(s, y, Len(y)) = 0
      BY <2>1 DEF ends_with, s
    <3> HIDE DEF d
    <3> QED BY <2>1, <3>2, <3>3, <3>4
  <2>2. CASE ~(Len(x) >= Len(y))
    BY <2>2 DEF ends_with
  <2> QED BY <2>1, <2>2
<1>6. Ends <=> \E n \in 0 .. Len(x) : remove_prefix(x, n) = y
  <2>1. \A n \in 0 .. Len(x) :
          LET s == remove_prefix(x, n)
          IN  s \in Bytes /\ Len(s) = Len(x) - n /\ \A i \in 1 .. Len(x) - n : s[i] = x[n + i]
    BY Removed
  <2>2. ASSUME Ends PROVE \E n \in 0 .. Len(x) : remove_prefix(x, n) = y
    <3> DEFINE s == remove_prefix(x, d)
    <3>1. d \in 0 .. Len(x) /\ Len(x) - d = Len(y)
      BY <1>1, <2>2
    <3>2. s \in Bytes /\ Len(s) = Len(y) /\ \A i \in 1 .. Len(y) : s[i] = x[d + i]
      BY <2>1, <3>1
    <3> HIDE DEF s
    <3>3. s = y
      BY <1>1, <2>2, <3>2, SeqEqual DEF Bytes
    <3> QED BY <3>1, <3>3 DEF s
  <2>3. ASSUME NEW n \in 0 .. Len(x), remove_prefix(x, n) = y PROVE Ends
    <3>1. Len(y) = Len(x) - n /\ \A i \in 1 .. Len(x) - n : y[i] = x[n + i]
      BY <2>1, <2>3
    <3>2. d = n /\ Len(x) >= Len(y)
      BY <1>1, <3>1
    <3> QED BY <3>1, <3>2
  <2> QED BY <2>2, <2>3
<1>7. ASSUME Starts, y # <<>> PROVE At(x, Len(y) - 1) = At(y, -1)
  <2>1. Len(y) # 0 /\ Len(y) \in 1 .. Len(y)
    BY <1>1, <1>7
  <2>2. At(x, Len(y) - 1) = x[Len(y)]
    <3>1. ~(Len(y) - 1 < 0) /\ (Len(y) - 1) + 1 = Len(y)
      BY <1>1, <2>1
    <3> QED BY <3>1 DEF At
  <2>3. At(y, -1) = y[Len(y)]
    <3>1. -1 < 0 /\ (-1 + Len(y)) + 1 = Len(y)
      BY <1>1
    <3> QED BY <3>1 DEF At
  <2> QED BY <1>7, <2>1, <2>2, <2>3
<1> HIDE DEF Starts, Ends
<1> QED BY <1>1, <1>2, <1>3, <1>4, <1>5, <1>6, <1>7, CompareIs DEF Ordered

\* Slice: compare() is the order of the dictionary, and == , starts_with and
\* ends_with agree with it, whatever is parsed and whatever is left.
THEOREM OrderedAsStrings == Spec => []SlicesOrdered
<1>1. IInv => SlicesOrdered
  <2> SUFFICES ASSUME IInv, NEW s \in {given, dst} \cup Slices
               PROVE  Ordered(input, s) /\ Ordered(s, input)
    BY DEF SlicesOrdered
  <2>1. input \in Bytes /\ s \in Bytes
    BY BoundsAssumption DEF IInv, Bytes
  <2> QED BY <2>1, InOrder
<1> QED BY <1>1, Invariance, PTL
===============================================================================
