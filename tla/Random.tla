------------------------------- MODULE Random -------------------------------
(***************************************************************************)
(* Random (c2_random.h): seed_ * A modulo M without a division, and the    *)
(* calls that the tests and the benchmark make on it.  In the code M is    *)
(* 2^31 - 1 and A is 16807; here they are parameters, M + 1 being the      *)
(* power of two by which the code shifts, and 2 * (M + 1) the number of    *)
(* values of a uint32_t.                                                   *)
(***************************************************************************)
EXTENDS Naturals

CONSTANTS M, A

\* M is a prime that does not divide A: no product of theirs is a multiple of M.
ASSUME ParametersAssumption ==
  /\ M \in Nat \ {0, 1} /\ A \in 1 .. M
  /\ \A s \in 1 .. M - 1 : (s * A) % M # 0

CONSTANTS Limits,       \* bound: the arguments n of Uniform and OneIn
          MaxLogs       \* bound: the arguments max_log of Skewed

\* Skewed shifts an int, whose largest value is M too: no call shifts further.
ASSUME ArgumentsAssumption ==
  /\ Limits \subseteq Nat \ {0}
  /\ MaxLogs \subseteq Nat /\ \A l \in MaxLogs : 2 ^ l <= M

VARIABLES seed,         \* seed_
          ret           \* the last call, its argument and its result

vars == <<seed, ret>>

Shift == M + 1          \* 2^31
Word  == 2 * Shift      \* 2^32

\* Slip: the bad seeds are let through.
ConstructMasked(s) == s % Shift

Construct(s) == LET t == s % Shift IN IF t \in {0, M} THEN 1 ELSE t

\* Slip: the first reduction is taken for the whole.
ReducedOnce(s) == LET product == s * A
                  IN  ((product \div Shift) + (product % Shift)) % Word

\* The seed after Next(): the product reduced twice, in a uint32_t.
NextSeed(s) ==
  LET product == s * A
      once    == ((product \div Shift) + (product % Shift)) % Word
  IN  IF once > M THEN once - M ELSE once

Init ==
  /\ \E s \in 0 .. Word - 1 : seed = Construct(s)
  /\ ret = [op |-> "Random", arg |-> 0, val |-> 0]

Returns(op, arg, val) == ret' = [op |-> op, arg |-> arg, val |-> val]

CallNext ==
  /\ seed' = NextSeed(seed)
  /\ Returns("Next", 0, seed')

\* Next() modulo n.
CallUniform(n) ==
  /\ seed' = NextSeed(seed)
  /\ Returns("Uniform", n, seed' % n)

\* Slip: the exponent is one too large.
CallSkewedWide(l) ==
  /\ seed' = NextSeed(NextSeed(seed))
  /\ Returns("Skewed", l, seed' % 2 ^ (1 + (NextSeed(seed) % (l + 1))))

\* Uniform(1 << Uniform(max_log + 1)): two draws, the inner one first.
CallSkewed(l) ==
  /\ seed' = NextSeed(NextSeed(seed))
  /\ Returns("Skewed", l, seed' % 2 ^ (NextSeed(seed) % (l + 1)))

CallOneIn(n) ==
  /\ seed' = NextSeed(seed)
  /\ Returns("OneIn", n, IF seed' % n = 0 THEN 1 ELSE 0)

\* Two draws, the first in the low word.
CallNext64 ==
  /\ seed' = NextSeed(NextSeed(seed))
  /\ Returns("Next64", 0, NextSeed(seed) + Word * seed')

Next ==
  \/ CallNext \/ CallNext64
  \/ \E n \in Limits : CallUniform(n) \/ CallOneIn(n)
  \/ \E l \in MaxLogs : CallSkewed(l)

Spec == Init /\ [][Next]_vars

-----------------------------------------------------------------------------
(* Properties.                                                             *)

\* "seed_ must not be zero or M": it never becomes one of them, whatever seed
\* the generator is given, "mod == M is not possible", and no sum of the
\* reduction is cut by the 32 bits of seed_.
SeedInRange ==
  /\ seed \in 1 .. M - 1
  /\ ((seed * A) \div Shift) + ((seed * A) % Shift) < Word

\* "We are computing seed_ = (seed_ * A) % M": the two reductions do.
ComputesModulo == [][ret'.op = "Next" => seed' = (seed * A) % M]_vars

\* "seed_ will end up cycling through every number in [1,M-1]".
Draws(s) == LET d[k \in 0 .. M - 1] == IF k = 0 THEN s ELSE NextSeed(d[k - 1]) IN d
CyclesThroughAll == {Draws(seed)[k] : k \in 1 .. M - 1} = 1 .. M - 1

\* The histograms of c2_random_test.cc are indexed inside their bounds: Skewed is
\* "in the range [0,2^max_log-1]", Uniform in [0..n-1], and Next() times n over
\* INT32_MAX, rounded down, is below n as well.
DrawsInRange ==
  /\ ret.op = "Next" => \A n \in Limits : (n * ret.val) \div M < n
  /\ ret.op = "Skewed" => ret.val < 2 ^ ret.arg
  /\ ret.op = "Uniform" => ret.val < ret.arg
=============================================================================
