------------------------- MODULE IndexPrograms_proofs -------------------------
(***************************************************************************)
(* Proofs about Harness, for any files, tests and patterns, and about      *)
(* IndexPrograms, for any tests, keys, thresholds and bins.  What is shown *)
(* of the harness holds of the programs, whose every step is one of the    *)
(* harness or leaves it alone; the benchmarks have an invariant of their   *)
(* own.                                                                    *)
(***************************************************************************)
EXTENDS IndexPrograms, FiniteSetTheorems, WellFoundedInduction, TLAPS

-----------------------------------------------------------------------------
(* The harness.                                                            *)

\* The vector holds what has been registered, each file's tests in their order.
Registration ==
  /\ allocated <=> Len(tests) > 0
  /\ \A f \in Files, n \in Nat :
       n \in 1 .. registered[f] => \E j \in 1 .. Len(tests) : tests[j] = <<f, n>>
  /\ \A j \in 1 .. Len(tests) : tests[j][2] <= registered[tests[j][1]]
  /\ \A j, k \in 1 .. Len(tests) :
       j < k /\ tests[j][1] = tests[k][1] => tests[j][2] < tests[k][2]
  /\ phase # "static" => registered = NumTests

Increasing == \A j, k \in 1 .. Len(began) : j < k => began[j] < began[k]

\* Where RunAllTests is.
Progress ==
  /\ num < i
  /\ phase = "static" => i = 1 /\ num = 0 /\ Len(began) = 0
  /\ phase \in {"static", "loop"} =>
       /\ num = Len(began)
       /\ Begun = {j \in 1 .. i - 1 : Selected(tests[j])}
  /\ phase = "test" =>
       /\ i <= Len(tests) /\ num + 1 = Len(began)
       /\ Begun = {j \in 1 .. i : Selected(tests[j])}
  /\ phase \in {"loop", "test"} => ~bench
  /\ phase = "bench" => bench
  /\ phase # "exited" => code = -1 /\ ~failed

IInv == TypeOK /\ Registration /\ Increasing /\ Progress /\ ExitTellsVerdict

-----------------------------------------------------------------------------
(* Lemmas.                                                                 *)

LEMMA TestIsPair ==
  ASSUME NEW t \in AllTests
  PROVE  /\ t[1] \in Files /\ t[2] \in 1 .. NumTests[t[1]] /\ t[2] \in Nat
         /\ t = <<t[1], t[2]>>
<1>1. PICK f \in Files : t \in {f} \X (1 .. NumTests[f])
  BY DEF AllTests
<1> QED BY <1>1, HarnessAssumption

LEMMA PairIsTest ==
  ASSUME NEW f \in Files, NEW n \in 1 .. NumTests[f]
  PROVE  <<f, n>> \in AllTests
<1>1. <<f, n>> \in {f} \X (1 .. NumTests[f])
  OBVIOUS
<1> QED BY <1>1 DEF AllTests

\* What a test registered, or begun, adds to a sequence.
LEMMA AppendElements ==
  ASSUME NEW S, NEW s \in Seq(S), NEW e \in S
  PROVE  /\ Append(s, e) \in Seq(S)
         /\ Len(Append(s, e)) = Len(s) + 1 /\ Len(s) \in Nat
         /\ \A j \in 1 .. Len(s) : Append(s, e)[j] = s[j]
         /\ Append(s, e)[Len(s) + 1] = e
<1> QED OBVIOUS

-----------------------------------------------------------------------------
LEMMA InitIInv == Init => IInv
<1> SUFFICES ASSUME Init PROVE IInv
  OBVIOUS
<1> USE DEF Init
<1>1. /\ tests \in Seq(AllTests) /\ Len(tests) = 0
      /\ began \in Seq(1 .. Len(tests)) /\ Len(began) = 0
  OBVIOUS
<1>2. TypeOK
  <2>1. registered \in [Files -> Nat] /\ \A f \in Files : registered[f] <= NumTests[f]
    BY HarnessAssumption
  <2>2. i \in 1 .. Len(tests) + 1 /\ num \in 0 .. Len(tests) /\ left \in 0 .. MaxAsserts
    BY <1>1, HarnessAssumption
  <2> QED BY <1>1, <2>1, <2>2 DEF TypeOK
<1>3. Registration /\ Increasing
  BY <1>1 DEF Registration, Increasing
<1>4. Begun = {}
  BY <1>1 DEF Begun
<1>5. Progress /\ ExitTellsVerdict
  BY <1>1, <1>4 DEF Progress, ExitTellsVerdict
<1> QED BY <1>2, <1>3, <1>5 DEF IInv

LEMMA StepRegister ==
  ASSUME IInv, NEW f \in Files, RegisterTest(f)
  PROVE  IInv'
<1> DEFINE n == registered[f] + 1
<1>1. /\ registered \in [Files -> Nat] /\ registered[f] \in Nat /\ registered[f] < NumTests[f]
      /\ NumTests[f] \in Nat /\ \A g \in Files : registered[g] <= NumTests[g] /\ NumTests[g] \in Nat
      /\ tests \in Seq(AllTests) /\ phase = "static"
  BY HarnessAssumption DEF IInv, TypeOK, RegisterTest, Turn
<1>2. n \in 1 .. NumTests[f] /\ n \in Nat /\ <<f, n>> \in AllTests
  BY <1>1, PairIsTest
<1>3. registered' = [registered EXCEPT ![f] = n] /\ registered'[f] = n
  BY <1>1 DEF RegisterTest
<1>4. tests' = Append(tests, <<f, n>>)
  <2>1. CASE allocated
    BY <2>1, <1>3 DEF RegisterTest
  <2>2. CASE ~allocated
    <3>1. Len(tests) = 0
      BY <1>1, <2>2 DEF IInv, Registration
    <3>2. tests = <<>>
      BY <1>1, <3>1
    <3> QED BY <1>3, <2>2, <3>2 DEF RegisterTest
  <2> QED BY <2>1, <2>2
<1>5. /\ tests' \in Seq(AllTests) /\ Len(tests) \in Nat /\ Len(tests') = Len(tests) + 1
      /\ \A j \in 1 .. Len(tests) : tests'[j] = tests[j]
      /\ tests'[Len(tests) + 1] = <<f, n>>
  BY <1>1, <1>2, <1>4, AppendElements
<1>6. UNCHANGED <<C2_TESTS, TESTS, bench, phase, i, num, left, began, failed, code>> /\ allocated'
  BY DEF RegisterTest
<1>7. /\ i = 1 /\ num = 0 /\ Len(began) = 0 /\ code = -1 /\ ~failed
      /\ began \in Seq(1 .. Len(tests))
  BY <1>1 DEF IInv, Progress, TypeOK
<1>8. began' = <<>> /\ Len(began') = 0 /\ began' \in Seq(1 .. Len(tests'))
  BY <1>6, <1>7
<1>9. TypeOK'
  <2>1. registered' \in [Files -> Nat] /\ \A g \in Files : registered'[g] <= NumTests[g]
    BY <1>1, <1>2, <1>3
  <2>2. i' \in 1 .. Len(tests') + 1 /\ num' \in 0 .. Len(tests')
    BY <1>5, <1>6, <1>7
  <2>3. Variables' = Variables
    OBVIOUS
  <2> QED BY <1>5, <1>6, <1>8, <2>1, <2>2, <2>3 DEF IInv, TypeOK
<1>10. Registration'
  <2>1. allocated' <=> Len(tests') > 0
    BY <1>5, <1>6
  <2>2. ASSUME NEW g \in Files, NEW m \in Nat, m \in 1 .. registered'[g]
        PROVE  \E j \in 1 .. Len(tests') : tests'[j] = <<g, m>>
    <3>1. CASE g = f /\ m = n
      BY <1>5, <3>1
    <3>2. CASE ~(g = f /\ m = n)
      <4>1. m \in 1 .. registered[g]
        BY <1>1, <1>3, <2>2, <3>2
      <4>2. PICK j \in 1 .. Len(tests) : tests[j] = <<g, m>>
        BY <4>1 DEF IInv, Registration
      <4> QED BY <1>5, <4>2
    <3> QED BY <3>1, <3>2
  <2>3. \A j \in 1 .. Len(tests) :
          /\ tests[j][1] \in Files /\ tests[j][2] \in Nat
          /\ tests[j][2] <= registered[tests[j][1]]
    BY <1>1, TestIsPair DEF IInv, Registration
  <2>4. ASSUME NEW j \in 1 .. Len(tests')
        PROVE  tests'[j][2] <= registered'[tests'[j][1]]
    <3>1. CASE j = Len(tests) + 1
      BY <1>2, <1>3, <1>5, <3>1
    <3>2. CASE j # Len(tests) + 1
      BY <1>1, <1>3, <1>5, <2>3, <3>2
    <3> QED BY <3>1, <3>2
  <2>5. ASSUME NEW j \in 1 .. Len(tests'), NEW k \in 1 .. Len(tests'), j < k,
               tests'[j][1] = tests'[k][1]
        PROVE  tests'[j][2] < tests'[k][2]
    <3>1. j \in 1 .. Len(tests) /\ tests'[j] = tests[j]
      BY <1>5, <2>5
    <3>2. CASE k = Len(tests) + 1
      BY <1>1, <1>5, <2>3, <2>5, <3>1, <3>2
    <3>3. CASE k # Len(tests) + 1
      BY <1>5, <2>5, <3>1, <3>3 DEF IInv, Registration
    <3> QED BY <3>2, <3>3
  <2> QED BY <1>1, <1>6, <2>1, <2>2, <2>4, <2>5 DEF Registration
<1>11. Begun' = {}
  BY <1>8 DEF Begun
<1>12. Increasing' /\ Progress' /\ ExitTellsVerdict'
  BY <1>1, <1>6, <1>7, <1>8, <1>11 DEF Increasing, Progress, ExitTellsVerdict
<1> QED BY <1>9, <1>10, <1>12 DEF IInv

\* A step of main(), which leaves the vector and the environment alone.
LEMMA StepMain ==
  ASSUME IInv, UNCHANGED <<registered, tests, allocated, C2_TESTS, TESTS, bench>>,
         Main \/ Skip \/ Begin \/ AssertionHolds \/ AssertionFails \/ End \/ Return \/ Benchmark
  PROVE  IInv'
<1>1. /\ Len(tests) \in Nat /\ i \in 1 .. Len(tests) + 1 /\ num \in 0 .. Len(tests)
      /\ began \in Seq(1 .. Len(tests)) /\ Len(began) \in Nat /\ left \in 0 .. MaxAsserts
      /\ MaxAsserts \in Nat
      /\ \A j \in 1 .. Len(began) : began[j] \in 1 .. Len(tests)
  BY HarnessAssumption DEF IInv, TypeOK
<1>2. \A t : Selected(t)' <=> Selected(t)
  BY DEF Selected, matcher
<1>3. Registration'
  <2>1. phase' # "static" => registered = NumTests
    BY DEF IInv, Registration, Main, Skip, Begin, At, AssertionHolds, AssertionFails, End, Return,
       Benchmark
  <2> QED BY <2>1 DEF IInv, Registration
<1>4. SUFFICES /\ i' \in 1 .. Len(tests) + 1 /\ num' \in 0 .. Len(tests)
               /\ left' \in 0 .. MaxAsserts /\ began' \in Seq(1 .. Len(tests))
               /\ phase' \in {"static", "loop", "test", "bench", "exited"}
               /\ failed' \in BOOLEAN /\ code' \in {-1, 0, 1}
               /\ Increasing' /\ Progress' /\ ExitTellsVerdict'
  <2>1. Variables' = Variables
    OBVIOUS
  <2> QED BY <1>3, <2>1 DEF IInv, TypeOK
<1> USE DEF TypeOK, Progress, Exits
<1>5. CASE Main
  BY <1>1, <1>2, <1>5 DEF IInv, Main, Increasing, Begun, ExitTellsVerdict
<1>6. CASE Skip
  <2>1. {j \in 1 .. i' - 1 : Selected(tests[j])} = {j \in 1 .. i - 1 : Selected(tests[j])}
    BY <1>1, <1>6 DEF Skip, At
  <2> QED BY <1>1, <1>2, <1>6, <2>1 DEF IInv, Skip, At, Increasing, Begun, ExitTellsVerdict
<1>7. CASE Begin
  <2>1. /\ began' \in Seq(1 .. Len(tests)) /\ Len(began') = Len(began) + 1
        /\ \A j \in 1 .. Len(began) : began'[j] = began[j]
        /\ began'[Len(began) + 1] = i
    BY <1>1, <1>7, AppendElements DEF Begin, At
  <2>2. Begun' = Begun \cup {i}
    <3> DEFINE L == Len(began)
    <3>1. 1 .. L + 1 = (1 .. L) \cup {L + 1} /\ Len(began') = L + 1
      BY <1>1, <2>1
    <3>2. {began'[j] : j \in 1 .. L + 1} = {began'[j] : j \in 1 .. L} \cup {began'[L + 1]}
      BY <3>1
    <3>3. {began'[j] : j \in 1 .. L} = {began[j] : j \in 1 .. L}
      BY <2>1
    <3> QED BY <2>1, <3>1, <3>2, <3>3 DEF Begun
  <2>3. \A j \in 1 .. Len(began) : began[j] < i
    <3>1. \A j \in 1 .. Len(began) : began[j] \in Begun
      BY DEF Begun
    <3>2. Begun \subseteq 1 .. i - 1
      BY <1>7 DEF IInv, Progress, Begin, At
    <3> QED BY <1>1, <3>1, <3>2
  <2>4. Increasing'
    <3>1. ASSUME NEW j \in 1 .. Len(began'), NEW k \in 1 .. Len(began'), j < k
          PROVE  began'[j] < began'[k]
      <4>1. j \in 1 .. Len(began) /\ began'[j] = began[j]
        <5>1. Len(began') = Len(began) + 1 /\ Len(began) \in Nat
          BY <1>1, <2>1
        <5> HIDE DEF IInv
        <5>2. j \in 1 .. Len(began)
          BY ONLY <3>1, <5>1, j \in 1 .. Len(began'), k \in 1 .. Len(began')
        <5> QED BY <2>1, <5>2
      <4>2. CASE k = Len(began) + 1
        BY <2>1, <2>3, <4>1, <4>2
      <4>3. CASE k # Len(began) + 1
        <5>1. k \in 1 .. Len(began) /\ began'[k] = began[k]
          BY <1>1, <2>1, <4>3
        <5> QED BY <3>1, <4>1, <5>1 DEF IInv, Increasing
      <4> QED BY <4>2, <4>3
    <3> QED BY <3>1 DEF Increasing
  <2>5. Begun' = {j \in 1 .. i : Selected(tests[j])}
    BY <1>1, <1>7, <2>2 DEF IInv, Begin, At
  <2>6. /\ phase' = "test" /\ left' \in 0 .. MaxAsserts /\ phase = "loop" /\ i <= Len(tests)
        /\ UNCHANGED <<i, num, failed, code>>
    BY <1>7 DEF Begin, At
  <2>7. Progress'
    BY <1>1, <1>2, <2>1, <2>5, <2>6 DEF IInv
  <2>8. ExitTellsVerdict'
    BY <2>4, <2>6, <2>7 DEF IInv, ExitTellsVerdict, Increasing
  <2> QED BY <1>1, <2>1, <2>4, <2>6, <2>7, <2>8 DEF IInv
<1>8. CASE AssertionHolds
  BY <1>1, <1>2, <1>8 DEF IInv, AssertionHolds, Increasing, Begun, ExitTellsVerdict
<1>9. CASE AssertionFails
  BY <1>1, <1>2, <1>9 DEF IInv, AssertionFails, Increasing, Begun, ExitTellsVerdict
<1>10. CASE End
  BY <1>1, <1>2, <1>10 DEF IInv, End, Increasing, Begun, ExitTellsVerdict
<1>11. CASE Return
  <2>1. i = Len(tests) + 1
    BY <1>1, <1>11 DEF IInv, Registration, Return, At
  <2>2. Begun = {j \in 1 .. Len(tests) : Selected(tests[j])} /\ num = Len(began)
    BY <1>1, <1>11, <2>1 DEF IInv, Return
  <2> QED BY <1>1, <1>2, <1>11, <2>1, <2>2 DEF IInv, Return, Increasing, Begun, ExitTellsVerdict
<1>12. CASE Benchmark
  BY <1>1, <1>2, <1>12 DEF IInv, Benchmark, Increasing, Begun, ExitTellsVerdict
<1> QED BY <1>5, <1>6, <1>7, <1>8, <1>9, <1>10, <1>11, <1>12

LEMMA NextIInv == IInv /\ [Next]_vars => IInv'
<1> SUFFICES ASSUME IInv, [Next]_vars PROVE IInv'
  OBVIOUS
<1>1. CASE \E f \in Files : RegisterTest(f)
  BY <1>1, StepRegister
<1>2. CASE Main \/ Skip \/ Begin \/ AssertionHolds \/ AssertionFails \/ End \/ Return \/ Benchmark
  <2>1. UNCHANGED <<registered, tests, allocated, C2_TESTS, TESTS, bench>>
    BY <1>2 DEF Main, Skip, Begin, AssertionHolds, AssertionFails, End, Return, Benchmark
  <2> QED BY <1>2, <2>1, StepMain
<1>3. CASE UNCHANGED vars
  <2> USE <1>3 DEF vars
  <2>1. Begun' = Begun /\ \A t : Selected(t)' <=> Selected(t)
    BY DEF Begun, Selected, matcher
  <2>2. TypeOK'
    BY DEF IInv, TypeOK, Variables
  <2>3. Registration' /\ Increasing'
    BY DEF IInv, Registration, Increasing
  <2>4. Progress' /\ ExitTellsVerdict'
    BY <2>1 DEF IInv, Progress, ExitTellsVerdict
  <2> QED BY <2>2, <2>3, <2>4 DEF IInv
<1> QED BY <1>1, <1>2, <1>3 DEF Next, Step, Ended

THEOREM Invariance == Spec => []IInv
<1> QED BY InitIInv, NextIInv, PTL DEF Spec

\* The registry and RunAllTests keep their types for any files and tests.
THEOREM TypeCorrect == Spec => []TypeOK
<1>1. IInv => TypeOK
  BY DEF IInv
<1> QED BY <1>1, Invariance, PTL

LEMMA IInvRegistered == IInv => EveryTestRegistered
<1> SUFFICES ASSUME IInv, phase # "static" PROVE EveryTestRegistered
  BY DEF EveryTestRegistered
<1>1. ASSUME NEW t \in AllTests PROVE \E j \in 1 .. Len(tests) : tests[j] = t
  <2>1. t[1] \in Files /\ t[2] \in Nat /\ t[2] \in 1 .. registered[t[1]] /\ t = <<t[1], t[2]>>
    BY TestIsPair DEF IInv, Registration
  <2> QED BY <2>1 DEF IInv, Registration
<1> QED BY <1>1 DEF IInv, Registration, EveryTestRegistered

\* RegisterTest: no order of the static constructors loses a test, registers one
\* twice or puts a file's tests out of order.
THEOREM AllRegistered == Spec => []EveryTestRegistered
<1> QED BY IInvRegistered, Invariance, PTL

\* RunAllTests: its exit status is 0 only if it has run what it was asked to run
\* and nothing failed.
THEOREM VerdictIsTrue == Spec => []ExitTellsVerdict
<1>1. IInv => ExitTellsVerdict
  BY DEF IInv
<1> QED BY <1>1, Invariance, PTL

-----------------------------------------------------------------------------
(* The benchmarks: what they keep.                                         *)

(* What the objects are when the statement number step is the next one.    *)
Life(o, made, deleted) ==
  heap[o] = IF step <= made THEN "none" ELSE IF step <= deleted THEN "live" ELSE "deleted"

LifeOfBuilder(made) ==
  heap["builder"] = IF step <= made THEN "none"
                    ELSE IF status = "returned" THEN "deleted" ELSE "live"

\* Up to its building, the index is empty; from then on, it has the rows of data
\* in the bins of their keys.
Indexed ==
  /\ index.nrows = Len(data) /\ index.nobs \in 1 .. MaxBins
  /\ \A v \in 0 .. Width : index.bin[v] \in 1 .. index.nobs
  /\ \A b \in 1 .. index.nobs :
       index.bits[b] = {r \in 1 .. Len(data) : index.bin[data[r]] = b}
  /\ Len(index.bits) = index.nobs

Phases(draw, build, query, last) ==
  /\ step <= draw => Len(data) = 0
  /\ IF step <= build THEN index = Empty ELSE Indexed
  /\ step <= build => asked = 0
  /\ step <= query => asked < Len(Thresholds[program])
  /\ asked = 0 => answer.hits = {} /\ answer.below = 0
  /\ status = "returned" => step = last

Course1 ==
  /\ Life("part", 3, 11) /\ Life("column", 4, 12) /\ LifeOfBuilder(5)
  /\ Phases(1, 7, 10, 13)

Course2 ==
  /\ Life("part", 2, 8) /\ Life("column", 3, 9) /\ LifeOfBuilder(4)
  /\ Phases(5, 6, 7, 10)

BInv ==
  /\ BenchTypeOK /\ ObjectsLive /\ VerdictsRight
  /\ IF program = "c2_index_bench" THEN Course1 ELSE Course2

-----------------------------------------------------------------------------
(* Places, sequences and queries.                                          *)

\* Where in its program a statement is.
IsAt(first, second) == step = IF program = "c2_index_bench" THEN first ELSE second
Only(first) == program = "c2_index_bench" /\ step = first

LEMMA Places ==
  ASSUME program \in Programs, step \in 1 .. Len(Course[program])
  PROVE  /\ Len(Course[program]) = IF program = "c2_index_bench" THEN 13 ELSE 10
         /\ step \in Nat
         /\ Now("draw") => IsAt(1, 5)
         /\ Now("setup") => IsAt(2, 1)
         /\ Now("part") => IsAt(3, 2)
         /\ Now("column") => IsAt(4, 3)
         /\ Now("builder") => IsAt(5, 4)
         /\ Now("spec") => Only(6)
         /\ Now("build") => IsAt(7, 6)
         /\ Now("finish") => Only(8)
         /\ Now("list") => Only(9)
         /\ Now("query") => IsAt(10, 7)
         /\ Now("~part") => IsAt(11, 8)
         /\ Now("~column") => IsAt(12, 9)
         /\ Now("~builder") => IsAt(13, 10)
<1>1. CASE program = "c2_index_bench"
  <2>1. Course[program] = <<"draw", "setup", "part", "column", "builder", "spec", "build",
                            "finish", "list", "query", "~part", "~column", "~builder">>
    BY <1>1 DEF Course
  <2>2. step \in {1, 2, 3, 4, 5, 6, 7, 8, 9, 10, 11, 12, 13}
    BY <2>1
  <2> QED BY <1>1, <2>1, <2>2 DEF IsAt, Only, Now
<1>2. CASE program = "c2_index_builder_test"
  <2>1. Course[program] = <<"setup", "part", "column", "builder", "draw", "build", "query",
                            "~part", "~column", "~builder">>
    BY <1>2 DEF Course
  <2>2. step \in {1, 2, 3, 4, 5, 6, 7, 8, 9, 10}
    BY <2>1
  <2> QED BY <1>2, <2>1, <2>2 DEF IsAt, Only, Now
<1> QED BY <1>1, <1>2 DEF Programs

LEMMA Elements ==
  ASSUME NEW S, NEW s \in Seq(S)
  PROVE  Len(s) \in Nat /\ \A j \in 1 .. Len(s) : s[j] \in S
<1> QED OBVIOUS

LEMMA Sequence ==
  ASSUME NEW S, NEW n \in Nat, NEW s \in [1 .. n -> S]
  PROVE  s \in Seq(S)
<1> QED OBVIOUS

\* A query that FastBit answers from such an index.
LEMMA Answers ==
  ASSUME Indexed, data \in Seq(0 .. Width), Width \in Nat,
         NEW a \in 0 .. Width, NEW hits \in Evaluate(0 .. a - 1)
  PROVE  /\ hits \subseteq 1 .. Len(data)
         /\ \A r \in hits : data[r] < a
         /\ \A r \in 1 .. Len(data) \ hits :
              \E v \in a .. Width : index.bin[v] = index.bin[data[r]]
<1> DEFINE B == 1 .. index.nobs
           inside == {b \in B : \A v \in 0 .. Width : index.bin[v] = b => v \in 0 .. a - 1}
           maybe  == {b \in B : \A r \in index.bits[b] : data[r] \in 0 .. a - 1}
<1>1. PICK bs \in {inside, maybe} : hits = (1 .. index.nrows) \cap UNION {index.bits[b] : b \in bs}
  BY DEF Evaluate
<1>2. bs \subseteq B
  BY <1>1
<1>3. \A r \in 1 .. Len(data) : /\ data[r] \in 0 .. Width /\ index.bin[data[r]] \in B
                                /\ r \in index.bits[index.bin[data[r]]]
  <2>1. Len(data) \in Nat /\ \A r \in 1 .. Len(data) : data[r] \in 0 .. Width
    BY Elements
  <2> QED BY <2>1 DEF Indexed
<1>4. \A r \in hits : \E b \in bs : r \in index.bits[b]
  BY <1>1
<1>5. hits \subseteq 1 .. Len(data)
  BY <1>1 DEF Indexed
<1>6. ASSUME NEW r \in hits PROVE data[r] < a
  <2>1. PICK b \in bs : r \in index.bits[b]
    BY <1>4
  <2>2. r \in 1 .. Len(data) /\ index.bin[data[r]] = b /\ b \in B
    BY <1>2, <2>1 DEF Indexed
  <2>3. data[r] \in 0 .. a - 1
    BY <1>1, <1>3, <2>1, <2>2
  <2> QED BY <2>3
<1>7. ASSUME NEW r \in 1 .. Len(data), r \notin hits
      PROVE  \E v \in a .. Width : index.bin[v] = index.bin[data[r]]
  <2> DEFINE c == index.bin[data[r]]
  <2>1. c \in B /\ r \in index.bits[c]
    BY <1>3
  <2>2. c \notin bs
    BY <1>1, <1>7, <2>1 DEF Indexed
  <2>3. CASE bs = inside
    <3>1. PICK v \in 0 .. Width : index.bin[v] = c /\ v \notin 0 .. a - 1
      BY <2>1, <2>2, <2>3
    <3> QED BY <3>1
  <2>4. CASE bs = maybe
    <3>1. PICK s \in index.bits[c] : data[s] \notin 0 .. a - 1
      BY <2>1, <2>2, <2>4
    <3>2. s \in 1 .. Len(data) /\ index.bin[data[s]] = c
      <4>1. index.bits[c] = {q \in 1 .. Len(data) : index.bin[data[q]] = c}
        BY <2>1 DEF Indexed
      <4> QED BY <4>1
    <3>3. data[s] \in a .. Width
      BY <1>3, <3>1, <3>2
    <3> QED BY <3>2, <3>3
  <2> QED BY <1>1, <2>3, <2>4
<1> QED BY <1>5, <1>6, <1>7

-----------------------------------------------------------------------------
(* The statements of the benchmarks.                                       *)

LEMMA InitBInv == BenchInit => BInv
<1> SUFFICES ASSUME BenchInit PROVE BInv
  OBVIOUS
<1>0. /\ program \in Programs /\ debug \in BOOLEAN
      /\ flags \in [n : Rows, granule : BOOLEAN, skewed : BOOLEAN]
      /\ step = 1 /\ status = "running" /\ data = <<>> /\ asked = 0 /\ misused = FALSE
      /\ heap = [o \in Objects |-> "none"] /\ index = Empty
      /\ answer.hits = {} /\ answer.below = 0
  BY DEF BenchInit
<1>1. /\ program \in Programs /\ Len(data) = 0 /\ Width \in Nat /\ MaxBins \in Nat
      /\ Len(Thresholds[program]) \in Nat \ {0}
  <2>1. Thresholds[program] \in Seq(0 .. Width) /\ Thresholds[program] # <<>>
    BY <1>0, BenchAssumption
  <2> QED BY <1>0, <2>1, BenchAssumption
<1>2. 1 \in 1 .. Len(Course[program])
  <2>1. CASE program = "c2_index_bench"
    <3>1. Len(Course[program]) = 13
      BY <2>1 DEF Course
    <3> QED BY <3>1
  <2>2. CASE program = "c2_index_builder_test"
    <3>1. Len(Course[program]) = 10
      BY <2>2 DEF Course
    <3> QED BY <3>1
  <2> QED BY <1>0, <2>1, <2>2 DEF Programs
<1>3. data \in Seq(0 .. Width)
  BY <1>0
<1>4. BenchTypeOK
  <2>1. heap \in [Objects -> {"none", "live", "deleted"}]
    BY <1>0
  <2>2. index.nrows \in 0 .. Len(data) /\ index.nobs \in 0 .. MaxBins
    BY <1>0, <1>1 DEF Empty
  <2>3. /\ step \in 1 .. Len(Course[program]) /\ asked \in 0 .. Len(Thresholds[program])
        /\ answer.hits \subseteq 1 .. Len(data) /\ answer.below \in 0 .. Width
    BY <1>0, <1>1, <1>2
  <2> QED BY <1>0, <1>1, <1>3, <2>1, <2>2, <2>3 DEF BenchTypeOK
<1>5. ObjectsLive /\ VerdictsRight
  BY <1>0 DEF ObjectsLive, VerdictsRight
<1>6. Course1 /\ Course2
  BY <1>0, <1>1 DEF Course1, Course2, Life, LifeOfBuilder, Phases, Objects
<1> QED BY <1>4, <1>5, <1>6 DEF BInv

\* What every statement leaves of the invariant, when its effect on the objects,
\* on the index and on the answer is known.
LEMMA Known ==
  ASSUME BInv
  PROVE  /\ program \in Programs /\ step \in 1 .. Len(Course[program]) /\ step \in Nat
         /\ Len(Course[program]) = IF program = "c2_index_bench" THEN 13 ELSE 10
         /\ data \in Seq(0 .. Width) /\ Width \in Nat /\ MaxBins \in Nat
         /\ Len(Thresholds[program]) \in Nat \ {0}
         /\ \A k \in 1 .. Len(Thresholds[program]) : Thresholds[program][k] \in 0 .. Width
         /\ flags.n \in Nat \ {0}
         /\ asked \in Nat
         /\ heap = [o \in Objects |-> heap[o]]
<1>1. program \in Programs /\ step \in 1 .. Len(Course[program])
  BY DEF BInv, BenchTypeOK
<1>2. Thresholds[program] \in Seq(0 .. Width) /\ Thresholds[program] # <<>>
  BY <1>1, BenchAssumption
<1>3. data \in Seq(0 .. Width) /\ flags.n \in Nat \ {0} /\ Width \in Nat /\ MaxBins \in Nat
  BY BenchAssumption DEF BInv, BenchTypeOK
<1>4. Len(Thresholds[program]) \in Nat \ {0}
  BY <1>2
<1>5. \A k \in 1 .. Len(Thresholds[program]) : Thresholds[program][k] \in 0 .. Width
  BY <1>2, Elements
<1>6. asked \in Nat /\ heap = [o \in Objects |-> heap[o]]
  BY <1>4 DEF BInv, BenchTypeOK
<1> QED BY <1>1, <1>3, <1>4, <1>5, <1>6, Places

\* What a statement uses is there.
LEMMA Usable ==
  ASSUME BInv
  PROVE  /\ ~misused
         /\ Now("column") \/ Now("~part") => heap["part"] = "live"
         /\ (\E s \in {"builder", "spec", "build", "~part", "~column"} : Now(s)) =>
              heap["column"] = "live"
         /\ (\E s \in {"build", "finish", "list", "~builder"} : Now(s)) =>
              heap["builder"] = "live"
         /\ Now("query") => \A o \in Objects : heap[o] = "live"
<1>0. /\ step \in Nat
      /\ program = "c2_index_bench" => Course1
      /\ program # "c2_index_bench" => Course2
  BY Known DEF BInv
<1>1. /\ Now("column") \/ Now("~part") => heap["part"] = "live"
      /\ (\E s \in {"builder", "spec", "build", "~part", "~column"} : Now(s)) =>
           heap["column"] = "live"
  <2>1. ASSUME NEW s \in {"column", "~part"}, Now(s)
        PROVE  heap["part"] = "live"
    <3>1. IsAt(4, 3) \/ IsAt(11, 8)
      BY <2>1, Known, Places
    <3> QED BY <1>0, <3>1 DEF IsAt, Course1, Course2, Life
  <2>2. ASSUME NEW s \in {"builder", "spec", "build", "~part", "~column"}, Now(s)
        PROVE  heap["column"] = "live"
    <3>1. IsAt(5, 4) \/ Only(6) \/ IsAt(7, 6) \/ IsAt(11, 8) \/ IsAt(12, 9)
      BY <2>2, Known, Places
    <3> QED BY <1>0, <3>1 DEF IsAt, Only, Course1, Course2, Life
  <2> QED BY <2>1, <2>2
<1>2. ASSUME NEW s \in {"build", "finish", "list", "~builder"}, Now(s)
      PROVE  heap["builder"] = "live"
  <2>1. status # "returned"
    BY <1>2 DEF Now
  <2>2. IsAt(7, 6) \/ Only(8) \/ Only(9) \/ IsAt(13, 10)
    BY <1>2, Known, Places
  <2> QED BY <1>0, <2>1, <2>2 DEF IsAt, Only, Course1, Course2, LifeOfBuilder
<1>3. Now("query") => \A o \in Objects : heap[o] = "live"
  <2>1. Now("query") => status # "returned"
    BY DEF Now
  <2> QED BY <2>1, Known, Places DEF BInv, IsAt, Course1, Course2, Life, LifeOfBuilder, Objects
<1> QED BY <1>1, <1>2, <1>3 DEF BInv, ObjectsLive

LEMMA Uses ==
  ASSUME BInv, NEW objects, Touches(objects), \A o \in objects : heap[o] = "live"
  PROVE  ~misused' /\ misused' \in BOOLEAN
<1>1. misused' = (misused \/ \E o \in objects : heap[o] # "live")
  BY Zenon DEF Touches
<1>2. ~misused
  BY Usable
<1>3. misused' = FALSE
  BY <1>1, <1>2, Zenon
<1> QED BY <1>3

\* The statement after this one.
LEMMA NextStep ==
  ASSUME BInv, UNCHANGED program, step' = step \/ (step' = step + 1 /\ step < Len(Course[program]))
  PROVE  step' \in 1 .. Len(Course[program]) /\ Course[program]' = Course[program]
<1> QED BY Known

LEMMA StepDraw == ASSUME BInv, Draw PROVE BInv'
<1>1. /\ IsAt(1, 5) /\ step' = step + 1 /\ data' \in Seq(0 .. Width) /\ Len(data') \in Nat
      /\ UNCHANGED <<program, debug, flags, status, heap, misused, index, asked, answer>>
  <2>1. data' \in [1 .. flags.n -> 0 .. Width]
    BY Known DEF Draw
  <2>2. data' \in Seq(0 .. Width)
    <3>1. flags.n \in Nat
      BY Known
    <3> QED BY <2>1, <3>1, Sequence
  <2>3. IsAt(1, 5)
    BY Known, Places DEF Draw
  <2>4. Len(data') \in Nat
    BY <2>2, Elements
  <2> QED BY <2>2, <2>3, <2>4 DEF Draw, Advance, constVars
<1>2. index = Empty /\ asked = 0 /\ answer.hits = {} /\ answer.below = 0
  BY <1>1 DEF BInv, IsAt, Course1, Course2, Phases
<1>3. step' \in 1 .. Len(Course[program]) /\ Course[program]' = Course[program]
  BY <1>1, Known, NextStep DEF IsAt
<1>4. BenchTypeOK'
  <2>1. index'.nrows \in 0 .. Len(data') /\ answer'.hits \subseteq 1 .. Len(data')
    BY <1>1, <1>2 DEF Empty
  <2> QED BY <1>1, <1>3, <2>1 DEF BInv, BenchTypeOK
<1>5. ObjectsLive' /\ VerdictsRight'
  BY <1>1, <1>2 DEF BInv, ObjectsLive, VerdictsRight
<1>6. IF program' = "c2_index_bench" THEN Course1' ELSE Course2'
  BY <1>1, <1>2, Known DEF BInv, IsAt, Course1, Course2, Life, LifeOfBuilder, Phases
<1> QED BY <1>4, <1>5, <1>6 DEF BInv

\* A statement that leaves the keys, the index and the answer alone.
LEMMA StepObjects ==
  ASSUME BInv, NewPart \/ NewColumn \/ NewBuilder \/ DeletePart \/ DeleteColumn \/ DeleteBuilder
  PROVE  BInv'
<1>1. UNCHANGED <<program, debug, flags, data, index, asked, answer>>
  BY DEF NewPart, NewColumn, NewBuilder, DeletePart, DeleteColumn, DeleteBuilder, New, Delete,
     constVars
<1>2. heap' \in [Objects -> {"none", "live", "deleted"}]
  BY DEF NewPart, NewColumn, NewBuilder, DeletePart, DeleteColumn, DeleteBuilder, New, Delete,
     BInv, BenchTypeOK
<1>3. /\ step' = step \/ (step' = step + 1 /\ step < Len(Course[program]))
      /\ status' \in {"running", "returned"}
  BY Known, Places DEF NewPart, NewColumn, NewBuilder, DeletePart, DeleteColumn, DeleteBuilder,
     New, Delete, Advance, Now, IsAt
<1>4. step' \in 1 .. Len(Course[program]) /\ Course[program]' = Course[program]
  BY <1>1, <1>3, NextStep
<1>5. ~misused' /\ misused' \in BOOLEAN
  <2>1. CASE NewPart
    BY <2>1, Uses DEF NewPart, New
  <2>2. CASE NewColumn
    BY <2>2, Uses, Usable DEF NewColumn, New
  <2>3. CASE NewBuilder
    BY <2>3, Uses, Usable DEF NewBuilder, New
  <2>4. CASE DeletePart
    BY <2>4, Uses, Usable DEF DeletePart, Delete
  <2>5. CASE DeleteColumn
    BY <2>5, Uses, Usable DEF DeleteColumn, Delete
  <2>6. CASE DeleteBuilder
    BY <2>6, Uses, Usable DEF DeleteBuilder, Delete
  <2> QED BY <2>1, <2>2, <2>3, <2>4, <2>5, <2>6
<1>6. BenchTypeOK' /\ VerdictsRight'
  BY <1>1, <1>2, <1>3, <1>4, <1>5 DEF BInv, BenchTypeOK, VerdictsRight
<1>7. IF program' = "c2_index_bench" THEN Course1' ELSE Course2'
  <2>0. heap = [o \in Objects |-> heap[o]] /\ status \in {"running", "returned", "exited", "aborted"}
    BY Known DEF BInv, BenchTypeOK
  <2>9. Indexed' <=> Indexed
    BY <1>1 DEF Indexed
  <2>1. CASE NewPart
    <3>1. IsAt(3, 2) /\ step \in Nat
      BY <2>1, Known, Places DEF NewPart, New
    <3> QED BY <1>1, <2>0, <2>9, <2>1, <3>1 DEF NewPart, New, Delete, Now, Advance, BInv, IsAt, Course1,
              Course2, Life, LifeOfBuilder, Phases, Objects
  <2>2. CASE NewColumn
    <3>1. IsAt(4, 3) /\ step \in Nat
      BY <2>2, Known, Places DEF NewColumn, New
    <3> QED BY <1>1, <2>0, <2>9, <2>2, <3>1 DEF NewColumn, New, Delete, Now, Advance, BInv, IsAt, Course1,
              Course2, Life, LifeOfBuilder, Phases, Objects
  <2>3. CASE NewBuilder
    <3>1. IsAt(5, 4) /\ step \in Nat
      BY <2>3, Known, Places DEF NewBuilder, New
    <3> QED BY <1>1, <2>0, <2>9, <2>3, <3>1 DEF NewBuilder, New, Delete, Now, Advance, BInv, IsAt, Course1,
              Course2, Life, LifeOfBuilder, Phases, Objects
  <2>4. CASE DeletePart
    <3>1. IsAt(11, 8) /\ step \in Nat
      BY <2>4, Known, Places DEF DeletePart, New
    <3> QED BY <1>1, <2>0, <2>9, <2>4, <3>1 DEF DeletePart, New, Delete, Now, Advance, BInv, IsAt, Course1,
              Course2, Life, LifeOfBuilder, Phases, Objects
  <2>5. CASE DeleteColumn
    <3>1. IsAt(12, 9) /\ step \in Nat
      BY <2>5, Known, Places DEF DeleteColumn, New
    <3> QED BY <1>1, <2>0, <2>9, <2>5, <3>1 DEF DeleteColumn, New, Delete, Now, Advance, BInv, IsAt, Course1,
              Course2, Life, LifeOfBuilder, Phases, Objects
  <2>6. CASE DeleteBuilder
    <3>1. IsAt(13, 10) /\ step \in Nat
      BY <2>6, Known, Places DEF DeleteBuilder, New
    <3> QED BY <1>1, <2>0, <2>9, <2>6, <3>1 DEF DeleteBuilder, New, Delete, Now, Advance, BInv, IsAt, Course1,
              Course2, Life, LifeOfBuilder, Phases, Objects
  <2> QED BY <2>1, <2>2, <2>3, <2>4, <2>5, <2>6
<1>8. ObjectsLive'
  <2>1. /\ program' = program /\ ~misused'
        /\ program = "c2_index_bench" => Course1'
        /\ program # "c2_index_bench" => Course2'
    BY <1>1, <1>5, <1>7
  <2>2. ASSUME status' = "returned"
        PROVE  \A o \in Objects : heap'[o] = "deleted"
    <3>1. CASE program = "c2_index_bench"
      <4>1. Course1' /\ step' = 13
        BY <2>1, <2>2, <3>1 DEF Course1, Phases
      <4> QED BY <2>2, <4>1 DEF Course1, Life, LifeOfBuilder, Objects
    <3>2. CASE program # "c2_index_bench"
      <4>1. Course2' /\ step' = 10
        BY <2>1, <2>2, <3>2 DEF Course2, Phases
      <4> QED BY <2>2, <4>1 DEF Course2, Life, LifeOfBuilder, Objects
    <3> QED BY <3>1, <3>2
  <2> QED BY <2>1, <2>2 DEF ObjectsLive
<1> QED BY <1>6, <1>7, <1>8 DEF BInv

LEMMA StepPlain ==
  ASSUME BInv, SetUp \/ SetSpec \/ Finish \/ List
  PROVE  BInv'
<1>1. UNCHANGED <<program, debug, flags, data, heap, index, asked, answer>>
  BY DEF SetUp, SetSpec, Finish, List, Lists, constVars
<1>2. /\ step' = step \/ (step' = step + 1 /\ step < Len(Course[program]))
      /\ status' \in {"running", "exited"}
  BY Known, Places DEF SetUp, SetSpec, Finish, List, Lists, Advance, Now, IsAt, Only,
     BInv, Course1, Phases, Indexed
<1>3. step' \in 1 .. Len(Course[program]) /\ Course[program]' = Course[program]
  BY <1>1, <1>2, NextStep
<1>4. ~misused' /\ misused' \in BOOLEAN
  <2>1. CASE SetUp
    BY <2>1, Usable DEF SetUp, BInv, BenchTypeOK
  <2>2. CASE SetSpec
    BY <2>2, Uses, Usable DEF SetSpec
  <2>3. CASE Finish
    BY <2>3, Uses, Usable DEF Finish
  <2>4. CASE List
    BY <2>4, Uses, Usable DEF List, Lists
  <2> QED BY <2>1, <2>2, <2>3, <2>4
<1>5. BenchTypeOK' /\ VerdictsRight' /\ ObjectsLive'
  BY <1>1, <1>2, <1>3, <1>4 DEF BInv, BenchTypeOK, VerdictsRight, ObjectsLive
<1>6. IF program' = "c2_index_bench" THEN Course1' ELSE Course2'
  <2>1. CASE SetUp
    <3>1. IsAt(2, 1) /\ step \in Nat
      BY <2>1, Known, Places DEF SetUp
    <3> QED BY <1>1, <2>1, <3>1 DEF SetUp, Now, Advance, BInv, IsAt, Course1, Course2, Life,
              LifeOfBuilder, Phases, Indexed
  <2>2. CASE SetSpec \/ Finish \/ List
    <3>1. (Only(6) \/ Only(8) \/ Only(9)) /\ step \in Nat
      BY <2>2, Known, Places DEF SetSpec, Finish, List, Lists
    <3>2. status = "running" /\ (step' = step \/ step' = step + 1) /\ status' # "returned"
      BY <2>2 DEF SetSpec, Finish, List, Lists, Now, Advance
    <3>3. step' = step + 1 /\ status' = "running"
      <4>1. CASE SetSpec \/ List
        BY <3>2, <4>1 DEF SetSpec, List, Lists, Advance
      <4>2. CASE Finish
        <5>1. Only(8)
          BY <4>2, Known, Places DEF Finish
        <5>2. Indexed
          BY <5>1 DEF BInv, Only, Course1, Phases
        <5>3. index.nobs = Len(index.bits)
          BY <5>2 DEF Indexed
        <5>4. Advance
          BY <4>2, <5>3 DEF Finish
        <5> QED BY <3>2, <5>4 DEF Advance
      <4> QED BY <2>2, <4>1, <4>2
    <3>4. Indexed' <=> Indexed
      BY <1>1 DEF Indexed
    <3> QED BY <1>1, <3>1, <3>2, <3>3, <3>4 DEF BInv, Only, Course1, Life, LifeOfBuilder, Phases
  <2> QED BY <2>1, <2>2
<1> QED BY <1>5, <1>6 DEF BInv

LEMMA StepBuild == ASSUME BInv, TEST_Build \/ TEST_GranuleBuild PROVE BInv'
<1>1. /\ IsAt(7, 6) /\ step' = step + 1 /\ Binning(Len(data)) /\ Touches({"builder", "column"})
      /\ Now("build")
      /\ UNCHANGED <<program, debug, flags, status, data, heap, asked, answer>>
  BY Known, Places DEF TEST_Build, TEST_GranuleBuild, Builds, Advance, constVars
<1>2. /\ data \in Seq(0 .. Width) /\ Len(data) \in Nat /\ Width \in Nat /\ MaxBins \in Nat
      /\ \A r \in 1 .. Len(data) : data[r] \in 0 .. Width
  BY Known, Elements
<1>3. asked = 0 /\ answer.hits = {} /\ answer.below = 0
  BY <1>1 DEF BInv, IsAt, Course1, Course2, Phases
<1>4. Indexed'
  <2>1. PICK bin \in [0 .. Width -> 1 .. MaxBins] :
          /\ \A v, w \in 0 .. Width : v <= w => bin[v] <= bin[w]
          /\ \E bytes \in [1 .. bin[Width] -> Sizes] :
               index' = [nrows |-> Len(data), nobs |-> bin[Width], bin |-> bin, bytes |-> bytes,
                         bits  |-> [b \in 1 .. bin[Width] |->
                                      {r \in 1 .. Len(data) : bin[data[r]] = b}]]
    BY <1>1 DEF Binning
  <2>2. /\ index'.nrows = Len(data) /\ index'.nobs = bin[Width] /\ index'.bin = bin
        /\ index'.bits = [b \in 1 .. bin[Width] |-> {r \in 1 .. Len(data) : bin[data[r]] = b}]
    BY <2>1
  <2>3. Width \in 0 .. Width /\ bin[Width] \in 1 .. MaxBins
    BY <1>2
  <2>4. \A v \in 0 .. Width : bin[v] \in 1 .. bin[Width]
    BY <1>2, <2>1, <2>3
  <2>5. Len(index'.bits) = bin[Width]
    BY <2>2, <2>3
  <2> QED BY <1>1, <1>2, <2>2, <2>3, <2>4, <2>5 DEF Indexed
<1>5. ~misused' /\ misused' \in BOOLEAN
  BY <1>1, Uses, Usable
<1>6. step' \in 1 .. Len(Course[program]) /\ Course[program]' = Course[program]
  BY <1>1, Known, NextStep DEF IsAt
<1>7. BenchTypeOK'
  <2>1. index'.nrows \in 0 .. Len(data) /\ index'.nobs \in 0 .. MaxBins
    BY <1>1, <1>2, <1>4 DEF Indexed
  <2> QED BY <1>1, <1>5, <1>6, <2>1 DEF BInv, BenchTypeOK
<1>8. ObjectsLive' /\ VerdictsRight'
  BY <1>1, <1>3, <1>5 DEF BInv, ObjectsLive, VerdictsRight, Now
<1>9. IF program' = "c2_index_bench" THEN Course1' ELSE Course2'
  BY <1>1, <1>3, <1>4, Known DEF BInv, IsAt, Course1, Course2, Life, LifeOfBuilder, Phases, Now
<1> QED BY <1>7, <1>8, <1>9 DEF BInv

LEMMA StepQuery == ASSUME BInv, LessThan PROVE BInv'
<1> DEFINE a == Thresholds[program][asked + 1]
<1>1. /\ IsAt(10, 7) /\ Now("query") /\ Asks(0 .. a - 1, a)
  BY Known, Places DEF LessThan
<1>2. asked < Len(Thresholds[program]) /\ Indexed
  BY <1>1 DEF BInv, IsAt, Course1, Course2, Phases
<1>3. a \in 0 .. Width /\ asked + 1 \in 1 .. Len(Thresholds[program])
  BY <1>2, Known
<1>4. /\ answer' \in [size : {index.nrows}, hits : Evaluate(0 .. a - 1), below : {a}]
      /\ asked' = asked + 1 /\ Touches(Objects)
      /\ UNCHANGED <<program, debug, flags, data, heap, index>>
  BY <1>1 DEF Asks, constVars
<1>5. answer'.size = Len(data) /\ answer'.hits \in Evaluate(0 .. a - 1) /\ answer'.below = a
  BY <1>2, <1>4 DEF Indexed
<1>6. /\ answer'.hits \subseteq 1 .. Len(data)
      /\ \A r \in answer'.hits : data[r] < a
      /\ \A r \in 1 .. Len(data) \ answer'.hits :
           \E v \in a .. Width : index.bin[v] = index.bin[data[r]]
  BY <1>2, <1>3, <1>5, Known, Answers
<1>7. /\ UNCHANGED status
      /\ step' = IF asked' = Len(Thresholds[program]) THEN step + 1 ELSE step
  <2>1. \A r \in answer'.hits : ~(data[r] >= a)
    <3>1. \A r \in 1 .. Len(data) : data[r] \in 0 .. Width
      BY Known, Elements
    <3> QED BY <1>3, <1>6, <3>1
  <2> QED BY <1>1, <2>1 DEF Asks
<1>8. ~misused' /\ misused' \in BOOLEAN
  BY <1>1, <1>4, Uses, Usable
<1>9. step' \in 1 .. Len(Course[program]) /\ Course[program]' = Course[program]
  BY <1>1, <1>4, <1>7, Known, NextStep DEF IsAt
<1>10. BenchTypeOK'
  <2>1. asked' \in 0 .. Len(Thresholds[program])
    BY <1>3, <1>4, Known
  <2> QED BY <1>3, <1>4, <1>5, <1>6, <1>7, <1>8, <1>9, <2>1 DEF BInv, BenchTypeOK
<1>11. ObjectsLive' /\ VerdictsRight'
  BY <1>4, <1>5, <1>6, <1>7, <1>8 DEF BInv, ObjectsLive, VerdictsRight
<1>12. IF program' = "c2_index_bench" THEN Course1' ELSE Course2'
  <2>1. Indexed' /\ asked' # 0 /\ status' = "running" /\ status = "running" /\ step \in Nat
    BY <1>1, <1>2, <1>4, <1>7, Known DEF Indexed, Now
  <2>2. step' > step \/ asked' < Len(Thresholds[program])
    BY <1>3, <1>4, <1>7, Known
  <2> QED BY <1>1, <1>4, <1>7, <2>1, <2>2 DEF BInv, IsAt, Course1, Course2, Life, LifeOfBuilder,
          Phases
<1> QED BY <1>10, <1>11, <1>12 DEF BInv

LEMMA NextBInv == BInv /\ [BenchStep]_benchVars => BInv'
<1> SUFFICES ASSUME BInv, [BenchStep]_benchVars PROVE BInv'
  OBVIOUS
<1>1. CASE BenchStep
  BY <1>1, StepDraw, StepObjects, StepPlain, StepBuild, StepQuery DEF BenchStep
<1>2. CASE UNCHANGED benchVars
  <2> USE <1>2 DEF benchVars, constVars
  <2>1. BenchTypeOK' /\ ObjectsLive' /\ VerdictsRight' /\ (Indexed' <=> Indexed)
    <3>1. BenchTypeOK'
      BY DEF BInv, BenchTypeOK
    <3>2. ObjectsLive' /\ VerdictsRight'
      BY DEF BInv, ObjectsLive, VerdictsRight
    <3>3. Indexed' <=> Indexed
      BY DEF Indexed
    <3> QED BY <3>1, <3>2, <3>3
  <2>2. CASE program = "c2_index_bench"
    <3>1. Course1'
      BY <2>1, <2>2 DEF BInv, Course1, Life, LifeOfBuilder, Phases
    <3> QED BY <2>1, <2>2, <3>1 DEF BInv
  <2>3. CASE program # "c2_index_bench"
    <3>1. Course2'
      BY <2>1, <2>3 DEF BInv, Course2, Life, LifeOfBuilder, Phases
    <3> QED BY <2>1, <2>3, <3>1 DEF BInv
  <2> QED BY <2>2, <2>3
<1> QED BY <1>1, <1>2

-----------------------------------------------------------------------------
(* Induction over sequences and sums.  The library states induction for an  *)
(* operator, which the provers cannot instantiate; here it is for a set.   *)

\* A set of numbers has a least one.
LEMMA Least ==
  ASSUME NEW S \in SUBSET Nat, S # {}
  PROVE  \E n \in S : \A m \in S : n <= m
<1> DEFINE R == {ss \in Nat \X Nat : ss[1] < ss[2]}
<1>1. OpToRel(<, Nat) = R
  BY DEF OpToRel
<1>2. PICK n \in S : \A m \in S : ~ (<<m, n>> \in R)
  BY <1>1, NatLessThanWellFounded, WFMin, Zenon
<1>3. \A m \in S : ~ (m < n)
  BY <1>2
<1> QED BY <1>3

\* A set that has 0, and with a number the next, has them all up to a bound.
LEMMA Induction ==
  ASSUME NEW N \in Nat, NEW S, 0 \in S,
         \A n \in Nat : n < N /\ n \in S => n + 1 \in S
  PROVE  0 .. N \subseteq S
<1> SUFFICES ASSUME (0 .. N) \ S # {} PROVE FALSE
  OBVIOUS
<1> DEFINE T == (0 .. N) \ S
<1>0. T \in SUBSET Nat /\ T # {}
  OBVIOUS
<1> HIDE DEF T
<1>1. PICK n \in T : \A m \in T : n <= m
  BY <1>0, Least
<1> USE DEF T
<1>2. n - 1 \in Nat /\ n - 1 < N /\ n - 1 \in S
  BY <1>1
<1> QED BY <1>1, <1>2

\* The partial sums of a sequence of numbers, the last of which is Sum.
Partial(g, f) ==
  /\ g \in [0 .. Len(f) -> Nat] /\ g[0] = 0
  /\ \A b \in 1 .. Len(f) : g[b] = g[b - 1] + f[b]

LEMMA SumIsPartial ==
  ASSUME NEW f \in Seq(Nat)
  PROVE  \E g : Partial(g, f) /\ Sum(f) = g[Len(f)]
<1> DEFINE n == Len(f)
           Upto(k, g) == /\ g \in [0 .. k -> Nat] /\ g[0] = 0
                         /\ \A b \in 1 .. k : g[b] = g[b - 1] + f[b]
           Is(g) == g = [b \in 0 .. n |-> IF b = 0 THEN 0 ELSE g[b - 1] + f[b]]
           S == {k \in 0 .. n : \E g : Upto(k, g)}
           s == CHOOSE g : Is(g)
<1>1. n \in Nat /\ \A b \in 1 .. n : f[b] \in Nat
  OBVIOUS
<1> HIDE DEF n
<1>2. 0 \in S
  <2>1. Upto(0, [b \in 0 .. 0 |-> 0])
    OBVIOUS
  <2>2. \E g : Upto(0, g)
    BY <2>1, Zenon
  <2> QED BY <1>1, <2>2
<1>3. ASSUME NEW k \in Nat, k < n, k \in S PROVE k + 1 \in S
  <2>1. PICK g : Upto(k, g)
    BY <1>3
  <2> DEFINE h == [b \in 0 .. k + 1 |-> IF b <= k THEN g[b] ELSE g[k] + f[k + 1]]
  <2>2. g[k] + f[k + 1] \in Nat
    BY <1>1, <1>3, <2>1
  <2>3. h \in [0 .. k + 1 -> Nat] /\ h[0] = 0
    BY <2>1, <2>2
  <2>4. ASSUME NEW b \in 1 .. k + 1 PROVE h[b] = h[b - 1] + f[b]
    <3>1. CASE b = k + 1
      BY <1>3, <3>1
    <3>2. CASE b # k + 1
      BY <1>3, <2>1, <3>2
    <3> QED BY <3>1, <3>2
  <2> HIDE DEF h
  <2>5. Upto(k + 1, h)
    BY <2>3, <2>4
  <2>6. \E g_1 : Upto(k + 1, g_1)
    BY <2>5, Zenon
  <2>7. k + 1 \in 0 .. n
    BY <1>1, <1>3
  <2> QED BY <2>6, <2>7
<1>4. n \in S
  <2> HIDE DEF S
  <2>1. \A k \in Nat : k < n /\ k \in S => k + 1 \in S
    BY <1>3
  <2>2. 0 .. n \subseteq S
    BY <1>1, <1>2, <2>1, Induction
  <2> QED BY <1>1, <2>2
<1> HIDE DEF S
<1>5. PICK g : Upto(n, g)
  BY <1>4 DEF S
<1>6. Is(g)
  <2> DEFINE h == [b \in 0 .. n |-> IF b = 0 THEN 0 ELSE g[b - 1] + f[b]]
  <2>1. \A b \in 0 .. n : g[b] = h[b]
    BY <1>1, <1>5
  <2> QED BY <1>5, <2>1
<1>7. Is(s)
  BY <1>6, Zenon
<1>8. Sum(f) = s[n]
  BY DEF Sum, n
<1> HIDE DEF s
<1>9. s[0] = 0 /\ \A b \in 1 .. n : s[b] = s[b - 1] + f[b]
  BY <1>1, <1>7
<1>10. \A b \in 0 .. n : s[b] \in Nat
  <2> DEFINE T == {k \in 0 .. n : s[k] \in Nat}
  <2>1. 0 \in T
    BY <1>1, <1>9
  <2>2. \A k \in Nat : k < n /\ k \in T => k + 1 \in T
    BY <1>1, <1>9
  <2> HIDE DEF T
  <2>3. 0 .. n \subseteq T
    BY <1>1, <2>1, <2>2, Induction
  <2> QED BY <2>3 DEF T
<1>11. s \in [0 .. n -> Nat]
  BY <1>7, <1>10
<1> QED BY <1>8, <1>9, <1>11 DEF Partial, n

\* Division leaves a quotient and a remainder.
LEMMA Division ==
  ASSUME NEW p \in Nat, NEW m \in Nat \ {0}
  PROVE  /\ p \div m \in Nat /\ p % m \in 0 .. m - 1
         /\ p = m * (p \div m) + (p % m)
<1>1. p % m \in 0 .. m - 1  BY SMT
<1>2. p = m * (p \div m) + (p % m)  BY SMT
<1>3. p \div m \in Int  BY SMT
<1>4. p \div m >= 0  BY SMT
<1> QED  BY <1>1, <1>2, <1>3, <1>4

\* p is q times m and r more.
Splits(p, m, q, r) == q \in Nat /\ r \in 0 .. m - 1 /\ p = m * q + r

\* And there is only one such pair.
LEMMA RemainderUnique ==
  ASSUME NEW m \in Nat \ {0}, NEW p \in Nat, NEW q, NEW r, Splits(p, m, q, r)
  PROVE  p % m = r
<1> USE DEF Splits
<1> DEFINE d == p \div m  t == p % m
<1>1. d \in Nat /\ t \in 0 .. m - 1 /\ p = m * d + t  BY Division
<1> HIDE DEF d, t
<1>2. m * (d - q) = r - t  BY <1>1
<1>3. CASE d - q >= 1
  <2>1. m * (d - q) >= m  BY <1>1, <1>3
  <2> QED  BY <2>1, <1>1, <1>2
<1>4. CASE d - q <= -1
  <2>1. m * (d - q) <= -m  BY <1>1, <1>4
  <2> QED  BY <2>1, <1>1, <1>2
<1>5. CASE d - q = 0
  <2>1. m * (d - q) = 0  BY <1>1, <1>5
  <2> QED  BY <2>1, <1>1, <1>2 DEF t
<1> QED  BY <1>1, <1>3, <1>4, <1>5

\* Reducing at every step is reducing once.
LEMMA Reduced ==
  ASSUME NEW a \in Nat, NEW b \in Nat, NEW m \in Nat \ {0}
  PROVE  ((a % m) + b) % m = (a + b) % m
<1> DEFINE q == a \div m  r == a % m  q2 == (r + b) \div m  r2 == (r + b) % m
<1>1. q \in Nat /\ r \in 0 .. m - 1 /\ a = m * q + r
  BY Division
<1> HIDE DEF q, r
<1>2. q2 \in Nat /\ r2 \in 0 .. m - 1 /\ r + b = m * q2 + r2
  <2>1. r + b \in Nat
    BY <1>1
  <2> QED BY <2>1, Division
<1> HIDE DEF q2, r2
<1>3. a + b = m * (q + q2) + r2 /\ q + q2 \in Nat
  BY <1>1, <1>2
<1>4. Splits(a + b, m, q + q2, r2)
  BY <1>2, <1>3 DEF Splits
<1>5. (a + b) % m = r2
  BY <1>4, RemainderUnique
<1> QED BY <1>5 DEF r2, r
\* MemoryUsage is the sum of what the bitmaps take, up to what its uint32_t drops.
LEMMA UsageIsSum ==
  ASSUME index.bytes \in Seq(Nat)
  PROVE  MemoryUsage = Sum(index.bytes) % UintLim
<1> DEFINE n == Len(index.bytes)
           Is(r) == r = [b \in 0 .. n |->
                           IF b = 0 THEN 0 ELSE (r[b - 1] + index.bytes[b]) % UintLim]
           s == CHOOSE r : Is(r)
<1>1. n \in Nat /\ (\A b \in 1 .. n : index.bytes[b] \in Nat) /\ UintLim \in Nat \ {0}
  BY BenchAssumption
<1>2. PICK g : Partial(g, index.bytes) /\ Sum(index.bytes) = g[n]
  BY SumIsPartial
<1>3. g \in [0 .. n -> Nat] /\ g[0] = 0 /\ \A b \in 1 .. n : g[b] = g[b - 1] + index.bytes[b]
  BY <1>2 DEF Partial
<1> DEFINE w == [b \in 0 .. n |-> g[b] % UintLim]
<1>4. MemoryUsage = s[n]
  BY DEF MemoryUsage, n
<1> HIDE DEF n
<1>5. w[0] = 0 /\ \A b \in 1 .. n : w[b] = (w[b - 1] + index.bytes[b]) % UintLim
  <2>1. w[0] = 0
    BY <1>1, <1>3
  <2>2. ASSUME NEW b \in 1 .. n PROVE w[b] = (w[b - 1] + index.bytes[b]) % UintLim
    <3>1. b \in 0 .. n /\ b - 1 \in 0 .. n /\ g[b - 1] \in Nat /\ index.bytes[b] \in Nat
      BY <1>1, <1>3
    <3>2. ((g[b - 1] % UintLim) + index.bytes[b]) % UintLim = (g[b - 1] + index.bytes[b]) % UintLim
      BY <1>1, <3>1, Reduced
    <3> QED BY <1>3, <3>1, <3>2
  <2> QED BY <2>1, <2>2
<1>6. Is(w)
  <2>1. w = [b \in 0 .. n |-> w[b]]
    OBVIOUS
  <2> HIDE DEF w
  <2>2. \A b \in 0 .. n : w[b] = IF b = 0 THEN 0 ELSE (w[b - 1] + index.bytes[b]) % UintLim
    BY <1>1, <1>5
  <2> QED BY <2>1, <2>2
<1>7. Is(s)
  BY <1>6, Zenon
<1> HIDE DEF s, w
<1>8. s[0] = 0 /\ \A b \in 1 .. n : s[b] = (s[b - 1] + index.bytes[b]) % UintLim
  BY <1>1, <1>7
<1> DEFINE T == {k \in 0 .. n : s[k] = w[k]}
<1>9. 0 \in T
  BY <1>1, <1>5, <1>8
<1>10. \A k \in Nat : k < n /\ k \in T => k + 1 \in T
  BY <1>1, <1>5, <1>8
<1> HIDE DEF T
<1>11. 0 .. n \subseteq T
  BY <1>1, <1>9, <1>10, Induction
<1>12. n \in 0 .. n
  BY <1>1
<1> QED BY <1>2, <1>4, <1>11, <1>12 DEF T, w

\* The bitmaps of an index share out its rows.
LEMMA KeysAddUp ==
  ASSUME BInv, Indexed
  PROVE  Sum([b \in 1 .. index.nobs |-> Cardinality(index.bits[b])]) = Len(data)
<1> DEFINE n == index.nobs
           N == Len(data)
           place == [r \in 1 .. N |-> index.bin[data[r]]]
           below == [b \in 0 .. n |-> {r \in 1 .. N : place[r] <= b}]
           keys == [b \in 1 .. n |-> Cardinality(index.bits[b])]
<1>1. n \in Nat /\ N \in Nat
  BY Known, Elements DEF Indexed
<1>2. \A r \in 1 .. N : place[r] \in 1 .. n
  BY Known, Elements DEF Indexed
<1>3. \A b \in 1 .. n : index.bits[b] = {r \in 1 .. N : place[r] = b}
  BY DEF Indexed
<1> HIDE DEF n, N, place
<1>4. IsFiniteSet(1 .. N) /\ Cardinality(1 .. N) = N
  BY <1>1, FS_Interval
<1>5. \A b \in 0 .. n : below[b] \subseteq 1 .. N
  OBVIOUS
<1>6. \A b \in 0 .. n : IsFiniteSet(below[b])
  BY <1>4, <1>5, FS_Subset
<1>7. below[0] = {} /\ below[n] = 1 .. N
  BY <1>1, <1>2
<1>8. ASSUME NEW b \in 1 .. n
      PROVE  /\ Cardinality(below[b]) = Cardinality(below[b - 1]) + Cardinality(index.bits[b])
             /\ Cardinality(index.bits[b]) \in Nat
  <2>1. below[b] = below[b - 1] \cup index.bits[b] /\ below[b - 1] \cap index.bits[b] = {}
    BY <1>1, <1>2, <1>3
  <2>2. index.bits[b] \subseteq 1 .. N
    BY <1>3
  <2>3. IsFiniteSet(index.bits[b]) /\ IsFiniteSet(below[b - 1])
    <3>1. b - 1 \in 0 .. n
      BY <1>1
    <3> QED BY <1>4, <1>6, <2>2, <3>1, FS_Subset
  <2> HIDE DEF below
  <2>4. Cardinality(below[b - 1] \cup index.bits[b]) =
          Cardinality(below[b - 1]) + Cardinality(index.bits[b])
            - Cardinality(below[b - 1] \cap index.bits[b])
    BY <2>3, FS_Union
  <2>5. Cardinality({}) = 0
    BY FS_EmptySet
  <2>6. Cardinality(below[b - 1]) \in Nat /\ Cardinality(index.bits[b]) \in Nat
    BY <2>3, FS_CardinalityType
  <2> QED BY <2>1, <2>4, <2>5, <2>6
<1> HIDE DEF below
<1>9. keys \in Seq(Nat) /\ Len(keys) = n
  BY <1>1, <1>8
<1>10. \A b \in 1 .. n : keys[b] = Cardinality(index.bits[b])
  OBVIOUS
<1> HIDE DEF keys
<1>11. PICK g : Partial(g, keys) /\ Sum(keys) = g[Len(keys)]
  BY <1>9, SumIsPartial
<1>12. g[0] = 0 /\ \A b \in 1 .. n : g[b] = g[b - 1] + Cardinality(index.bits[b])
  BY <1>9, <1>10, <1>11 DEF Partial
<1> DEFINE T == {k \in 0 .. n : g[k] = Cardinality(below[k])}
<1>13. 0 \in T
  <2>1. Cardinality(below[0]) = 0
    BY <1>7, FS_EmptySet
  <2> QED BY <1>1, <1>12, <2>1
<1>14. ASSUME NEW k \in Nat, k < n, k \in T PROVE k + 1 \in T
  <2>1. k + 1 \in 1 .. n /\ (k + 1) - 1 = k
    BY <1>1, <1>14
  <2>2. Cardinality(below[k + 1]) = Cardinality(below[k]) + Cardinality(index.bits[k + 1])
    BY <1>8, <2>1
  <2>3. g[k + 1] = g[k] + Cardinality(index.bits[k + 1])
    BY <1>12, <2>1
  <2> QED BY <1>1, <1>14, <2>1, <2>2, <2>3
<1> HIDE DEF T
<1>15. 0 .. n \subseteq T
  BY <1>1, <1>13, <1>14, Induction
<1>16. g[n] = Cardinality(below[n])
  <2>1. n \in 0 .. n
    BY <1>1
  <2> QED BY <1>15, <2>1 DEF T
<1>17. Sum(keys) = N
  BY <1>4, <1>7, <1>9, <1>11, <1>16
<1> QED BY <1>17 DEF keys, n, N

-----------------------------------------------------------------------------
(* What Build prints, of which only c2_index_bench has any.                *)

LInv ==
  /\ program = "c2_index_bench" /\ step > 1 => Len(data) = flags.n
  /\ program = "c2_index_bench" /\ step > 7 =>
       index.bytes \in Seq(Nat) /\ Len(index.bytes) = index.nobs
  /\ ListingComplete

LEMMA InitLInv == BenchInit => LInv
<1> QED BY DEF BenchInit, LInv, ListingComplete

LEMMA ListAddsUp == ASSUME BInv, LInv, List PROVE ListingComplete'
<1>1. /\ Only(9) /\ step \in Nat /\ step = 9
      /\ UNCHANGED <<program, debug, flags, data, index>>
  BY Known, Places DEF List, Lists, constVars, Only
<1>2. /\ Indexed /\ Len(data) = flags.n
      /\ index.bytes \in Seq(Nat) /\ Len(index.bytes) = index.nobs /\ index.nobs \in Nat
  <2>1. Indexed
    BY <1>1 DEF BInv, Only, Course1, Phases
  <2>2. index.nobs \in Nat
    BY <2>1, Known DEF Indexed
  <2> QED BY <1>1, <2>1, <2>2 DEF LInv, Only
<1>3. CASE debug
  <2> DEFINE keys == [b \in 1 .. index.nobs |-> Cardinality(index.bits[b])]
             sizes == [b \in 1 .. index.nobs |-> index.bytes[b]]
  <2>1. listed' = [total |-> MemoryUsage, sizes |-> sizes, keys |-> keys]
    BY <1>3 DEF List, Lists
  <2>2. sizes = index.bytes
    BY <1>2
  <2>3. Sum(keys) = flags.n
    BY <1>2, KeysAddUp
  <2>4. MemoryUsage = Sum(index.bytes) % UintLim
    BY <1>2, UsageIsSum
  <2> HIDE DEF keys, sizes
  <2>5. /\ listed'.total = MemoryUsage /\ listed'.sizes = index.bytes
        /\ listed'.keys = keys
    BY <2>1, <2>2
  <2>6. Sum(listed'.sizes) = Sum(index.bytes) /\ Sum(listed'.keys) = Sum(keys)
    BY <2>5
  <2>7. UintLim' = UintLim /\ Sum(listed.sizes)' = Sum(listed'.sizes)
        /\ Sum(listed.keys)' = Sum(listed'.keys)
    BY DEF Sum
  <2> QED BY <1>1, <2>3, <2>4, <2>5, <2>6, <2>7 DEF ListingComplete
<1>4. CASE ~debug
  BY <1>1, <1>4 DEF ListingComplete
<1> QED BY <1>3, <1>4

LEMMA NextLInv == BInv /\ LInv /\ [BenchStep]_benchVars => LInv'
<1> SUFFICES ASSUME BInv, LInv, [BenchStep]_benchVars PROVE LInv'
  OBVIOUS
<1>1. CASE Draw
  <2>1. /\ IsAt(1, 5) /\ step' = step + 1 /\ UNCHANGED <<program, debug, flags, index, listed>>
        /\ Len(data') = flags.n
    <3>1. data' \in [1 .. flags.n -> IF flags.skewed THEN 0 .. Width - 1 ELSE 0 .. Width]
      BY <1>1 DEF Draw
    <3>2. Len(data') = flags.n
      BY <3>1, Known
    <3> QED BY <1>1, <3>2, Known, Places DEF Draw, Advance, constVars
  <2> QED BY <2>1, Known DEF LInv, IsAt, ListingComplete
<1>2. CASE TEST_Build \/ TEST_GranuleBuild
  <2>1. /\ IsAt(7, 6) /\ step' = step + 1 /\ Binning(Len(data))
        /\ UNCHANGED <<program, debug, flags, data, listed>>
    BY <1>2, Known, Places DEF TEST_Build, TEST_GranuleBuild, Builds, Advance, constVars
  <2>2. index'.bytes \in Seq(Nat) /\ Len(index'.bytes) = index'.nobs
    <3>0. PICK bin \in [0 .. Width -> 1 .. MaxBins] :
            \E bytes \in [1 .. bin[Width] -> Sizes] :
              index' = [nrows |-> Len(data), nobs |-> bin[Width], bin |-> bin, bytes |-> bytes,
                        bits  |-> [b \in 1 .. bin[Width] |->
                                     {r \in 1 .. Len(data) : bin[data[r]] = b}]]
      BY <2>1 DEF Binning
    <3>1. PICK bytes \in [1 .. bin[Width] -> Sizes] :
            index'.nobs = bin[Width] /\ index'.bytes = bytes
      BY <3>0
    <3>2. bin[Width] \in Nat /\ bytes \in [1 .. bin[Width] -> Nat]
      BY Known, BenchAssumption
    <3>3. bytes \in Seq(Nat) /\ Len(bytes) = bin[Width]
      BY <3>2
    <3> QED BY <3>1, <3>3
  <2> QED BY <2>1, <2>2, Known DEF LInv, IsAt, ListingComplete
<1>3. CASE List
  <2>1. /\ Only(9) /\ step' = step + 1 /\ UNCHANGED <<program, debug, flags, data, index>>
    BY <1>3, Known, Places DEF List, Lists, Advance, constVars
  <2>2. ListingComplete'
    BY <1>3, ListAddsUp
  <2> QED BY <2>1, <2>2, Known DEF LInv, Only
<1>4. CASE SetUp \/ NewPart \/ NewColumn \/ NewBuilder \/ SetSpec \/ Finish \/ LessThan
           \/ DeletePart \/ DeleteColumn \/ DeleteBuilder
  <2>1. UNCHANGED <<program, debug, flags, data, index, listed>>
    BY <1>4 DEF SetUp, NewPart, NewColumn, NewBuilder, SetSpec, Finish, LessThan, DeletePart,
       DeleteColumn, DeleteBuilder, New, Delete, Asks, constVars
  <2>2. program = "c2_index_bench" => step # 1 /\ step # 7
    BY <1>4, Known, Places DEF SetUp, NewPart, NewColumn, NewBuilder, SetSpec, Finish, LessThan,
       DeletePart, DeleteColumn, DeleteBuilder, New, IsAt, Only
  <2>3. step' = step \/ step' = step + 1
    BY <1>4 DEF SetUp, NewPart, NewColumn, NewBuilder, SetSpec, Finish, LessThan, DeletePart,
       DeleteColumn, DeleteBuilder, New, Delete, Asks, Advance
  <2>4. program = "c2_index_bench" => (step' > 1 => step > 1) /\ (step' > 7 => step > 7)
    BY <2>2, <2>3, Known
  <2> QED BY <2>1, <2>4 DEF LInv, ListingComplete
<1>5. CASE UNCHANGED benchVars
  BY <1>5 DEF benchVars, constVars, LInv, ListingComplete
<1> QED BY <1>1, <1>2, <1>3, <1>4, <1>5 DEF BenchStep

-----------------------------------------------------------------------------
(* The programs.                                                           *)

\* A step of a program is one of the harness and one of the benchmark, or one
\* of them stands still.
LEMMA StepsOfBoth == [ProgramNext]_programVars => [Next]_vars /\ [BenchStep]_benchVars
<1> QED BY DEF ProgramNext, ProgramStep, HarnessStep, BenchmarkStep, ProgramEnded, programVars, Next

THEOREM ProgramInvariance == ProgramSpec => [](IInv /\ BInv /\ LInv)
<1>1. ProgramInit => IInv /\ BInv /\ LInv
  BY InitIInv, InitBInv, InitLInv DEF ProgramInit
<1>2. IInv /\ BInv /\ LInv /\ [ProgramNext]_programVars => IInv' /\ BInv' /\ LInv'
  BY StepsOfBoth, NextIInv, NextBInv, NextLInv
<1> QED BY <1>1, <1>2, PTL DEF ProgramSpec

\* Both parts of a program keep their types.
THEOREM ProgramTypeCorrect == ProgramSpec => []ProgramTypeOK
<1>1. IInv /\ BInv => ProgramTypeOK
  BY DEF IInv, BInv, ProgramTypeOK
<1> QED BY <1>1, ProgramInvariance, PTL

\* RegisterTest, in the program that also has a benchmark.
THEOREM ProgramRegisters == ProgramSpec => []EveryTestRegistered
<1>1. IInv => EveryTestRegistered
  BY IInvRegistered
<1> QED BY <1>1, ProgramInvariance, PTL

\* main(): the exit status is true of the tests, and of the benchmark.
THEOREM ProgramVerdict == ProgramSpec => []ExitTellsVerdict
<1>1. IInv => ExitTellsVerdict
  BY DEF IInv
<1> QED BY <1>1, ProgramInvariance, PTL

\* BM_Main, ~IndexBench and ~IndexBuilderBench: in whichever of the orders, no
\* object is used that is not live, and none is left.
THEOREM ObjectsUsedLive == ProgramSpec => []ObjectsLive
<1>1. BInv => ObjectsLive
  BY DEF BInv
<1> QED BY <1>1, ProgramInvariance, PTL

\* TEST_Build, TEST_GranuleBuild and LessThan: for any keys, bins and thresholds
\* every answer is right, so that the check of LessThan never aborts.
THEOREM AnswersRight == ProgramSpec => []VerdictsRight
<1>1. BInv => VerdictsRight
  BY DEF BInv
<1> QED BY <1>1, ProgramInvariance, PTL

\* Build of c2_index_bench: for any keys, bins and sizes, the sizes it prints add
\* up to the total, modulo 2^32, and the keys of the bitmaps to the keys drawn.
THEOREM ListingAddsUp == ProgramSpec => []ListingComplete
<1>1. LInv => ListingComplete
  BY DEF LInv
<1> QED BY <1>1, ProgramInvariance, PTL
=============================================================================
