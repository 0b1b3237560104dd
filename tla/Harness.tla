------------------------------ MODULE Harness ------------------------------
(***************************************************************************)
(* A test program (testharness.h, testharness.cc): the static constructors *)
(* of its files register their tests, main() runs those that the           *)
(* environment selects or, if the first argument asks for it, the          *)
(* benchmark, and a failed assertion ends the process.                     *)
(*                                                                         *)
(* A test is named by its file and its place in it.  What its name         *)
(* contains is a parameter, and its body a number of assertions.           *)
(***************************************************************************)
EXTENDS Integers, Sequences

CONSTANTS
  Files,        \* the files with tests that are linked into the program
  NumTests,     \* how many TESTs each of them has
  Patterns,     \* what C2_TESTS and TESTS may hold, behind a "~" or not
  Contains,     \* the tests whose name contains a pattern
  MaxAsserts    \* bound: the assertions of one test

AllTests == UNION {{f} \X (1 .. NumTests[f]) : f \in Files}

ASSUME HarnessAssumption ==
  /\ NumTests \in [Files -> Nat] /\ MaxAsserts \in Nat
  /\ Contains \in [Patterns -> SUBSET AllTests]

VARIABLES
  registered,   \* how many of its tests each file has registered
  tests,        \* the vector tests points to
  allocated,    \* tests # NULL
  C2_TESTS, TESTS,      \* the environment
  bench,        \* the first argument starts with "--bench"
  phase,        \* "static", "loop", "test", "bench" or "exited"
  i, num,       \* the locals of RunAllTests
  left,         \* the assertions left in the test that runs
  began,        \* where in the vector the tests that were begun are, in order
  failed,       \* an assertion has failed
  code          \* the exit status of the process, -1 until it has one

vars == <<registered, tests, allocated, C2_TESTS, TESTS, bench, phase, i, num,
          left, began, failed, code>>

Variables == [kind : {"unset"}] \cup [kind : {"only", "skip"}, pattern : Patterns]

Init ==
  /\ registered = [f \in Files |-> 0] /\ tests = <<>> /\ allocated = FALSE
  /\ C2_TESTS \in Variables /\ TESTS \in Variables /\ bench \in BOOLEAN
  /\ phase = "static" /\ i = 1 /\ num = 0 /\ left = 0
  /\ began = <<>> /\ failed = FALSE /\ code = -1

Exits(status) == phase' = "exited" /\ code' = status

-----------------------------------------------------------------------------
(* Before main().  The order of the files is open, that in a file is not.  *)

Turn(f) ==
  /\ phase = "static" /\ registered[f] < NumTests[f]
  /\ \A g \in Files \ {f} : registered[g] \in {0, NumTests[g]}

\* Slip: every file allocates the vector.
RegisterTestAfresh(f) ==
  /\ Turn(f)
  /\ registered' = [registered EXCEPT ![f] = @ + 1]
  /\ tests' = IF registered[f] > 0 THEN Append(tests, <<f, registered'[f]>>)
              ELSE <<<<f, registered'[f]>>>>
  /\ allocated' = TRUE
  /\ UNCHANGED <<C2_TESTS, TESTS, bench, phase, i, num, left, began, failed, code>>

\* The first call allocates the vector, whichever file it comes from.
RegisterTest(f) ==
  /\ Turn(f)
  /\ registered' = [registered EXCEPT ![f] = @ + 1]
  /\ tests' = Append(IF allocated THEN tests ELSE <<>>, <<f, registered'[f]>>)
  /\ allocated' = TRUE
  /\ UNCHANGED <<C2_TESTS, TESTS, bench, phase, i, num, left, began, failed, code>>

Main ==
  /\ phase = "static" /\ registered = NumTests
  /\ phase' = IF bench THEN "bench" ELSE "loop"
  /\ UNCHANGED <<registered, tests, allocated, C2_TESTS, TESTS, bench, i, num, left,
                 began, failed, code>>

-----------------------------------------------------------------------------
(* RunAllTests.                                                            *)

matcher == IF C2_TESTS.kind # "unset" THEN C2_TESTS ELSE TESTS

Selected(t) ==
  \/ matcher.kind = "unset"
  \/ matcher.kind = "only" /\ t \in Contains[matcher.pattern]
  \/ matcher.kind = "skip" /\ t \notin Contains[matcher.pattern]

\* At a test of the vector, which there is none of when tests is NULL.
At == phase = "loop" /\ allocated /\ i <= Len(tests)

\* Slip: break for continue.
SkipAll ==
  /\ At /\ ~Selected(tests[i])
  /\ i' = Len(tests) + 1
  /\ UNCHANGED <<registered, tests, allocated, C2_TESTS, TESTS, bench, phase, num, left,
                 began, failed, code>>

\* Slip: a continue that jumps over the increment.
SkipNot ==
  /\ At /\ ~Selected(tests[i])
  /\ UNCHANGED vars

Skip ==
  /\ At /\ ~Selected(tests[i])
  /\ i' = i + 1
  /\ UNCHANGED <<registered, tests, allocated, C2_TESTS, TESTS, bench, phase, num, left,
                 began, failed, code>>

Begin ==
  /\ At /\ Selected(tests[i])
  /\ phase' = "test" /\ began' = Append(began, i)
  /\ left' \in 0 .. MaxAsserts
  /\ UNCHANGED <<registered, tests, allocated, C2_TESTS, TESTS, bench, i, num, failed, code>>

AssertionHolds ==
  /\ phase = "test" /\ left > 0
  /\ left' = left - 1
  /\ UNCHANGED <<registered, tests, allocated, C2_TESTS, TESTS, bench, phase, i, num,
                 began, failed, code>>

\* Slip: the Tester prints its message and the test goes on.
AssertionPrints ==
  /\ phase = "test" /\ left > 0
  /\ left' = left - 1 /\ failed' = TRUE
  /\ UNCHANGED <<registered, tests, allocated, C2_TESTS, TESTS, bench, phase, i, num,
                 began, code>>

\* The destructor of the Tester calls exit(1).
AssertionFails ==
  /\ phase = "test" /\ left > 0
  /\ failed' = TRUE /\ Exits(1)
  /\ UNCHANGED <<registered, tests, allocated, C2_TESTS, TESTS, bench, i, num, left, began>>

\* Slip: the index is advanced by the loop and by its body.
EndTwice ==
  /\ phase = "test" /\ left = 0
  /\ phase' = "loop" /\ num' = num + 1 /\ i' = i + 2
  /\ UNCHANGED <<registered, tests, allocated, C2_TESTS, TESTS, bench, left, began, failed, code>>

\* The test returns.
End ==
  /\ phase = "test" /\ left = 0
  /\ phase' = "loop" /\ num' = num + 1 /\ i' = i + 1
  /\ UNCHANGED <<registered, tests, allocated, C2_TESTS, TESTS, bench, left, began, failed, code>>

Return ==
  /\ phase = "loop" /\ ~At
  /\ Exits(0)
  /\ UNCHANGED <<registered, tests, allocated, C2_TESTS, TESTS, bench, i, num, left, began, failed>>

\* BM_Main returns, and main() 0; or the assertion in TmpDir fails, of the
\* constructor that finds no directory, and its Tester calls exit(1).
Benchmark ==
  /\ phase = "bench"
  /\ failed' \in BOOLEAN
  /\ Exits(IF failed' THEN 1 ELSE 0)
  /\ UNCHANGED <<registered, tests, allocated, C2_TESTS, TESTS, bench, i, num, left, began>>

Step ==
  \/ \E f \in Files : RegisterTest(f)
  \/ Main \/ Skip \/ Begin \/ AssertionHolds \/ AssertionFails \/ End \/ Return \/ Benchmark

Ended == phase = "exited" /\ UNCHANGED vars

Next == Step \/ Ended

\* The program has one thread, and the operating system runs it.
Spec == Init /\ [][Next]_vars /\ WF_vars(Step)

-----------------------------------------------------------------------------
(* Properties.                                                             *)

TypeOK ==
  /\ registered \in [Files -> Nat] /\ \A f \in Files : registered[f] <= NumTests[f]
  /\ tests \in Seq(AllTests)
  /\ C2_TESTS \in Variables /\ TESTS \in Variables
  /\ allocated \in BOOLEAN /\ bench \in BOOLEAN /\ failed \in BOOLEAN
  /\ phase \in {"static", "loop", "test", "bench", "exited"}
  /\ i \in 1 .. Len(tests) + 1 /\ num \in 0 .. Len(tests) /\ left \in 0 .. MaxAsserts
  /\ began \in Seq(1 .. Len(tests))
  /\ code \in {-1, 0, 1}

\* Whatever order the linker gives the files, main() finds every test of each
\* of them in the vector once, and none of a file out of its order.
EveryTestRegistered ==
  phase # "static" =>
    /\ \A t \in AllTests : \E j \in 1 .. Len(tests) : tests[j] = t
    /\ \A j, k \in 1 .. Len(tests) :
         j < k /\ tests[j][1] = tests[k][1] => tests[j][2] < tests[k][2]

\* An exit status of 0 says that every test the matcher selects has been run to
\* its end, once and in the order of the vector, and that no assertion failed;
\* and num is the number of them.  A failed assertion is never followed by
\* another test, and never by a status of 0.
Begun == {began[k] : k \in 1 .. Len(began)}
ExitTellsVerdict ==
  /\ \A j, k \in 1 .. Len(began) : j < k => began[j] < began[k]
  /\ code = 0 /\ ~bench =>
       /\ Begun = {j \in 1 .. Len(tests) : Selected(tests[j])}
       /\ num = Len(began)
  /\ code = 0 => ~failed
  /\ failed => phase = "exited"

\* The program ends, if the bodies of its tests do.
Ends == <>(phase = "exited")
=============================================================================
