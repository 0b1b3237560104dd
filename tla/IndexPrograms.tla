---------------------------- MODULE IndexPrograms ----------------------------
(***************************************************************************)
(* The programs c2_index_bench and c2_index_builder_test.  The first runs  *)
(* its benchmark and returns.  In the second the harness comes first, and  *)
(* main() chooses between the tests and the benchmark.                     *)
(***************************************************************************)
EXTENDS Harness, IndexBench

programVars == <<vars, benchVars>>

\* The harness is not linked into c2_index_bench, and stands still there.
ProgramInit ==
  /\ Init /\ BenchInit
  /\ program = "c2_index_bench" =>
       C2_TESTS.kind = "unset" /\ TESTS.kind = "unset" /\ ~bench

\* In the test program the benchmark runs inside main(): an assertion failed if
\* it ended otherwise than by returning, in TmpDir.
HarnessStep ==
  /\ program = "c2_index_builder_test" /\ Step
  /\ phase = "bench" =>
       status # "running" /\ (failed' <=> status # "returned")
  /\ UNCHANGED benchVars

BenchmarkStep ==
  /\ program = "c2_index_bench" \/ phase = "bench"
  /\ BenchStep
  /\ UNCHANGED vars

ProgramStep == HarnessStep \/ BenchmarkStep

ProgramEnded ==
  /\ IF program = "c2_index_bench" THEN status # "running" ELSE phase = "exited"
  /\ UNCHANGED programVars

ProgramNext == ProgramStep \/ ProgramEnded

\* Each program has one thread, and the operating system runs it.
ProgramSpec == ProgramInit /\ [][ProgramNext]_programVars /\ WF_programVars(ProgramStep)

-----------------------------------------------------------------------------
(* Properties, besides those of Harness and IndexBench.                    *)

ProgramTypeOK == TypeOK /\ BenchTypeOK

\* The program ends, if the bodies of its tests and FastBit's functions do: with
\* an exit status from main() or exit(1), or by an abort().
ProgramEnds ==
  <>(IF program = "c2_index_bench" THEN status # "running" ELSE phase = "exited")
=============================================================================
