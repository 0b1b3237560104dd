--------------------------- MODULE MCIndexPrograms ---------------------------
(***************************************************************************)
(* IndexPrograms for TLC.  The harness: a file with two tests, one with a  *)
(* single test and one, like c2_index_builder_test.cc, with none; the      *)
(* empty pattern is contained in every name, "Junk" in none.  The          *)
(* benchmarks: thresholds in the order of the code, from the lowest to the *)
(* highest in one program and from the highest down in the other.          *)
(***************************************************************************)
EXTENDS IndexPrograms, TLC

MCNumTests == "two" :> 2 @@ "one" :> 1 @@ "zero" :> 0

MCContains == "" :> {<<"two", 1>>, <<"two", 2>>, <<"one", 1>>}
           @@ "Hello" :> {<<"two", 1>>, <<"one", 1>>}
           @@ "World" :> {<<"two", 2>>}
           @@ "Junk" :> {}

MCThresholds == [c2_index_bench |-> <<0, 1, 2>>, c2_index_builder_test |-> <<2, 1>>]
=============================================================================
