----------------------------- MODULE IndexBench -----------------------------
(***************************************************************************)
(* The benchmarks of the index: BM_Main and IndexBench of the program      *)
(* c2_index_bench, BM_Main and IndexBuilderBench of the program            *)
(* c2_index_builder_test, and the IndexBuilder both make.  Keys are drawn, *)
(* an index of them is built, queries are asked of it, and the objects are *)
(* deleted.  IndexPrograms puts this into the programs.                    *)
(*                                                                         *)
(* What IndexBuilder inherits from FastBit's ibis::bin is external.  Keys  *)
(* are counted from the lower end of the value space.                      *)
(***************************************************************************)
EXTENDS Integers, Sequences, FiniteSets

CONSTANTS
  Width,        \* FLAGS_value_max - FLAGS_value_min, FLAGS_N
  Thresholds,   \* of each program, the bounds it asks for, in order
  UintLim,      \* 2^32
  Rows,         \* bound: the numbers of keys, FLAGS_n
  MaxBins,      \* bound: the bins of an index
  Sizes         \* bound: what bitmaps take in bytes; 0 for one that is NULL

Programs == {"c2_index_bench", "c2_index_builder_test"}

ASSUME BenchAssumption ==
  /\ Width \in Nat \ {0} /\ UintLim \in Nat \ {0} /\ Rows \subseteq Nat \ {0}
  /\ Thresholds \in [Programs -> Seq(0 .. Width) \ {<<>>}]
  /\ MaxBins \in Nat \ {0} /\ Sizes \subseteq Nat /\ Sizes # {0}

VARIABLES
  program, debug,   \* which program; whether NDEBUG is not defined
  flags,            \* n, granule and skewed, of the command line
  step,             \* how far BM_Main is, as a position in Course
  status,           \* "running", "returned", "exited" or "aborted"
  data,             \* inputdata
  heap,             \* the part, the column and bu: "none", "live" or "deleted"
  misused,          \* an object was used that was not live
  index,            \* the members of bu
  asked, answer,    \* the queries asked, and results for the last of them
  listed            \* the numbers that Build prints

benchVars == <<program, debug, flags, step, status, data, heap, misused, index,
               asked, answer, listed>>
constVars == <<program, debug, flags>>

Objects == {"part", "column", "builder"}
Empty   == [nrows |-> 0, nobs |-> 0, bin |-> <<>>, bits |-> <<>>, bytes |-> <<>>]
NoList  == [total |-> 0, sizes |-> <<>>, keys |-> <<>>]

BenchInit ==
  /\ program \in Programs /\ debug \in BOOLEAN
  /\ flags \in [n : Rows, granule : BOOLEAN, skewed : BOOLEAN]
  /\ program = "c2_index_builder_test" => flags.granule /\ ~flags.skewed
  /\ step = 1 /\ status = "running" /\ data = <<>>
  /\ heap = [o \in Objects |-> "none"] /\ misused = FALSE
  /\ index = Empty /\ listed = NoList
  /\ asked = 0 /\ answer = [size |-> 0, hits |-> {}, below |-> 0]

\* Slip: the destructor deletes the column, then asks it for its partition.
CourseColumnFirst ==
  [c2_index_bench |->
     <<"draw", "setup", "part", "column", "builder", "spec", "build", "finish", "list",
       "query", "~column", "~part", "~builder">>,
   c2_index_builder_test |->
     <<"setup", "part", "column", "builder", "draw", "build", "query",
       "~column", "~part", "~builder">>]

\* BM_Main, statement by statement, with the constructor and the destructor of
\* the bench it makes.
Course ==
  [c2_index_bench |->
     <<"draw", "setup", "part", "column", "builder", "spec", "build", "finish", "list",
       "query", "~part", "~column", "~builder">>,
   c2_index_builder_test |->
     <<"setup", "part", "column", "builder", "draw", "build", "query",
       "~part", "~column", "~builder">>]

Now(s)  == status = "running" /\ Course[program][step] = s
Advance == step' = step + 1 /\ UNCHANGED status

Touches(objects) == misused' = (misused \/ \E o \in objects : heap[o] # "live")

-----------------------------------------------------------------------------
(* Keys and set-up.                                                        *)

\* Next() times the width over INT32_MAX may round up to the width as a float,
\* and so may Uniform(FLAGS_N); Skewed(20) over 2^20 is too far below it.
Draw ==
  /\ Now("draw") /\ Advance
  /\ data' \in [1 .. flags.n -> IF flags.skewed THEN 0 .. Width - 1 ELSE 0 .. Width]
  /\ UNCHANGED <<constVars, heap, misused, index, asked, answer, listed>>

\* The directories (see PosixIO): only TmpDir looks at a Status, and exits.
SetUp ==
  /\ Now("setup")
  /\ \/ Advance
     \/ program = "c2_index_builder_test" /\ status' = "exited" /\ UNCHANGED step
  /\ UNCHANGED <<constVars, data, heap, misused, index, asked, answer, listed>>

\* The column is given the part, the builder the column, and NULL for its file.
New(o, uses) ==
  /\ Now(o) /\ Advance
  /\ Touches(uses)
  /\ heap' = [heap EXCEPT ![o] = "live"]
  /\ UNCHANGED <<constVars, data, index, asked, answer, listed>>

NewPart    == New("part", {})
NewColumn  == New("column", {"part"})
NewBuilder == New("builder", {"column"})

-----------------------------------------------------------------------------
(* Build.                                                                  *)

\* indexSpec() of the column, which the test leaves at its default.
SetSpec ==
  /\ Now("spec") /\ Advance
  /\ Touches({"column"})
  /\ UNCHANGED <<constVars, data, heap, index, asked, answer, listed>>

\* FastBit puts every value into a bin, in ascending order, and every row into
\* the bitmap of its bin.  setBoundaries() and binning() set nrows as well;
\* mapGranules() and convertGranules() leave it alone.
Binning(nrows) ==
  \E bin \in [0 .. Width -> 1 .. MaxBins] :
    /\ \A v, w \in 0 .. Width : v <= w => bin[v] <= bin[w]
    /\ \E bytes \in [1 .. bin[Width] -> Sizes] :
       /\ \A r \in 1 .. Len(data) : bytes[bin[data[r]]] > 0
       /\ index' = [nrows |-> nrows, nobs |-> bin[Width], bin |-> bin, bytes |-> bytes,
                   bits  |-> [b \in 1 .. bin[Width] |->
                                {r \in 1 .. Len(data) : bin[data[r]] = b}]]

Builds(granule) ==
  /\ Now("build") /\ Advance
  /\ flags.granule = granule
  /\ Touches({"builder", "column"})
  /\ UNCHANGED <<constVars, data, heap, asked, answer, listed>>

TEST_Build == Builds(FALSE) /\ Binning(Len(data))

\* Slip: nrows is left to convertGranules().
TEST_GranuleBuildOnly == Builds(TRUE) /\ Binning(index.nrows)

TEST_GranuleBuild == Builds(TRUE) /\ Binning(Len(data))

\* The members that count the bins agree, or an assertion ends the process.
Finish ==
  /\ Now("finish")
  /\ IF debug /\ index.nobs # Len(index.bits)
     THEN status' = "aborted" /\ UNCHANGED step ELSE Advance
  /\ Touches({"builder"})
  /\ UNCHANGED <<constVars, data, heap, index, asked, answer, listed>>

\* The loop of DiskStorageUsage, and that of MemoryUsage, in a uint32_t.
MemoryUsage ==
  LET result[b \in 0 .. Len(index.bytes)] ==
        IF b = 0 THEN 0 ELSE (result[b - 1] + index.bytes[b]) % UintLim
  IN  result[Len(index.bytes)]

Lists(bitmaps) ==
  /\ Now("list") /\ Advance
  /\ Touches({"builder"})
  /\ listed' = [total |-> MemoryUsage,
                sizes |-> [b \in bitmaps |-> index.bytes[b]],
                keys  |-> [b \in bitmaps |-> Cardinality(index.bits[b])]]
  /\ UNCHANGED <<constVars, data, heap, index, asked, answer>>

\* Slip: the loop ends one bitmap early.
ListFewer == Lists(1 .. IF debug THEN index.nobs - 1 ELSE 0)

\* The total, and in a debug build MemoryUsage(i) and NumKeys(i) of each bitmap,
\* none and 0 for one that is NULL.
List == Lists(1 .. IF debug THEN index.nobs ELSE 0)

-----------------------------------------------------------------------------
(* Queries.                                                                *)

\* FastBit's evaluate(): the rows of the bins that lie in the range, and perhaps
\* of others whose smallest and largest key do; rows that only the keys
\* themselves could tell apart are left out.  results has nrows bits.
Evaluate(range) ==
  LET inside == {b \in 1 .. index.nobs : \A v \in 0 .. Width : index.bin[v] = b => v \in range}
      maybe  == {b \in 1 .. index.nobs : \A r \in index.bits[b] : data[r] \in range}
  IN  {(1 .. index.nrows) \cap UNION {index.bits[b] : b \in bs} : bs \in {inside, maybe}}

Asks(range, a) ==
  /\ answer' \in [size : {index.nrows}, hits : Evaluate(range), below : {a}]
  /\ asked' = asked + 1
  /\ IF /\ program = "c2_index_bench" /\ debug
        /\ \E r \in answer'.hits : data[r] >= a
     THEN status' = "aborted" /\ UNCHANGED step
     ELSE /\ UNCHANGED status
          /\ step' = IF asked' = Len(Thresholds[program]) THEN step + 1 ELSE step
  /\ Touches(Objects)
  /\ UNCHANGED <<constVars, data, heap, index, listed>>

\* Slip: OP_LE.
LessThanOrEqual ==
  /\ Now("query")
  /\ LET a == Thresholds[program][asked + 1] IN Asks(0 .. a, a)

\* One LessThan(a).  c2_index_bench looks at every hit in a debug build.
LessThan ==
  /\ Now("query")
  /\ LET a == Thresholds[program][asked + 1] IN Asks(0 .. a - 1, a)

-----------------------------------------------------------------------------
(* The destructor.                                                         *)

Delete(o, uses) ==
  /\ Touches(uses)
  /\ heap' = [heap EXCEPT ![o] = "deleted"]
  /\ UNCHANGED <<constVars, data, index, asked, answer, listed>>

\* The column is asked for its part.
DeletePart    == Now("~part") /\ Advance /\ Delete("part", {"column", "part"})
DeleteColumn  == Now("~column") /\ Advance /\ Delete("column", {"column"})
DeleteBuilder ==
  /\ Now("~builder") /\ Delete("builder", {"builder"})
  /\ status' = "returned" /\ UNCHANGED step

BenchStep ==
  \/ Draw \/ SetUp \/ NewPart \/ NewColumn \/ NewBuilder \/ SetSpec
  \/ TEST_Build \/ TEST_GranuleBuild \/ Finish \/ List \/ LessThan
  \/ DeletePart \/ DeleteColumn \/ DeleteBuilder

-----------------------------------------------------------------------------
(* Properties.                                                             *)

BenchTypeOK ==
  /\ program \in Programs /\ debug \in BOOLEAN /\ misused \in BOOLEAN
  /\ flags \in [n : Rows, granule : BOOLEAN, skewed : BOOLEAN]
  /\ step \in 1 .. Len(Course[program])
  /\ status \in {"running", "returned", "exited", "aborted"}
  /\ data \in Seq(0 .. Width)
  /\ heap \in [Objects -> {"none", "live", "deleted"}]
  /\ index.nrows \in 0 .. Len(data) /\ index.nobs \in 0 .. MaxBins
  /\ asked \in 0 .. Len(Thresholds[program])
  /\ answer.hits \subseteq 1 .. Len(data) /\ answer.below \in 0 .. Width

\* No statement of a benchmark uses a part, a column or a builder before it is
\* made or after it is deleted, which the destructors' order decides: a column
\* knows its part, an index its column.  When BM_Main returns, nothing is left.
ObjectsLive ==
  /\ ~misused
  /\ status = "returned" => \A o \in Objects : heap[o] = "deleted"

\* Whichever build was asked for, the answer to a query has a bit for each key,
\* every hit is of a key below the threshold, and a key below it is missed only
\* in a bin with values that are not; so LessThan's check never aborts.
VerdictsRight ==
  /\ status # "aborted"
  /\ asked > 0 =>
       /\ answer.size = Len(data)
       /\ \A r \in answer.hits : data[r] < answer.below
       /\ \A r \in 1 .. Len(data) \ answer.hits :
            \E v \in answer.below .. Width : index.bin[v] = index.bin[data[r]]

\* What Build prints adds up: the sizes of the bitmaps to the total, up to what
\* its uint32_t drops, and their keys to the number of keys.
Sum(f) == LET sum[b \in 0 .. Len(f)] == IF b = 0 THEN 0 ELSE sum[b - 1] + f[b] IN sum[Len(f)]
ListingComplete ==
  debug /\ listed # NoList =>
    /\ listed.total = Sum(listed.sizes) % UintLim
    /\ Sum(listed.keys) = flags.n
=============================================================================
