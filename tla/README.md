# A TLA+ model of c2-earlyproto

c2-earlyproto builds and queries a FastBit bitmap index. Around FastBit it has
an IO layer of its own (files, directories, two process-wide singletons), a
`Status` object, a random generator, coding routines, a test harness and a
benchmark. This directory models those parts in TLA+, checks them with TLC and
proves the safety properties with TLAPS. Paths below are relative to
`src/src/`.

Contents: [inventory](#1-inventory) - [modules](#2-modules-and-the-code) -
[runs](#3-runs-and-bounds) - [disagreements](#4-where-the-code-and-its-text-disagree) -
[proofs](#5-proofs) - [not modelled](#6-not-modelled) - [plan](#7-plan).

## 1. Inventory

| Part | State | Operations | What makes it correct |
|---|---|---|---|
| `WritableFile` (`c2_io.h`) | none (interface) | Append, Flush, Sync, Close, destructor | What was flushed survives the process, what was synced survives the machine, and nothing is lost before an error is returned |
| `PosixWritableFile` (`c2_io_posix.h`) | `fd_` | the same, by write(), fdatasync(), close() | Implements the interface; a short write is an error; no call after Close reaches a descriptor |
| `PosixBufferedWritableFile` (`c2_io_posix.h`) | `file_`, and the buffer of the `FILE` | the same, by the unlocked stdio calls | Implements the interface although stdio reports failures late |
| `PosixIO`, `PosixLibcBufferedIOWrapper` (`c2_io_posix.cc`) | the wrapper's `base_` | NewWritableFile, CreateDir, GetTestDirectory | Every descriptor has one owner; concurrent creators of a directory agree |
| IO singletons (`c2_io_posix.cc`) | `once`, `posix_io`, `posix_io_buf` | OpenPosixIO through pthread_once; Default, GetUnBuffered | One PosixIO, never seen half made, also when an allocation throws |
| `PosixError` | - | errno to Status code | Total; ENOENT, EEXIST, EACCES have codes of their own |
| `Status` (`c2_status.h`, `.cc`) | `state_`, a `new[]` array or NULL | constructors, copy, assignment, destructor, code | Owns its array alone; never leaks; says what it was given |
| `Random` (`c2_random.h`) | `seed_` | Next, Uniform, OneIn, Skewed, Next64 | The reduction without a division is `seed * A mod M`; ranges hold |
| Coding (`c2_coding.h`, `.cc`) | a string written, a Slice parsed | Put/Encode/Get/Decode of fixed and variable integers and prefixed slices | What is written is read back on any machine; a cut string never gives a false item |
| `Slice` (`c2_slice.h`, `.cc`) | pointer and length into memory of others | compare and the operators on it, ==, starts_with, ends_with, remove_prefix, remove_suffix, [] | compare is an order, 0 for equal slices only |
| `IndexBuilder` (`c2_index_builder.h`, `.cc`) | FastBit's `nrows`, `nobs`, `bits`, ...; `file_` | TEST_Build, TEST_GranuleBuild, Finish, Reset, sizes | Either build leaves an index of all keys; the sizes add up |
| Index benchmark and test (`c2_index_bench.cc`, `c2_index_builder_test.cc`) | `bu`, `opts`, `tmpdir`, `inputdata` | constructor, Build, LessThan, destructor | The working directory exists; no hit is outside the query; no object is used that is gone |
| Test harness (`testharness.h`, `.cc`) | the vector `tests` | RegisterTest, RunAllTests, TmpDir, `Tester` | Each selected test runs once; a failed assertion ends the process |
| Test utilities, `Env`, `Port`, `Column`, `Part` | - | string generators; clock; PthreadCall; declarations | - |

How they interact. The tests and the benchmark reach the IO layer through
`IO::Default()`, which any thread may be the first to call: pthread_once lets
one of them run `OpenPosixIO` and makes the others wait. They then call
GetTestDirectory and CreateDir, each one mkdir(), on a directory that other
processes of the same user create too. NewWritableFile hands out objects that
hold descriptors the kernel numbers from one table, shared with FastBit's own
files. Every call returns a `Status` by value, so that Statuses are copied and
assigned all over the program. The caller of a file learns of a failure only
from the Status of a call, which may be a later call than the one that lost the
bytes. Random feeds the benchmark and the tests, which index tables with what
it returns. The index test is a test program and a benchmark in one: main()
looks at its first argument, as a Slice, to tell which.

What is hard to test here: failures in the middle (short writes, late errors of
a buffer, a write-back that fails behind the caller's back, allocations that
throw between two assignments), crashes at any step, descriptors and heap
addresses that are used again, races of threads to the singletons and of
processes to a directory, and the edges of 32-bit arithmetic and of varints.
`PROJECT.json` lists each of these at its line with the properties that watch
it.

## 2. Modules and the code

**WritableFile** is the abstract specification: the promise of the interface,
told with the counters `sent`, `flushed`, `synced`, the flag `trusted` (no call
has returned an error yet), and what the file is `found` to hold after a crash.
The implementations have no such variable: they map `found` to the pages that
survive, in order (`Found` of OSFile).
Bytes are numbered in the order they are appended. After the first error only
order is promised. `crash` tells the death of the process, after which what was
flushed is found, from that of the machine, after which what was synced is. A write-back the device fails (`faulted`) voids the promise
for death of the process, but never the one a successful Sync gave.

**FileCaller** is the caller's side that the two implementations share: it
counts what was passed to Append and records the last call and its Status.
**OSFile** is one open file in the operating system (external): page cache,
what of it is on the device, write-back and its failures, death of the process
and loss of power. **PosixErrors** is `PosixError`'s table.

**PosixWritableFile** is the unbuffered object. `AppendWrite` is a write() that
takes any part of the slice; `AppendFail` one that fails, always so when `fd_`
is -1. The module keeps the thread's `errno`, because `Append` reads it also
after a write() that did not fail. `Sync`, `Close` (whose result of close() is
dropped, as in the code) and the destructor follow. `Callable` allows calls
after Close: the code defines what they do.

**PosixBufferedWritableFile** is the buffered object: `buf` is the buffer of
the C `FILE` (external). An fwrite() may move bytes of earlier calls to the
kernel, fail for them, and keep or drop the rest. `Sync` is Flush and, only if
that succeeded, fdatasync(). Calls after Close, which would pass NULL to the C
library, are outside: no caller makes them and their effect is undefined.

**OpenFiles** is the process: objects of both kinds, made by `New`, `NewFails`,
`NewThrows`, over one table of descriptors that are reused lowest-first, with
files that O_TRUNC empties. A byte is represented by the object that wrote it,
so that a byte in the wrong file is seen. `OtherOpens` and `OtherCloses` are
the rest of the process. A descriptor can be left to nobody in one case only,
the allocation that throws after open() (`NewThrows`).

**PosixIO** is the set-up of the IO layer by threads: pthread_once around
`OpenPosixIO`, one statement a step, where each `new` may throw (pthread_once
then forgets the call, as glibc's does); then `GetTestDirectory` and
`CreateDir`, each with its one mkdir() on a small file system in which other
processes create, remove and replace the same names. `TmpDir`'s failed
assertion exits the process; the benchmark's constructor ignores the Status.
**SharedIO** is what `Default` and `GetUnBuffered` promise all those threads,
one IO that comes into being once and that every call returns. `got` is, in both
modules, the set of all that the calls of a thread have returned, nothing before
the first of them: a NULL would be an element of it, and no step of SharedIO adds
one. PosixIO maps the IO of that specification to `posix_io`, from when
pthread_once knows that the routine is done.

**Status** has objects, heap addresses and the contents of the arrays. It
follows `state_` through constructors, copies, assignments (of an object to
itself too), allocations that throw and destruction. `broken` records that a
deleted array was read or deleted again.

**Random** has the generator with M and A as parameters (2^31-1 and 16807 in
the code): masking and repair of the seed, the two-step reduction in a word of
`2 * (M + 1)` values, and the calls on top of it. `1 << k` of `Skewed` is a shift
of an int: `ArgumentsAssumption` leaves out the arguments that would shift past
its largest value, which is M.

**Slice** has the operations of a slice on the bytes it views. `compare` keeps
the shorter size in an int, as the code does; a size the int cannot hold leaves
its result open.

**Coding** has a writer that appends items, a delivery that may cut the string
or replace it by foreign bytes, and a reader of either byte order. The widths
(bits in a varint byte, bytes of the fixed integers, the longest varints) are
parameters, so that every boundary of the code occurs with small numbers:
`EncodeVarint32`'s thresholds, the last byte that does not fit, the length of a
slice that is there while its bytes are not. The two variants of
GetLengthPrefixedSlice differ in what they leave of the input then. The Decode
routines check nothing: that the bytes are there is seen to by their caller, who
is external (`GetFixed`).

**Harness** is a test program: static constructors of its files that register
tests (one file after the other, in any order), `RunAllTests` with the matcher
of C2_TESTS or else TESTS and its leading `~`, assertions that hold or end the
process, and main() of the index test, which runs the benchmark instead when
asked to. `began` records which tests were begun.

**IndexBench** is what the two benchmarks do, `c2_index_bench` and the
benchmark in `c2_index_builder_test`. `Course` lists the statements of each
BM_Main with the constructor and the destructor of the object it makes, and
there is an action for every kind of statement: keys are drawn, the directory
is made, part, column and builder are allocated, the index is built by either
of the two builds, finished, listed and queried, and the three objects are
deleted. `heap` says which of them are live and `misused` whether a statement
used one that was not. What ibis::bin does is external: `Binning` puts the
values into any ascending bins, and `Evaluate` answers with the bins inside the
range and perhaps others that have no key outside it. `nrows` is not FastBit's
alone: the granule build sets it by hand.

**IndexPrograms** puts Harness and IndexBench together. In
`c2_index_builder_test` the static constructors and main() come first, and the
benchmark runs when main() chooses it. `failed` then says whether it ended in
TmpDir's assertion or returned, and `Benchmark` of Harness gives the exit status
of each. `c2_index_bench` is not linked with the harness,
whose variables stand still there.

Operators whose comment begins with "Slip" are not part of any next-state
relation. Each is a plausible mistake in the definition that follows it, and a
property was seen to fail with it in place.

## 3. Runs and bounds

| Run | What it checks | Bounds, and why they are enough |
|---|---|---|
| unbuffered | types, `NothingLostSilently`, `SyncedIsStable`, implements `WritableFile` | 3 bytes in any fragments: a short write, a failed write between good ones, a synced, a flushed and a lost byte at once. Theorems hold for any number |
| buffered | the same and `ClosedMeansStored` | 4 bytes over a buffer of 2: it fills, overflows and fails with bytes of two calls in it; close() reports write-back errors |
| open_files | types, `DescriptorsOwned`, `NoStrayBytes`, `SoleWriterOwnsFile` | 3 objects, 2 names, 3 descriptors: reuse after Close with an old object around, exhaustion, two objects on a name and one elsewhere. Objects and names are symmetric |
| posix_io | types, `ImplementsSharedIO`, `SetUpSucceeds`, `SetUpWorks`, `SoleCreator`, `CallsReturn` | 2 threads, an allocation that throws: a builder thrown out with the other waiting for it; threads repeat the set-up without end, from every state of the directories, while others make, remove and replace them |
| random | `SeedInRange`, `CyclesThroughAll`, `DrawsInRange`, `ComputesModulo` | M = 31 = 2^5 - 1 and A = 17, a primitive root of it as 16807 is of 2^31 - 1; every seed of the word |
| status | types, `OwnsItsArray`, `NoLeak`, `SaysItsValue` | 3 objects, 3 addresses, 2 values: two errors, a third copied to a freed address |
| coding | types, `RoundTrip`, `FailsOnlyIfCut`, `FitsInPlace`, `LengthsAgree`, `SlicesOrdered` | 2-bit payloads (B = 4) in bytes of 8 values, 1 and 3 bytes for the two fixed widths, varints of at most 2 and 5 bytes; numbers on both sides of every threshold; two items; foreign strings of up to 5 bytes; the string written, the one read and their parts are the slices compared, with ints up to 7 |
| index_programs | types, `EveryTestRegistered`, `ExitTellsVerdict`, `ObjectsLive`, `VerdictsRight`, `ListingComplete`, `ProgramEnds` | files with two tests, one and none; the empty pattern, one that two files match, one that nothing matches, each with and without `~` in each variable; 2 assertions a test. 3 values in 2 bins, so that a bin has keys on both sides of a threshold; 1 or 2 keys; thresholds at both ends and between; bitmaps of 0 (NULL), 1 and 3 bytes in integers modulo 4, so that a sum wraps; either build, with and without NDEBUG |
| same_name, test_directory, unbuffered_errno, status_dangling | see section 4 | the smallest instance in which it shows |

Named bounds: `MaxBytes`, `MaxLen`, `MaxThrows`, `MaxItems`, `MaxNoise`,
`Limits`, `MaxLogs`, `MaxAsserts`, `Rows`, `MaxBins`, `Sizes`. Each ends behaviours or limits inputs; none changes what a
step does.

Deadlock is checked in the runs of PosixIO and IndexPrograms, where a process
that has exited is a step of its own (`Ended`, `ProgramEnded`). In the others the caller may be
done: every object is destroyed or the bound is reached. In PosixIO other
processes can always act, so that threads which wait for each other would show
as a violation of `CallsReturn`, not as a deadlock.

Fairness. PosixIO has weak fairness of each thread's steps, that is, the
operating system runs every thread that is not blocked. A thread inside
pthread_once is blocked while another runs the routine, and nothing is assumed
of it then; allocations need not throw and other processes need not do
anything. Under it `CallsReturn` says that every call of `Default` or
`GetUnBuffered` ends: it returns, or leaves by an exception. IndexPrograms has
weak fairness of the one thread of each program; the bodies of the tests end by
assumption (`MaxAsserts`), FastBit's functions too, and `ProgramEnds` is about
the registration, the loops and the statements around them.
No other module needs fairness.

What the properties say, beyond their definitions:

* `ImplementsContract` is the refinement: every step of the object with its
  operating system is a step of `WritableFile` or a stutter. The crash
  guarantees (what is found after a kill or a power loss) are in it.
* `ImplementsSharedIO` likewise: no call returns NULL, a half made object or a
  second one, also not the first call after an exception, and the IO is never
  exchanged.
* `SetUpWorks` does not say that the benchmark always has its directory: where
  the place is unfit it goes on without one, as it drops both Statuses. It says
  that nothing else brings it there, and that the Statuses would have told.
* `NothingLostSilently`, `SyncedIsStable` and `ImplementsContract` promise a
  caller who has been told of an error nothing but the order of the bytes. A Sync
  after that may return OK although pages are lost.
* `FitsInPlace` bounds how far the input moves. That a failed Get leaves it where
  it was is not promised, and is not so for one of them.
* `ClosedMeansStored` is a property of the buffered file only. The unbuffered
  Close drops the result of close() and returns OK always; nothing in the
  repository promises more.
* `DescriptorsOwned` says that Close followed by the destructor never closes
  a descriptor that is by then somebody else's, and none is leaked by either.
* `SoleWriterOwnsFile` is limited to names that nobody had open when they were
  last created; `NewFileIsOwn` in section 4 is what happens otherwise.
* `OwnsItsArray` and `SaysItsValue` hold until an assignment throws; the
  run status_dangling shows why the condition is there. `NoLeak` needs none.
* `SlicesOrdered` compares the code's `compare` with the order of a dictionary,
  for slices whose size an int holds.
* `EveryTestRegistered` is stated for any number of files, as the harness is
  written for; each test program of the repository links one.
* `ObjectsLive` depends on the order of three `delete`s, one of which reads the
  pointer of the next. `VerdictsRight` needs `nrows` to be right after either
  build, as it is the length of every answer, and the operator to be strict. That
  FastBit then leaves out the rows only their keys could tell apart is assumed
  (`Evaluate`). `ListingComplete` is up to multiples
  of 2^32, which the sum of the sizes may lose.

## 4. Where the code and its text disagree

Four runs end in a counterexample. (One more difference is in the model of
Harness and has no run: `testharness.h:49` describes the matcher without
C2_TESTS, which goes before TESTS, and without `~`.)

* **same_name** (`NewFileIsOwn`). `c2_io.h:60`: NewWritableFile "Deletes any
  existing file with the same name and creates a new file". The code opens with
  O_TRUNC or `"w"`, which empties the existing file. An object that still has
  the name open goes on writing into what the new object was given as its own.
* **test_directory** (`TestDirectoryIsDirectory`). GetTestDirectory takes EEXIST
  for success, and mkdir() gives EEXIST for a regular file as well: OK is
  returned for a name that is no "directory that can be used" (`c2_io.h:69`).
* **unbuffered_errno** (`StatusDescribesFailure`). A short write does not set
  errno, but Append passes errno to PosixError: the Status describes an earlier
  call of the thread. That Append fails is right, the code it fails with is not.
* **status_dangling** (`StateIsArray`). `operator=` deletes its array before it
  allocates the copy. When the allocation throws, `state_` still points to the
  deleted array, and the destructor deletes it again.

## 5. Proofs

`X_proofs` extends `X`; IndexPrograms_proofs is about Harness as well. All theorems are for every value of the constants that
the named assumptions of the modules allow.

| Module | Theorems | Inductive invariant, and what it adds |
|---|---|---|
| PosixWritableFile_proofs | `TypeCorrect`, `NothingLost`, `Durable`, `Refinement` | `IInv`: until an error, byte i is at position i (`InPlace`), what was flushed is in the page cache, and a lost page implies that the error is still pending or has been told to the caller. The last is what makes Sync's OK mean something |
| PosixBufferedWritableFile_proofs | the same and `ClosedStored` | The same over `Held`, the page cache followed by the buffer. Lemmas on `\o`, `SubSeq` and `Fragment` say what moving bytes from one to the other preserves |
| OpenFiles_proofs | `TypeCorrect`, `Owned`, `OwnFileOnly`, `SoleWriter` | An object not yet made has no descriptor and no byte in any file (`Unborn`). `NoStrayBytes` needs `DescriptorsOwned`, as a write goes to whatever file its descriptor names. For `SoleWriter` the file must besides have no descriptor open but its writer's (`SoleIn`): only then is every write at the end of the file, and leaves no hole |
| PosixIO_proofs | `TypeCorrect`, `Sharing`, `SetUpNeverFails`, `SetUpDone`, `OneCreator` | One thread at most is inside the routine, and `once` says whether; the globals it has assigned agree with its local `base`; a thread that reads them finds the routine done. For the directory: unless somebody meddled, a Status of OK (or AlreadyExists, of CreateDir) implies that it is there, and a thread past a mkdir() that finds it missing has an unfit place above it |
| Random_proofs | `NextIsModulo`, `SeedStaysInRange`, `NextComputesModulo`, `EveryDrawInRange`, `EverySeedCycles` | `NextIsModulo` is arithmetic: with `s*A = q(M+1) + r`, the sum `q + r` is congruent to `s*A` modulo M, is below 2M and is not M, as M does not divide the product. The two reductions are therefore exact. The ranges of `Skewed` need that a power of two grows with its exponent: it counts the subsets of an interval (`Powers`). For the cycle see below |
| IndexPrograms_proofs, harness | `TypeCorrect`, `AllRegistered`, `VerdictIsTrue` | The vector holds, for each file, exactly what it has registered, in order (`Registration`); the tests begun are those the matcher selects up to where the loop is (`Progress`) |
| IndexPrograms_proofs, programs | `ProgramTypeCorrect`, `ProgramRegisters`, `ProgramVerdict`, `ObjectsUsedLive`, `AnswersRight`, `ListingAddsUp` | Every step is one of the harness or leaves it alone, and the same for the benchmark (`StepsOfBoth`), so that the invariant of the harness holds of the programs. That of the benchmarks (`BInv`) says for each object between which statements it is live, and that from the build on the bitmaps hold the rows of the bins (`Indexed`), from which `Answers` shows what any query finds. `LInv` says what the loop over the bitmaps has added up so far, of the keys exactly and of the bytes modulo 2^32 |
| Coding_proofs | `TypeCorrect`, `ParsesInPlace`, `GetsWhatWasPut`, `FailsIfCut`, `LengthsAgreed`, `OrderedAsStrings` | See below |
| Status_proofs | `TypeCorrect`, `Ownership`, `NothingLeaks`, `Faithful` | Distinct objects never share an address, allocated or dangling; only a throw makes one dangle |

A refinement theorem shows that the initial states map to initial states and
that each step maps to a step of the abstract specification or a stutter, with
the inductive invariant as its hypothesis.

Assumed: the constants are naturals or Booleans as their `ASSUME`s say; the
marker values of OpenFiles and NULL of Status are none of the objects; M is
at least 2 and no product `s * A` with `s < M` is a multiple of M, which is
what the primality of 2^31-1 gives. Everything marked external in
`PROJECT.json` (the kernel, the C library, pthread_once) is assumed to behave
as modelled.

**Coding.** The argument goes from numbers to strings.

1. Digits: the value of the digits of v to a base is v but for the digits left
   out (`ValueOfDigits`), and the value of any digits has these digits
   (`DigitsOfValue`). So `DecodeFixed` undoes `EncodeFixed` on each machine.
2. Varints: each number has one length (`HasLength`, `LengthUnique`). The
   branches of EncodeVarint32, the loop of EncodeVarint64 and the loop of
   VarintLength all find it.
3. Parses: a varint at the front is read and a cut one is not, as all its bytes
   but the last have their top bit set (`VarintRead`, `VarintCut`). Whatever is
   read, it could have been written in as many bytes (`VarintFits`).
4. Steps: `GetIs` says of each Get routine, on any bytes, that it `Takes` an item
   with its bytes or `GivesUp`, and that it does the right one of the two when
   what there is `Matches` the item that is expected.
5. `IInv` holds of every reader: the bytes taken are a prefix of those given and
   as many as the items parsed take to write. From it follow `TypeCorrect`,
   `ParsesInPlace` and `OrderedAsStrings`, which for Slice adds where two strings
   first differ (`FirstDifference`, `NoDifference`).
6. `RInv` holds besides of the reader of a written string: the string is the
   items end to end (`Layout`), and the reader stands where one ends, or met the
   end of a string that was cut (`Reading`). From it follow `GetsWhatWasPut` and
   `FailsIfCut`. Their hypothesis `ShortSlices`, and that of `LengthsAgreed`, is
   that no string written is as long as 2^32 bytes: PutLengthPrefixedSlice cuts
   the length to 32 bits, and of a longer string they are false.

**The cycle of Random.** Which numbers are primitive roots is number theory, so
`EverySeedCycles` has it as a hypothesis (`Primitive`), stated for the seed 1
only; the run `random` has such an A. Then the draws from 1 are all different
and come back to 1 after M - 1 of them (`Cycle`), and the draws from any other
seed are the same cycle begun elsewhere (`SameCycle`).

**Induction.** The induction theorems of the library are about operators, which
the provers cannot instantiate. `Least` draws from the well-foundedness of the
numbers that every nonempty set of numbers has a least element, and `Induction`
is the principle for a set. It serves where a sum, a loop or a recursive
function is reasoned about (Coding, the listing of IndexBench, the draws of
Random): first that the recursion has a solution (`ChainExists` in Coding), which
the CHOOSE behind a recursive definition therefore is, and then what it computes.
Coding defines powers by such a recursion (`Power`), as the provers know nothing
of `^`; MCCoding has TLC compare the two.

Only model-checked: `CallsReturn` and `ProgramEnds`, as liveness is beyond TLAPS.
That 16807 is a primitive root of 2^31 - 1 is taken from number theory.

## 6. Not modelled

* `ibis::bin`, part and column: FastBit's code is not in the repository. What
  IndexBuilder uses of them is external and modelled as it is used; that
  destroying an index does not follow its column, nor destroying a column its
  part, is assumed. DiskStorageUsage is the same loop as MemoryUsage, over sizes
  of its own, and is not listed apart from it.
* Of IndexBuilder, `Reset()`, which nothing calls, and `file_`, which both
  callers leave NULL. Of the benchmarks, an allocation that throws (nothing
  catches it, the process ends), the formatting of the index specification and
  the arguments `--strategy` outside 0 .. 2, which indexes past a table, and `-n`
  of 0 or below: reserve() throws for a negative number and ends the process, and
  what FastBit makes of no rows is not known here.
* `RandomSeed`: a pure function of the environment, which nothing calls.
* Slice's constructors, `clear`, `ToString`, `c_str` and `substr`, which hand the
  bytes over unchanged.
* The messages of Status and PosixError, `ToString`, logging: formatting only.
* Env: the clock and usleep; their values are printed and decide nothing.
* Column and Part: declarations without code, not built. Mutex and CondVar:
  declared in `port_posix.h`, defined nowhere.
* The generators of test strings: formatting of Random's numbers.

## 7. Plan

The order followed so far puts the behaviour whose failure costs data first.

1. Done: `WritableFile` and its two implementations, with refinement and proofs.
2. Done: `OpenFiles`, `PosixIO`, `Status`, `Random`, `Harness`, `Coding` with
   proofs.
3. Done: `SharedIO` as the specification of the singletons; `IndexBench` and
   `IndexPrograms` with proofs; `Slice`, checked and proved along with Coding.
4. Every invariant, action property and refinement that a run checks is now a
   theorem. What could be added are theorems about the runs of section 4: under
   which condition on the caller each of the four disagreements cannot occur.
5. With FastBit's source at hand, the ibis::bin that is external here.
