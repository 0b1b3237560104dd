------------------------------- MODULE PosixIO -------------------------------
(***************************************************************************)
(* The IO singletons of c2_io_posix.cc and their directory operations.     *)
(* The threads of a process build the two singletons through pthread_once  *)
(* and then set up a working directory, as the constructor of IndexBench   *)
(* (c2_index_bench.cc) and the tests (through TmpDir of testharness.cc)    *)
(* do.  Other processes of the same user set up the same directory.        *)
(***************************************************************************)
EXTENDS Naturals, PosixErrors

CONSTANTS Threads,
          MaxThrows     \* bound: allocations that throw inside OpenPosixIO

ASSUME MaxThrowsAssumption == MaxThrows \in Nat

VARIABLES
  once,           \* the pthread_once_t: "new", "running" or "done"
  posix_io,       \* the PosixIO, by number; NULL is 0
  posix_io_buf,   \* the PosixIO that the buffering wrapper forwards to, or NULL
  made,           \* the PosixIO objects allocated so far
  throws,         \* the allocations that threw
  pc, base,       \* of each thread: where it is, and its local base
  got,            \* of each thread: all that Default and GetUnBuffered have returned
  fs,             \* what the test directory and the directory in it name
  top,            \* the directory above them: "ok", "missing" or "denied"
  meddled,        \* somebody has removed a directory, or taken its name for a file
  test, sub,      \* of each thread: the Status of GetTestDirectory and of CreateDir
  exited          \* a failed assertion has called exit(1)

onceVars == <<once, posix_io, posix_io_buf, made, throws, base, got>>
dirVars  == <<fs, top, meddled, test, sub, exited>>
vars     == <<onceVars, dirVars, pc>>

NULL == 0
Dirs == {"test", "sub"}
Steps == {"start", "once", "newbase", "newbuf", "setbase", "return", "read",
          "gettest", "createsub"}

Init ==
  /\ once = "new" /\ posix_io = NULL /\ posix_io_buf = NULL
  /\ made = 0 /\ throws = 0
  /\ pc = [t \in Threads |-> "start"]
  /\ base = [t \in Threads |-> NULL] /\ got = [t \in Threads |-> {}]
  /\ fs \in [Dirs -> {"none", "dir", "file"}]
  /\ fs["sub"] # "none" => fs["test"] = "dir"
  /\ top \in {"ok", "missing", "denied"} /\ (top = "missing" => fs["test"] = "none")
  /\ meddled = \E d \in Dirs : fs[d] = "file"
  /\ test = [t \in Threads |-> "none"] /\ sub = [t \in Threads |-> "none"]
  /\ exited = FALSE

TypeOK ==
  /\ once \in {"new", "running", "done"}
  /\ made \in 0 .. MaxThrows + 1 /\ throws \in 0 .. MaxThrows
  /\ posix_io \in 0 .. made /\ posix_io_buf \in 0 .. made
  /\ pc \in [Threads -> Steps]
  /\ base \in [Threads -> 0 .. made] /\ got \in [Threads -> SUBSET (0 .. made)]
  /\ fs \in [Dirs -> {"none", "dir", "file"}]
  /\ top \in {"ok", "missing", "denied"}
  /\ meddled \in BOOLEAN /\ exited \in BOOLEAN
  /\ test \in [Threads -> Codes \cup {"none"}] /\ sub \in [Threads -> Codes \cup {"none"}]

-----------------------------------------------------------------------------
(* pthread_once(&once, OpenPosixIO), one statement of the routine a step.  *)

Goes(t, from, to) == ~exited /\ pc[t] = from /\ pc' = [pc EXCEPT ![t] = to]

CallOnce(t) ==
  /\ Goes(t, "start", "once")
  /\ UNCHANGED <<onceVars, dirVars>>

OnceDone(t) ==
  /\ Goes(t, "once", "read")
  /\ once = "done"
  /\ UNCHANGED <<onceVars, dirVars>>

\* Slip: a plain flag in place of pthread_once, set before the routine is run.
OnceRunFlag(t) ==
  /\ Goes(t, "once", "newbase")
  /\ once = "new"
  /\ once' = "done"
  /\ UNCHANGED <<posix_io, posix_io_buf, made, throws, base, got, dirVars>>

OnceRun(t) ==
  /\ Goes(t, "once", "newbase")
  /\ once = "new"
  /\ once' = "running"
  /\ UNCHANGED <<posix_io, posix_io_buf, made, throws, base, got, dirVars>>

NewBase(t) ==
  /\ Goes(t, "newbase", "newbuf")
  /\ made' = made + 1
  /\ base' = [base EXCEPT ![t] = made']
  /\ UNCHANGED <<once, posix_io, posix_io_buf, throws, got, dirVars>>

\* Slip: the routine asks for its base with GetUnBuffered(), through the same
\* pthread_once.
NewBufferedReentrant(t) ==
  /\ Goes(t, "newbuf", "once")
  /\ UNCHANGED <<onceVars, dirVars>>

NewBuffered(t) ==
  /\ Goes(t, "newbuf", "setbase")
  /\ posix_io_buf' = base[t]
  /\ UNCHANGED <<once, posix_io, made, throws, base, got, dirVars>>

SetBase(t) ==
  /\ Goes(t, "setbase", "return")
  /\ posix_io' = base[t]
  /\ UNCHANGED <<once, posix_io_buf, made, throws, base, got, dirVars>>

OnceReturn(t) ==
  /\ Goes(t, "return", "read")
  /\ once' = "done"
  /\ UNCHANGED <<posix_io, posix_io_buf, made, throws, base, got, dirVars>>

\* A new throws: the exception goes through pthread_once, which forgets the
\* call, and the thread may try again.  A base that was made is leaked.
Throw(t) ==
  /\ throws < MaxThrows
  /\ Goes(t, "newbase", "start") \/ Goes(t, "newbuf", "start")
  /\ throws' = throws + 1
  /\ once' = "new"
  /\ UNCHANGED <<posix_io, posix_io_buf, made, base, got, dirVars>>

\* Default() returns posix_io_buf, GetUnBuffered() returns posix_io.
Read(t) ==
  /\ Goes(t, "read", "gettest")
  /\ \E p \in {posix_io, posix_io_buf} : got' = [got EXCEPT ![t] = @ \cup {p}]
  /\ UNCHANGED <<once, posix_io, posix_io_buf, made, throws, base, dirVars>>

-----------------------------------------------------------------------------
(* The directory operations.  Each makes one system call, mkdir().         *)

\* The errno of mkdir(d), or "none" when it succeeds.
MkdirErrno(d) ==
  IF      \/ d = "test" /\ top = "missing"
          \/ d = "sub" /\ fs["test"] = "none"  THEN "ENOENT"
  ELSE IF d = "sub" /\ fs["test"] = "file"     THEN "ENOTDIR"
  ELSE IF fs[d] # "none"                       THEN "EEXIST"
  ELSE IF d = "test" /\ top = "denied"         THEN "EACCES"
  ELSE                                              "none"

Mkdir(d) == fs' = [fs EXCEPT ![d] = IF MkdirErrno(d) = "none" THEN "dir" ELSE @]

\* Slip: a directory that exists is taken for one that was created.
CreateDirExisting(d) ==
  IF MkdirErrno(d) \in {"none", "EEXIST"} THEN "OK" ELSE PosixError(MkdirErrno(d))

CreateDirStatus(d) == IF MkdirErrno(d) = "none" THEN "OK" ELSE PosixError(MkdirErrno(d))

\* Slip: that the directory exists is an error.
TestDirectoryStrict == CreateDirStatus("test")

TestDirectoryStatus ==
  IF CreateDirStatus("test") = "AlreadyExists" THEN "OK" ELSE CreateDirStatus("test")

\* Slip: a directory that the environment names is taken to be there.
GetTestDirectoryNamed(t) ==
  /\ Goes(t, "gettest", "createsub")
  /\ test' = [test EXCEPT ![t] = "OK"]
  /\ UNCHANGED <<onceVars, fs, top, meddled, sub, exited>>

\* IndexBench ignores the Status; TmpDir() asserts that it is OK, and exits.
GetTestDirectory(t) ==
  /\ Goes(t, "gettest", "createsub")
  /\ Mkdir("test")
  /\ test' = [test EXCEPT ![t] = TestDirectoryStatus]
  /\ exited' \in {FALSE, test'[t] # "OK"}
  /\ UNCHANGED <<onceVars, top, meddled, sub>>

\* The Status is ignored by every caller.
CreateSubdirectory(t) ==
  /\ Goes(t, "createsub", "start")
  /\ Mkdir("sub")
  /\ sub' = [sub EXCEPT ![t] = CreateDirStatus("sub")]
  /\ UNCHANGED <<onceVars, top, meddled, test, exited>>

-----------------------------------------------------------------------------
(* Other processes.                                                        *)

OtherProcessSetsUp ==
  /\ ~exited
  /\ \E d \in Dirs : MkdirErrno(d) = "none" /\ Mkdir(d)
  /\ UNCHANGED <<onceVars, top, meddled, test, sub, exited, pc>>

Removed == [fs EXCEPT !["sub"] = "none"]

\* Directories are removed, bottom up; a file takes a name that is free; the
\* directory above is made, or its permissions are changed.
OtherProcessMeddles ==
  /\ ~exited
  /\ meddled' = TRUE
  /\ \/ /\ \/ fs["sub"] # "none" /\ fs' = Removed
           \/ fs["sub"] = "none" /\ fs["test"] # "none" /\ fs' = [fs EXCEPT !["test"] = "none"]
           \/ \E d \in Dirs : MkdirErrno(d) = "none" /\ fs' = [fs EXCEPT ![d] = "file"]
        /\ UNCHANGED top
     \/ top' \in {"ok", "denied"} /\ UNCHANGED fs
  /\ UNCHANGED <<onceVars, test, sub, exited, pc>>

Step(t) ==
  \/ CallOnce(t) \/ OnceDone(t) \/ OnceRun(t) \/ NewBase(t) \/ NewBuffered(t)
  \/ SetBase(t) \/ OnceReturn(t) \/ Throw(t) \/ Read(t)
  \/ GetTestDirectory(t) \/ CreateSubdirectory(t)

\* exit(1) ends every thread.
Ended == exited /\ UNCHANGED vars

Next == (\E t \in Threads : Step(t)) \/ OtherProcessSetsUp \/ OtherProcessMeddles \/ Ended

\* The operating system runs every thread that is not blocked.
Fairness == \A t \in Threads : WF_vars(Step(t))

Spec == Init /\ [][Next]_vars /\ Fairness

-----------------------------------------------------------------------------
(* Properties.                                                             *)

\* Whatever threads race to the singletons and whatever allocations throw, the
\* calls keep the promise of SharedIO.  The IO is there when pthread_once is
\* done, not when posix_io is assigned: no call returns NULL, not even the first
\* after an exception, a PosixIO of the thread's own or one that is exchanged
\* later, directly or through the wrapper.
Shared == INSTANCE SharedIO
          WITH Threads <- Threads, got <- got,
               io <- IF once = "done" THEN posix_io ELSE NULL
ImplementsSharedIO == Shared!Spec

\* A call of Default() or GetUnBuffered() ends, also when the thread that was
\* building the singletons was thrown out of it.
CallsReturn ==
  \A t \in Threads : pc[t] = "once" ~> pc[t] = "start" \/ pc[t] = "gettest" \/ exited

\* However the threads and the processes race for the directory, none of them
\* is told that it could not be made when its place is fit for it.
SetUpSucceeds == top = "ok" /\ ~meddled => ~exited /\ \A t \in Threads : test[t] \in {"none", "OK"}

\* GetTestDirectory never says OK in vain.  And a thread that goes on after the
\* set-up without its directory, as the benchmark does that looks at neither
\* Status, can do so only where the place is unfit, never because of a race; the
\* Statuses of both calls have then told of it.
SetUpWorks ==
  ~meddled => \A t \in Threads :
    /\ test[t] = "OK" => fs["test"] = "dir"
    /\ sub[t] # "none" /\ fs["sub"] # "dir" =>
         top # "ok" /\ test[t] # "OK" /\ sub[t] \notin {"OK", "AlreadyExists"}

\* CreateDir says OK to one caller only: the others find it AlreadyExists.
SoleCreator ==
  ~meddled => \A t, u \in Threads : sub[t] = "OK" /\ sub[u] = "OK" => t = u

\* c2_io.h:69, "Set *path to a temporary directory that can be used for testing":
\* an OK names a directory.
TestDirectoryIsDirectory ==
  [][\A t \in Threads : pc[t] = "gettest" /\ pc'[t] = "createsub" /\ test'[t] = "OK"
       => fs'["test"] = "dir"]_vars
=============================================================================
