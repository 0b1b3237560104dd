--------------------------- MODULE PosixIO_proofs ----------------------------
(***************************************************************************)
(* Safety of PosixIO for any number of threads and of allocations that     *)
(* throw.  (CallsReturn is a liveness property: it is only checked.)       *)
(***************************************************************************)
EXTENDS PosixIO, TLAPS

\* The thread that runs OpenPosixIO.
Builds(t) == pc[t] \in {"newbase", "newbuf", "setbase", "return"}

\* At most one thread is in OpenPosixIO, and what it has assigned so far is
\* what it has made; afterwards nobody is, and the globals stay.
OnceInv ==
  /\ \A t, u \in Threads : Builds(t) /\ Builds(u) => t = u
  /\ \A t \in Threads :
       /\ Builds(t) => once = "running"
       /\ pc[t] \in {"newbuf", "setbase", "return"} => base[t] # NULL
       /\ pc[t] \in {"setbase", "return"} => posix_io_buf = base[t]
       /\ pc[t] = "return" => posix_io = base[t]
       /\ pc[t] = "read" => once = "done"
       /\ pc[t] \in {"gettest", "createsub"} => once = "done"
  /\ once = "done" => posix_io = posix_io_buf /\ posix_io # NULL

\* A base that was made is leaked by an exception, or kept.
MadeInv ==
  /\ made <= throws + 1
  /\ once = "new" => made <= throws
  /\ \A t \in Threads : pc[t] = "newbase" => made <= throws

\* While nobody meddles, the directories only come into being, in their order,
\* and each thread finds those that it has asked for.
DirInv ==
  ~meddled =>
    /\ \A d \in Dirs : fs[d] # "file"
    /\ fs["sub"] # "none" => fs["test"] = "dir"
    /\ \A t \in Threads :
         /\ test[t] = "OK" => fs["test"] = "dir"
         /\ pc[t] = "createsub" /\ fs["test"] = "none" => top # "ok"
         /\ sub[t] # "none" /\ fs["test"] = "none" => top # "ok"
         /\ sub[t] # "none" /\ fs["test"] = "dir" => fs["sub"] = "dir"
         /\ sub[t] \in {"OK", "AlreadyExists"} => fs["sub"] = "dir"

DirSafe == SetUpSucceeds /\ SoleCreator

OnceTypeOK ==
  /\ once \in {"new", "running", "done"}
  /\ made \in Nat /\ throws \in 0 .. MaxThrows
  /\ posix_io \in 0 .. made /\ posix_io_buf \in 0 .. made
  /\ pc \in [Threads -> Steps]
  /\ base \in [Threads -> 0 .. made] /\ got \in [Threads -> SUBSET (0 .. made)]

DirTypeOK ==
  /\ fs \in [Dirs -> {"none", "dir", "file"}]
  /\ top \in {"ok", "missing", "denied"} /\ (top = "missing" => fs["test"] = "none")
  /\ meddled \in BOOLEAN /\ exited \in BOOLEAN
  /\ test \in [Threads -> Codes \cup {"none"}] /\ sub \in [Threads -> Codes \cup {"none"}]

IInv == OnceTypeOK /\ MadeInv /\ OnceInv /\ DirTypeOK /\ DirInv /\ DirSafe

USE MaxThrowsAssumption DEF NULL, Steps, Dirs

-----------------------------------------------------------------------------
(* mkdir.                                                                  *)

\* Whatever mkdir() says, the Status built from it is one of the codes.
LEMMA StatusIsCode ==
  ASSUME NEW d \in Dirs  PROVE CreateDirStatus(d) \in Codes /\ TestDirectoryStatus \in Codes
<1>1. \A e \in Errnos : PosixError(e) \in Codes  BY DEF PosixError, Errnos, Codes
<1>2. \A x \in Dirs : MkdirErrno(x) \in Errnos  BY DEF MkdirErrno, Errnos
<1>3. \A x \in Dirs : CreateDirStatus(x) \in Codes  BY <1>1, <1>2 DEF CreateDirStatus, Codes
<1> QED  BY <1>3 DEF TestDirectoryStatus, Codes

\* What mkdir() of the test directory does when nobody meddles.
LEMMA MkdirTest ==
  ASSUME DirTypeOK, fs["test"] # "file", Mkdir("test")
  PROVE  /\ fs["test"] = "dir" => fs' = fs /\ TestDirectoryStatus = "OK"
         /\ fs["test"] = "none" /\ top = "ok" =>
              fs'["test"] = "dir" /\ fs'["sub"] = fs["sub"] /\ TestDirectoryStatus = "OK"
         /\ fs["test"] = "none" /\ top # "ok" => fs' = fs /\ TestDirectoryStatus # "OK"
<1> USE DEF DirTypeOK, Mkdir
<1>1. CASE fs["test"] = "dir"
  <2>1. MkdirErrno("test") = "EEXIST"  BY <1>1 DEF MkdirErrno
  <2>2. TestDirectoryStatus = "OK"
    BY <2>1 DEF TestDirectoryStatus, CreateDirStatus, PosixError
  <2> QED  BY <1>1, <2>1, <2>2
<1>2. CASE fs["test"] = "none" /\ top = "ok"
  <2>1. MkdirErrno("test") = "none"  BY <1>2 DEF MkdirErrno
  <2>2. TestDirectoryStatus = "OK"  BY <2>1 DEF TestDirectoryStatus, CreateDirStatus
  <2> QED  BY <1>2, <2>1, <2>2
<1>3. CASE fs["test"] = "none" /\ top # "ok"
  <2>1. MkdirErrno("test") \in {"ENOENT", "EACCES"}  BY <1>3 DEF MkdirErrno
  <2>2. TestDirectoryStatus # "OK"
    BY <2>1 DEF TestDirectoryStatus, CreateDirStatus, PosixError
  <2> QED  BY <1>3, <2>1, <2>2
<1> QED  BY <1>1, <1>2, <1>3

\* And what mkdir() of the directory in it does.
LEMMA MkdirSub ==
  ASSUME DirTypeOK, \A d \in Dirs : fs[d] # "file", Mkdir("sub"),
         fs["sub"] # "none" => fs["test"] = "dir"
  PROVE  /\ fs'["test"] = fs["test"]
         /\ fs["test"] = "dir" => fs'["sub"] = "dir"
         /\ fs["test"] = "none" =>
              fs'["sub"] = "none" /\ CreateDirStatus("sub") \notin {"OK", "AlreadyExists"}
         /\ fs["sub"] = "dir" => CreateDirStatus("sub") # "OK"
<1> USE DEF DirTypeOK, Mkdir
<1>1. CASE fs["test"] = "none"
  <2>1. MkdirErrno("sub") = "ENOENT"  BY <1>1 DEF MkdirErrno
  <2> QED  BY <1>1, <2>1 DEF CreateDirStatus, PosixError
<1>2. CASE fs["test"] = "dir" /\ fs["sub"] = "none"
  <2>1. MkdirErrno("sub") = "none"  BY <1>2 DEF MkdirErrno
  <2> QED  BY <1>2, <2>1
<1>3. CASE fs["test"] = "dir" /\ fs["sub"] = "dir"
  <2>1. MkdirErrno("sub") = "EEXIST"  BY <1>3 DEF MkdirErrno
  <2> QED  BY <1>3, <2>1 DEF CreateDirStatus, PosixError
<1> QED  BY <1>1, <1>2, <1>3

-----------------------------------------------------------------------------
(* The two halves of the state change in different steps.                  *)

LEMMA InitInv == Init => IInv
<1> SUFFICES ASSUME Init PROVE IInv  OBVIOUS
<1> USE DEF Init
<1>1. OnceTypeOK  BY DEF OnceTypeOK
<1>2. MadeInv  BY DEF MadeInv
<1>3. OnceInv  BY DEF OnceInv, Builds
<1>4. DirTypeOK  BY Zenon DEF DirTypeOK
<1>5. DirInv  BY DEF DirInv
<1>6. DirSafe  BY DEF DirSafe, SetUpSucceeds, SoleCreator
<1> QED  BY <1>1, <1>2, <1>3, <1>4, <1>5, <1>6 DEF IInv

\* A step of pthread_once.
OnceStep(t) ==
  \/ CallOnce(t) \/ OnceDone(t) \/ OnceRun(t) \/ NewBase(t) \/ NewBuffered(t)
  \/ SetBase(t) \/ OnceReturn(t) \/ Throw(t) \/ Read(t)

LEMMA OncePreserved ==
  ASSUME OnceTypeOK, MadeInv, OnceInv, NEW t \in Threads, OnceStep(t)
  PROVE  OnceTypeOK' /\ MadeInv' /\ OnceInv'
<1> USE DEF OnceTypeOK, MadeInv, OnceInv, Builds, Goes, onceVars
<1>1. CASE CallOnce(t)  BY <1>1 DEF CallOnce
<1>2. CASE OnceDone(t)  BY <1>2 DEF OnceDone
<1>3. CASE OnceRun(t)  BY <1>3 DEF OnceRun
<1>4. CASE NewBase(t)  BY <1>4 DEF NewBase
<1>5. CASE NewBuffered(t)  BY <1>5 DEF NewBuffered
<1>6. CASE SetBase(t)  BY <1>6 DEF SetBase
<1>7. CASE OnceReturn(t)  BY <1>7 DEF OnceReturn
<1>8. CASE Throw(t)  BY <1>8 DEF Throw
<1>9. CASE Read(t)  BY <1>9 DEF Read
<1> QED  BY <1>1, <1>2, <1>3, <1>4, <1>5, <1>6, <1>7, <1>8, <1>9 DEF OnceStep

\* It leaves the directories alone, and no thread before mkdir().
LEMMA OnceLeavesDirs ==
  ASSUME OnceTypeOK, DirTypeOK, DirInv, DirSafe, NEW t \in Threads, OnceStep(t)
  PROVE  DirTypeOK' /\ DirInv' /\ DirSafe'
<1>1. UNCHANGED dirVars
  BY DEF OnceStep, CallOnce, OnceDone, OnceRun, NewBase, NewBuffered, SetBase,
         OnceReturn, Throw, Read
<1>2. \A u \in Threads : pc'[u] = "createsub" => pc[u] = "createsub"
  BY DEF OnceStep, CallOnce, OnceDone, OnceRun, NewBase, NewBuffered, SetBase,
         OnceReturn, Throw, Read, Goes, OnceTypeOK
<1>3. DirTypeOK'  BY <1>1 DEF DirTypeOK, dirVars
<1>4. DirInv'  BY <1>1, <1>2 DEF DirInv, dirVars
<1>5. DirSafe'  BY <1>1 DEF DirSafe, SetUpSucceeds, SoleCreator, dirVars
<1> QED  BY <1>3, <1>4, <1>5

\* A step that leaves the singletons alone, whatever it does to directories.
LEMMA DirsLeaveOnce ==
  ASSUME OnceTypeOK, MadeInv, OnceInv, UNCHANGED onceVars,
         \/ UNCHANGED pc
         \/ \E t \in Threads : Goes(t, "gettest", "createsub") \/ Goes(t, "createsub", "start")
  PROVE  OnceTypeOK' /\ MadeInv' /\ OnceInv'
<1> USE DEF onceVars, OnceTypeOK, MadeInv, OnceInv, Builds, Goes
<1>1. CASE UNCHANGED pc  BY <1>1
<1>2. ASSUME NEW t \in Threads, Goes(t, "gettest", "createsub")
      PROVE  OnceTypeOK' /\ MadeInv' /\ OnceInv'
  BY <1>2
<1>3. ASSUME NEW t \in Threads, Goes(t, "createsub", "start")
      PROVE  OnceTypeOK' /\ MadeInv' /\ OnceInv'
  BY <1>3
<1> QED  BY <1>1, <1>2, <1>3

LEMMA GetTestDirectoryPreserves ==
  ASSUME OnceTypeOK, DirTypeOK, DirInv, DirSafe, NEW t \in Threads, GetTestDirectory(t)
  PROVE  DirTypeOK' /\ DirInv' /\ DirSafe'
<1> USE DEF GetTestDirectory, Goes, OnceTypeOK
<1>1. DirTypeOK'
  <2>1. TestDirectoryStatus \in Codes  BY StatusIsCode
  <2>2. fs' \in [Dirs -> {"none", "dir", "file"}] /\ (top = "missing" => fs'["test"] = "none")
    BY DEF DirTypeOK, Mkdir, MkdirErrno
  <2>3. exited' \in BOOLEAN  BY Zenon DEF DirTypeOK
  <2> QED  BY <2>1, <2>2, <2>3 DEF DirTypeOK
<1>2. CASE meddled
  BY <1>1, <1>2 DEF DirInv, DirSafe, SetUpSucceeds, SoleCreator
<1>3. CASE ~meddled
  <2>1. fs["test"] # "file"  BY <1>3 DEF DirInv
  <2>2. /\ fs["test"] = "dir" => fs' = fs /\ TestDirectoryStatus = "OK"
        /\ fs["test"] = "none" /\ top = "ok" =>
             fs'["test"] = "dir" /\ fs'["sub"] = fs["sub"] /\ TestDirectoryStatus = "OK"
        /\ fs["test"] = "none" /\ top # "ok" => fs' = fs /\ TestDirectoryStatus # "OK"
    BY <2>1, MkdirTest
  <2>3. fs["test"] \in {"none", "dir"} /\ fs["sub"] \in {"none", "dir"}
    BY <1>3 DEF DirInv, DirTypeOK
  <2>4. DirInv'
    BY <1>1, <1>3, <2>2, <2>3 DEF DirInv, DirTypeOK
  <2>5. SetUpSucceeds'
    <3>1. CASE top = "ok"
      <4>1. ~exited /\ \A u \in Threads : test[u] \in {"none", "OK"}
        BY <1>3, <3>1 DEF DirSafe, SetUpSucceeds
      <4>2. test' = [test EXCEPT ![t] = "OK"]  BY <2>2, <2>3, <3>1
      <4>3. test'[t] = "OK"  BY <4>2 DEF DirTypeOK
      <4>4. ~exited'  BY <4>3
      <4> QED  BY <4>1, <4>2, <4>4 DEF SetUpSucceeds, DirTypeOK
    <3> QED  BY <3>1 DEF SetUpSucceeds
  <2>6. SoleCreator'  BY DEF DirSafe, SoleCreator
  <2> QED  BY <1>1, <2>4, <2>5, <2>6 DEF DirSafe
<1> QED  BY <1>2, <1>3

LEMMA CreateSubdirectoryPreserves ==
  ASSUME OnceTypeOK, DirTypeOK, DirInv, DirSafe, NEW t \in Threads, CreateSubdirectory(t)
  PROVE  DirTypeOK' /\ DirInv' /\ DirSafe'
<1> USE DEF CreateSubdirectory, Goes, OnceTypeOK
<1>1. DirTypeOK'
  <2>1. CreateDirStatus("sub") \in Codes  BY StatusIsCode
  <2>2. fs' \in [Dirs -> {"none", "dir", "file"}] /\ fs'["test"] = fs["test"]
    BY DEF DirTypeOK, Mkdir
  <2> QED  BY <2>1, <2>2 DEF DirTypeOK
<1>2. CASE meddled
  BY <1>1, <1>2 DEF DirInv, DirSafe, SetUpSucceeds, SoleCreator
<1>3. CASE ~meddled
  <2>1. fs["test"] \in {"none", "dir"} /\ fs["sub"] \in {"none", "dir"}
    BY <1>3 DEF DirInv, DirTypeOK
  <2>2. /\ fs'["test"] = fs["test"]
        /\ fs["test"] = "dir" => fs'["sub"] = "dir"
        /\ fs["test"] = "none" =>
             fs'["sub"] = "none" /\ CreateDirStatus("sub") \notin {"OK", "AlreadyExists"}
        /\ fs["sub"] = "dir" => CreateDirStatus("sub") # "OK"
    BY <1>3, MkdirSub DEF DirInv
  <2>3. DirInv'
    BY <1>1, <1>3, <2>1, <2>2 DEF DirInv, DirTypeOK
  <2>4. SetUpSucceeds'  BY DEF DirSafe, SetUpSucceeds
  <2>5. SoleCreator'  BY <1>3, <2>2 DEF DirSafe, SoleCreator, DirInv, DirTypeOK
  <2> QED  BY <1>1, <2>3, <2>4, <2>5 DEF DirSafe
<1> QED  BY <1>2, <1>3

LEMMA OthersPreserve ==
  ASSUME OnceTypeOK, DirTypeOK, DirInv, DirSafe, OtherProcessSetsUp \/ OtherProcessMeddles
  PROVE  DirTypeOK' /\ DirInv' /\ DirSafe'
<1>1. CASE OtherProcessSetsUp
  <2> USE <1>1 DEF OtherProcessSetsUp
  <2>1. PICK d \in Dirs : MkdirErrno(d) = "none" /\ Mkdir(d)  OBVIOUS
  <2>2. fs' = [fs EXCEPT ![d] = "dir"] /\ fs[d] = "none"
    BY <2>1 DEF Mkdir, MkdirErrno
  <2>3. IF d = "sub" THEN fs["test"] # "none" ELSE top = "ok"
    BY <2>1 DEF MkdirErrno, DirTypeOK
  <2>4. DirTypeOK'  BY <2>2, <2>3 DEF DirTypeOK
  <2>5. DirInv'  BY <2>2, <2>3, <2>4 DEF DirInv, DirTypeOK
  <2>6. DirSafe'  BY DEF DirSafe, SetUpSucceeds, SoleCreator
  <2> QED  BY <2>4, <2>5, <2>6
<1>2. CASE OtherProcessMeddles
  <2> USE <1>2 DEF OtherProcessMeddles
  <2>1. /\ fs' \in [Dirs -> {"none", "dir", "file"}]
        /\ top = "missing" => fs'["test"] = "none"
    BY DEF DirTypeOK, Removed, MkdirErrno
  <2>2. DirTypeOK'  BY <2>1 DEF DirTypeOK
  <2> QED  BY <2>2 DEF DirInv, DirSafe, SetUpSucceeds, SoleCreator
<1> QED  BY <1>1, <1>2

-----------------------------------------------------------------------------
LEMMA StepInv == IInv /\ [Next]_vars => IInv'
<1> SUFFICES ASSUME IInv, [Next]_vars PROVE IInv'  OBVIOUS
<1> USE DEF IInv
<1>1. ASSUME NEW t \in Threads, OnceStep(t) PROVE IInv'
  BY <1>1, OncePreserved, OnceLeavesDirs
<1>2. ASSUME NEW t \in Threads, GetTestDirectory(t) PROVE IInv'
  <2>1. UNCHANGED onceVars /\ Goes(t, "gettest", "createsub")  BY <1>2 DEF GetTestDirectory
  <2> QED  BY <1>2, <2>1, DirsLeaveOnce, GetTestDirectoryPreserves
<1>3. ASSUME NEW t \in Threads, CreateSubdirectory(t) PROVE IInv'
  <2>1. UNCHANGED onceVars /\ Goes(t, "createsub", "start")  BY <1>3 DEF CreateSubdirectory
  <2> QED  BY <1>3, <2>1, DirsLeaveOnce, CreateSubdirectoryPreserves
<1>4. CASE OtherProcessSetsUp \/ OtherProcessMeddles
  <2>1. UNCHANGED <<onceVars, pc>>
    BY <1>4 DEF OtherProcessSetsUp, OtherProcessMeddles
  <2> QED  BY <1>4, <2>1, DirsLeaveOnce, OthersPreserve
<1>5. CASE UNCHANGED vars
  <2>1. UNCHANGED <<onceVars, pc>>  BY <1>5 DEF vars
  <2>2. DirTypeOK' /\ DirInv' /\ DirSafe'
    BY <1>5 DEF vars, dirVars, DirTypeOK, DirInv, DirSafe, SetUpSucceeds, SoleCreator
  <2> QED  BY <2>1, <2>2, DirsLeaveOnce
<1> QED  BY <1>1, <1>2, <1>3, <1>4, <1>5 DEF Next, Step, OnceStep, Ended

\* The inductive invariant holds in every state.
THEOREM Invariance == Spec => []IInv
BY InitInv, StepInv, PTL DEF Spec

\* The variables keep their types.
THEOREM TypeCorrect == Spec => []TypeOK
<1>1. IInv => TypeOK
  BY DEF IInv, OnceTypeOK, MadeInv, DirTypeOK, TypeOK
<1> QED  BY <1>1, Invariance, PTL

\* Every step of the threads is one of SharedIO, or none: only the return from
\* OpenPosixIO brings the IO about, and only Read hands it out.
LEMMA StepShares ==
  ASSUME IInv, [Next]_vars
  PROVE  [Shared!Next]_(Shared!vars)
<1> USE DEF Shared!vars, onceVars, dirVars, OnceInv, OnceTypeOK
<1>1. ASSUME NEW t \in Threads, OnceReturn(t)
      PROVE  Shared!Open
  BY <1>1 DEF IInv, OnceReturn, Goes, Builds, Shared!Open
<1>2. ASSUME NEW t \in Threads, Read(t)
      PROVE  Shared!Return(t)
  BY <1>2 DEF IInv, Read, Goes, Shared!Return
<1>3. ASSUME NEW t \in Threads,
             \/ CallOnce(t) \/ OnceDone(t) \/ OnceRun(t) \/ NewBase(t) \/ NewBuffered(t)
             \/ SetBase(t) \/ Throw(t) \/ GetTestDirectory(t) \/ CreateSubdirectory(t)
      PROVE  UNCHANGED Shared!vars
  BY <1>3 DEF IInv, Goes, Builds, CallOnce, OnceDone, OnceRun, NewBase, NewBuffered, SetBase,
              Throw, GetTestDirectory, CreateSubdirectory
<1>4. CASE OtherProcessSetsUp \/ OtherProcessMeddles \/ Ended \/ UNCHANGED vars
  BY <1>4 DEF OtherProcessSetsUp, OtherProcessMeddles, Ended, vars
<1> QED  BY <1>1, <1>2, <1>3, <1>4 DEF Next, Step, Shared!Next

\* Every call of every thread returns the one PosixIO and never NULL, whatever
\* race and whatever exception.
THEOREM Sharing == Spec => ImplementsSharedIO
<1>1. Init => Shared!Init  BY DEF Init, Shared!Init
<1>2. IInv /\ [Next]_vars => [Shared!Next]_(Shared!vars)  BY StepShares
<1> QED  BY <1>1, <1>2, Invariance, PTL DEF Spec, ImplementsSharedIO, Shared!Spec

\* No race makes the set-up of the directories fail.
THEOREM SetUpNeverFails == Spec => []SetUpSucceeds
BY Invariance, PTL DEF IInv, DirSafe

\* After the set-up the directories are there, or their place is unfit and the
\* Statuses have said so.
THEOREM SetUpDone == Spec => []SetUpWorks
<1>1. IInv => SetUpWorks
  <2> SUFFICES ASSUME IInv, ~meddled, NEW t \in Threads,
                      sub[t] # "none", fs["sub"] # "dir"
               PROVE  top # "ok" /\ test[t] # "OK" /\ sub[t] \notin {"OK", "AlreadyExists"}
    BY DEF IInv, DirInv, SetUpWorks
  <2>1. fs["test"] = "none"  BY DEF IInv, DirInv, DirTypeOK
  <2> QED  BY <2>1 DEF IInv, DirInv
<1> QED  BY <1>1, Invariance, PTL

\* One CreateDir at most is told that it created the directory.
THEOREM OneCreator == Spec => []SoleCreator
BY Invariance, PTL DEF IInv, DirSafe
=============================================================================
