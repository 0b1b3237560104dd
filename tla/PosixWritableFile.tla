------------------------- MODULE PosixWritableFile -------------------------
(***************************************************************************)
(* PosixWritableFile (c2_io_posix.h): the WritableFile of the unbuffered   *)
(* IO, one file descriptor and one system call per operation.  Nothing is  *)
(* kept in the object, so Append is a single write() that is not repeated  *)
(* when it is short.                                                       *)
(***************************************************************************)
EXTENDS OSFile

VARIABLES
  obj,      \* "open": fd_ is a descriptor; "closed": fd_ is -1; "destroyed"
  errno     \* errno of the thread; a call that succeeds leaves it alone

vars == <<callerVars, osVars, obj, errno>>

Init == CallerInit /\ OSInit /\ obj = "open" /\ errno = "none"

TypeOK ==
  /\ CallerTypeOK /\ OSTypeOK
  /\ obj \in {"open", "closed", "destroyed"}
  /\ errno \in Errnos

Callable == crash = "none" /\ obj # "destroyed"

\* Status is OK when the system call gave all it was asked, and otherwise
\* whatever errno says, be it of this call or of an earlier one.
StatusOf(complete, e) == IF complete THEN "OK" ELSE PosixError(e)

-----------------------------------------------------------------------------
\* An empty slice makes no system call: OK even on a closed object.
AppendEmpty ==
  /\ Callable
  /\ Returns("Append", 0, "OK")
  /\ UNCHANGED <<osVars, obj, errno>>

\* Slip: after a short write the whole slice is written again.
AppendWriteAgain(n) ==
  /\ Callable /\ obj = "open"
  /\ n > 0 /\ sent + n <= MaxBytes
  /\ \E nw \in 1 .. n :
       os' = os \o Fragment(nw) \o (IF nw = n THEN <<>> ELSE Fragment(n))
  /\ Returns("Append", n, StatusOf(TRUE, errno))
  /\ UNCHANGED <<stable, lost, wberr, obj, errno>>

\* Slip: only a negative count is an error.
AppendWriteShortOk(n) ==
  /\ Callable /\ obj = "open"
  /\ n > 0 /\ sent + n <= MaxBytes
  /\ \E nw \in 1 .. n : os' = os \o Fragment(nw)
  /\ Returns("Append", n, StatusOf(TRUE, errno))
  /\ UNCHANGED <<stable, lost, wberr, obj, errno>>

\* write() takes the first nw bytes.  A short count is not an error of the
\* system call: errno keeps the value that an earlier failure gave it.
AppendWrite(n) ==
  /\ Callable /\ obj = "open"
  /\ n > 0 /\ sent + n <= MaxBytes
  /\ \E nw \in 1 .. n :
       /\ os' = os \o Fragment(nw)
       /\ Returns("Append", n, StatusOf(nw = n, errno))
  /\ UNCHANGED <<stable, lost, wberr, obj, errno>>

\* write() fails, on a closed object because fd_ is -1.
AppendFail(n) ==
  /\ Callable
  /\ n > 0 /\ sent + n <= MaxBytes
  /\ errno' \in IF obj = "open" THEN WriteErrnos ELSE {"EBADF"}
  /\ Returns("Append", n, StatusOf(FALSE, errno'))
  /\ UNCHANGED <<osVars, obj>>

\* Every byte is already with the OS.
Flush ==
  /\ Callable
  /\ Returns("Flush", 0, "OK")
  /\ UNCHANGED <<osVars, obj, errno>>

\* Slip: the result of fdatasync() is ignored.
SyncUnchecked ==
  /\ Callable /\ obj = "open"
  /\ SyncOk(os) \/ SyncFail(os)
  /\ Returns("Sync", 0, StatusOf(TRUE, errno))
  /\ UNCHANGED <<os, obj, errno>>

Sync ==
  /\ Callable
  /\ \/ /\ obj = "open" /\ SyncOk(os)
        /\ UNCHANGED errno
        /\ Returns("Sync", 0, StatusOf(TRUE, errno))
     \/ /\ obj = "open" /\ SyncFail(os)
        /\ errno' = "EIO"
        /\ Returns("Sync", 0, StatusOf(FALSE, errno'))
     \/ /\ obj = "closed"
        /\ errno' = "EBADF"
        /\ Returns("Sync", 0, StatusOf(FALSE, errno'))
        /\ UNCHANGED <<stable, lost, wberr>>
  /\ UNCHANGED <<os, obj>>

\* The errno that close(fd_) leaves.
CloseErrno ==
  CASE obj = "closed"              -> "EBADF"
    [] obj = "open" /\ CloseFails  -> "EIO"
    [] OTHER                       -> errno

\* The result of close() is not looked at; fd_ = -1.
Close ==
  /\ Callable
  /\ obj' = "closed"
  /\ errno' = CloseErrno
  /\ Returns("Close", 0, "OK")
  /\ UNCHANGED osVars

\* The destructor closes the descriptor unless Close has.
Destroy ==
  /\ Callable
  /\ obj' = "destroyed"
  /\ errno' = IF obj = "open" THEN CloseErrno ELSE errno
  /\ UNCHANGED <<callerVars, osVars>>

\* The thread calls something else that fails: a CreateDir, say.
OtherCallFails ==
  /\ Callable
  /\ errno' \in {"EEXIST", "ENOENT", "EACCES"}
  /\ UNCHANGED <<callerVars, osVars, obj>>

Call == \/ AppendEmpty
        \/ \E n \in 1 .. MaxBytes : AppendWrite(n) \/ AppendFail(n)
        \/ Flush \/ Sync \/ Close \/ Destroy

Next == Call \/ OtherCallFails \/ (Environment /\ UNCHANGED <<obj, errno>>)

Spec == Init /\ [][Next]_vars

-----------------------------------------------------------------------------
(* Properties.                                                             *)

\* The object keeps what a WritableFile promises, when what the contract finds
\* after a crash is what the operating system has kept: a refinement.
Contract == INSTANCE WritableFile
            WITH sent <- sent, flushed <- flushed, synced <- synced, trusted <- trusted,
                 faulted <- faulted, crash <- crash, found <- Found
ImplementsContract == Contract!Spec

\* Whatever fails, the page cache never holds a byte twice or out of order,
\* and holds every byte as long as no call has returned an error: a short
\* write is reported, and nothing is written again behind the caller's back.
InOrder ==
  /\ \A i, j \in 1 .. Len(os) : i < j => os[i] < os[j]
  /\ \A i \in 1 .. Len(os) : os[i] <= sent
Complete == trusted => Len(os) = sent
NothingLostSilently == InOrder /\ Complete

\* A caller that has seen no error and whose last Sync returned OK has all
\* its bytes up to that Sync on the device, whatever write-back has failed.
SyncedIsStable == trusted => 1 .. synced \subseteq stable

\* c2_io_posix.h:48, "Map standard POSIX errors as C2 status objects": when
\* Append says that something exists, is missing or is denied, its own write()
\* has failed so.  Append never creates or looks up anything, so it never does.
StatusDescribesFailure ==
  ret.op = "Append" => ret.code \in {"OK", "IOError"}
=============================================================================
