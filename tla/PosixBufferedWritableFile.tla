--------------------- MODULE PosixBufferedWritableFile ---------------------
(***************************************************************************)
(* PosixBufferedWritableFile (c2_io_posix.h): the WritableFile of the      *)
(* default IO, on top of a C FILE.  What is appended waits in the FILE's   *)
(* buffer until the C library writes it out, so a call may return OK for   *)
(* bytes that no system call has seen, and a later call of the library may *)
(* fail for them.                                                          *)
(*                                                                         *)
(* Append, Flush, Sync and Close pass file_ to the C library unchecked:    *)
(* after Close it is NULL and they must not be called again.               *)
(***************************************************************************)
EXTENDS OSFile

CONSTANT BufferSize     \* what the FILE's buffer holds

ASSUME BufferSizeAssumption == BufferSize \in Nat

VARIABLES
  obj,      \* "open": file_ is a FILE; "closed": file_ is NULL; "destroyed"
  buf       \* the bytes in the FILE's buffer

vars == <<callerVars, osVars, obj, buf>>

Init == CallerInit /\ OSInit /\ obj = "open" /\ buf = <<>>

TypeOK ==
  /\ CallerTypeOK /\ OSTypeOK
  /\ obj \in {"open", "closed", "destroyed"}
  /\ buf \in Seq(1 .. MaxBytes)
  /\ Len(buf) <= BufferSize

Callable == crash = "none" /\ obj = "open"

StatusOf(done) == IF done THEN "OK" ELSE PosixError("EIO")

-----------------------------------------------------------------------------
(* The C library.  Given bytes to write out, it moves some first part of   *)
(* them to the OS.                                                         *)

\* k bytes of s reach the OS and the m bytes behind them stay in the buffer.
Move(s, k, m) ==
  /\ k + m <= Len(s) /\ m <= BufferSize
  /\ os' = os \o SubSeq(s, 1, k)
  /\ buf' = SubSeq(s, k + 1, k + m)

\* Success: the library keeps what it does not write.
WriteOut(s) == \E k \in 0 .. Len(s) : Move(s, k, Len(s) - k)

\* A write() fails when k bytes have reached the OS.  How much of the rest
\* stays in the buffer, to be written out by a later call, is left open by the
\* C standard: the first m bytes of it, which may be none.
WriteOutFails(s) == \E k, m \in 0 .. Len(s) : k < Len(s) /\ Move(s, k, m)

\* fflush()
FlushOut      == Move(buf, Len(buf), 0)
FlushOutFails == WriteOutFails(buf)

\* fclose() writes the buffer out and closes the descriptor.  It fails if one
\* of the two does, and in every case there is no FILE and no buffer any more.
FClose      == CloseSucceeds /\ Move(buf, Len(buf), 0)
FCloseFails == \E k \in 0 .. Len(buf) :
                 (k < Len(buf) \/ CloseFails) /\ Move(buf, k, 0)

-----------------------------------------------------------------------------
(* The operations of the object.                                           *)

\* Slip: the count that fwrite returns is not compared with the size.
AppendSliceUnchecked(n) ==
  /\ Callable /\ n > 0 /\ sent + n <= MaxBytes
  /\ WriteOut(buf \o Fragment(n)) \/ WriteOutFails(buf \o Fragment(n))
  /\ Returns("Append", n, StatusOf(TRUE))
  /\ UNCHANGED <<stable, lost, wberr, obj>>

\* Append: fwrite_unlocked() of the fragment.
AppendSlice(n) ==
  /\ Callable /\ n > 0 /\ sent + n <= MaxBytes
  /\ \/ WriteOut(buf \o Fragment(n))      /\ Returns("Append", n, StatusOf(TRUE))
     \/ WriteOutFails(buf \o Fragment(n)) /\ Returns("Append", n, StatusOf(FALSE))
  /\ UNCHANGED <<stable, lost, wberr, obj>>

\* fwrite_unlocked() of nothing does nothing and returns the 0 it was asked for.
AppendEmpty ==
  /\ Callable
  /\ Returns("Append", 0, StatusOf(TRUE))
  /\ UNCHANGED <<osVars, obj, buf>>

\* Slip: Flush does nothing, as in the unbuffered file.
FlushNothing ==
  /\ Callable
  /\ Returns("Flush", 0, StatusOf(TRUE))
  /\ UNCHANGED <<osVars, obj, buf>>

Flush ==
  /\ Callable
  /\ \/ FlushOut      /\ Returns("Flush", 0, StatusOf(TRUE))
     \/ FlushOutFails /\ Returns("Flush", 0, StatusOf(FALSE))
  /\ UNCHANGED <<stable, lost, wberr, obj>>

\* Slip: fdatasync() without Flush.
SyncWithoutFlush ==
  /\ Callable
  /\ \/ SyncFail(os) /\ Returns("Sync", 0, StatusOf(FALSE))
     \/ SyncOk(os)   /\ Returns("Sync", 0, StatusOf(TRUE))
  /\ UNCHANGED <<os, obj, buf>>

\* Flush, and only when it returned OK fdatasync().
Sync ==
  /\ Callable
  /\ \/ /\ FlushOutFails
        /\ Returns("Sync", 0, StatusOf(FALSE))
        /\ UNCHANGED <<stable, lost, wberr>>
     \/ /\ FlushOut /\ SyncFail(os')
        /\ Returns("Sync", 0, StatusOf(FALSE))
     \/ /\ FlushOut /\ SyncOk(os')
        /\ Returns("Sync", 0, StatusOf(TRUE))
  /\ UNCHANGED obj

\* Slip: the result of fclose() is ignored.
CloseUnchecked ==
  /\ Callable
  /\ FClose \/ FCloseFails
  /\ Returns("Close", 0, StatusOf(TRUE))
  /\ obj' = "closed"
  /\ UNCHANGED <<stable, lost, wberr>>

\* The result of fclose() is returned; file_ = NULL.
Close ==
  /\ Callable
  /\ \/ FClose      /\ Returns("Close", 0, StatusOf(TRUE))
     \/ FCloseFails /\ Returns("Close", 0, StatusOf(FALSE))
  /\ obj' = "closed"
  /\ UNCHANGED <<stable, lost, wberr>>

\* The destructor closes the FILE unless Close has, "Ignoring any potential
\* errors".
Destroy ==
  /\ crash = "none" /\ obj # "destroyed"
  /\ obj' = "destroyed"
  /\ IF obj = "open" THEN FClose \/ FCloseFails ELSE UNCHANGED <<os, buf>>
  /\ UNCHANGED <<callerVars, stable, lost, wberr>>

Call == \/ AppendEmpty
        \/ \E n \in 1 .. MaxBytes : AppendSlice(n)
        \/ Flush \/ Sync \/ Close \/ Destroy

Next == Call \/ (Environment /\ UNCHANGED <<obj, buf>>)

Spec == Init /\ [][Next]_vars

-----------------------------------------------------------------------------
(* Properties.                                                             *)

\* The object keeps what a WritableFile promises, when what the contract finds
\* after a crash is what the operating system has kept: a refinement.
Contract == INSTANCE WritableFile
            WITH sent <- sent, flushed <- flushed, synced <- synced, trusted <- trusted,
                 faulted <- faulted, crash <- crash, found <- Found
ImplementsContract == Contract!Spec

\* Across the buffer and the page cache, no byte is there twice or out of
\* order whatever fails, and until a call has returned an error or the object
\* is gone every byte is in one of the two.
Held == os \o buf
InOrder ==
  /\ \A i, j \in 1 .. Len(Held) : i < j => Held[i] < Held[j]
  /\ \A i \in 1 .. Len(Held) : Held[i] <= sent
Complete == trusted /\ obj # "destroyed" => Len(Held) = sent
NothingLostSilently == InOrder /\ Complete

\* A caller that has seen no error and whose last Sync returned OK has all
\* its bytes up to that Sync on the device, whatever write-back has failed.
SyncedIsStable == trusted => 1 .. synced \subseteq stable

\* On a file system whose close() reports pending write-back errors, a caller
\* that has seen only OK, the Status of Close included, has lost nothing that
\* was being written back before Close.
ClosedMeansStored ==
  [][obj = "open" /\ obj' = "closed" /\ trusted' /\ CloseReports => lost = {}]_vars
=============================================================================
