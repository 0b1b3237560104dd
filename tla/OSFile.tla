------------------------------ MODULE OSFile -------------------------------
(***************************************************************************)
(* One open file as the operating system keeps it: the page cache, what of *)
(* it is on the device, and the system calls that PosixWritableFile and    *)
(* the C library below PosixBufferedWritableFile make on it.  This code is *)
(* not part of the repository; it is modelled from how the repository uses *)
(* it and from what POSIX leaves open.                                     *)
(*                                                                         *)
(* A write-back that fails leaves the page clean and unwritten; the error  *)
(* is reported once, by the next fdatasync (or by close(), on the file     *)
(* systems that report it there: CloseReports).                            *)
(***************************************************************************)
EXTENDS FileCaller

CONSTANT CloseReports   \* close() reports a pending write-back error

ASSUME CloseReportsAssumption == CloseReports \in BOOLEAN

VARIABLES
  os,       \* the bytes of the file in the page cache
  stable,   \* the positions of os that are on the device
  lost,     \* the positions whose write-back failed
  wberr     \* a write-back error nobody has been told of yet

osVars == <<os, stable, lost, wberr>>

OSInit == os = <<>> /\ stable = {} /\ lost = {} /\ wberr = FALSE

OSTypeOK ==
  /\ os \in Seq(1 .. MaxBytes)
  /\ stable \subseteq 1 .. Len(os)
  /\ lost \subseteq (1 .. Len(os)) \ stable
  /\ wberr \in BOOLEAN

WriteErrnos == {"EIO", "ENOSPC"}

Dirty == (1 .. Len(os)) \ (stable \cup lost)

\* fdatasync() of a file that holds the bytes s.
SyncOk(s) ==
  /\ ~wberr
  /\ stable' = (1 .. Len(s)) \ lost
  /\ UNCHANGED <<lost, wberr>>

SyncFail(s) ==
  /\ \E gone \in SUBSET ((1 .. Len(s)) \ (stable \cup lost)) : lost' = lost \cup gone
  /\ wberr' = FALSE
  /\ UNCHANGED stable

\* Whether close() can return an error, and whether it can succeed.
CloseFails    == wberr /\ CloseReports
CloseSucceeds == ~CloseFails

-----------------------------------------------------------------------------
(* What happens behind the caller's back.                                  *)

\* The kernel writes a dirty page to the device.
WriteBack ==
  /\ crash = "none"
  /\ \E i \in Dirty : stable' = stable \cup {i}
  /\ UNCHANGED <<callerVars, os, lost, wberr>>

\* The device fails the write-back of a dirty page.
WriteBackFault ==
  /\ crash = "none"
  /\ \E i \in Dirty : lost' = lost \cup {i}
  /\ wberr' = TRUE
  /\ faulted' = TRUE
  /\ UNCHANGED <<sent, flushed, synced, trusted, crash, ret, os, stable>>

Stop(what) ==
  /\ crash = "none" /\ crash' = what
  /\ UNCHANGED <<sent, flushed, synced, trusted, faulted, ret, osVars>>

Kill      == Stop("process")
PowerLoss == Stop("machine")

Environment == WriteBack \/ WriteBackFault \/ Kill \/ PowerLoss

\* The page cache outlives the process, but for the pages that were lost; what
\* is on the device outlives the machine.
Survivors == IF crash = "process" THEN (1 .. Len(os)) \ lost ELSE stable

\* What the file is found to hold after that.
Found ==
  IF crash = "none" THEN <<>>
  ELSE [i \in 1 .. Len(os) |-> IF i \in Survivors THEN os[i] ELSE 0]
=============================================================================
