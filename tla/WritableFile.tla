--------------------------- MODULE WritableFile ----------------------------
(***************************************************************************)
(* What a WritableFile (c2_io.h) promises the thread that writes to it,    *)
(* whatever class implements it.  The caller knows only what it asked for  *)
(* and the Status each call returned; the promise is about what it finds   *)
(* in the file after its process dies or the machine loses power.          *)
(*                                                                         *)
(* The bytes of the file are numbered 1, 2, 3... in the order they are     *)
(* handed to Append, so a file is a sequence of numbers and byte i of an   *)
(* undamaged file is i.  0 is a byte that never reached the device.        *)
(***************************************************************************)
EXTENDS Naturals, Sequences

VARIABLES
  sent,      \* bytes handed to Append so far
  flushed,   \* the bytes covered by the last Flush, Sync or Close that returned OK
  synced,    \* the bytes covered by the last Sync that returned OK
  trusted,   \* no call on the object has returned an error
  faulted,   \* the device has failed a write-back behind the caller's back
  crash,     \* what has ended the process: nothing yet, its own death, or
             \* that of the machine ("none", "process", "machine")
  found      \* what the file holds after that

vars == <<sent, flushed, synced, trusted, faulted, crash, found>>

Hole == 0

Init ==
  /\ sent = 0 /\ flushed = 0 /\ synced = 0
  /\ trusted = TRUE /\ faulted = FALSE
  /\ crash = "none" /\ found = <<>>

-----------------------------------------------------------------------------
(* The calls.  After the first error nothing further is promised.          *)

Report(ok) == trusted' = (trusted /\ ok)

AppendBytes ==
  /\ crash = "none"
  /\ sent' \in Nat /\ sent' >= sent
  /\ \E ok \in BOOLEAN : Report(ok)
  /\ UNCHANGED <<flushed, synced, faulted, crash, found>>

FlushOrClose ==
  /\ crash = "none"
  /\ \E ok \in BOOLEAN : Report(ok) /\ flushed' = IF ok THEN sent ELSE flushed
  /\ UNCHANGED <<sent, synced, faulted, crash, found>>

Sync ==
  /\ crash = "none"
  /\ \E ok \in BOOLEAN : /\ Report(ok)
                         /\ flushed' = IF ok THEN sent ELSE flushed
                         /\ synced'  = IF ok THEN sent ELSE synced
  /\ UNCHANGED <<sent, faulted, crash, found>>

Fault ==
  /\ crash = "none"
  /\ faulted' = TRUE
  /\ UNCHANGED <<sent, flushed, synced, trusted, crash, found>>

-----------------------------------------------------------------------------
(* What may be found.  In every case the file holds only bytes that were   *)
(* appended, each at most once and in the order of the appends.            *)

InOrder(f) ==
  /\ \A i \in DOMAIN f : f[i] \in 0 .. sent
  /\ \A i, j \in DOMAIN f : i < j /\ f[i] # Hole /\ f[j] # Hole => f[i] < f[j]

\* Every byte is where it belongs, or has not reached the device.
InPlace(f) == \A i \in DOMAIN f : f[i] \in {Hole, i}

Intact(f, k) == k <= Len(f) /\ \A i \in 1 .. k : f[i] = i

Stops(what) ==
  /\ crash = "none" /\ crash' = what
  /\ InOrder(found')
  /\ trusted => InPlace(found')
  /\ UNCHANGED <<sent, flushed, synced, trusted, faulted>>

\* The process dies, the system lives on: what was flushed is there.
Kill ==
  /\ Stops("process")
  /\ trusted /\ ~faulted => /\ Intact(found', Len(found'))
                            /\ Len(found') \in flushed .. sent

\* The machine loses power: what was synced is there, device faults or not.
PowerLoss == Stops("machine") /\ (trusted => Intact(found', synced))

Next == AppendBytes \/ FlushOrClose \/ Sync \/ Fault \/ Kill \/ PowerLoss

Spec == Init /\ [][Next]_vars
=============================================================================
