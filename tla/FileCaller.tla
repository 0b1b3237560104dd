---------------------------- MODULE FileCaller -----------------------------
(***************************************************************************)
(* The caller of one WritableFile: what it has appended and the Status of  *)
(* every call, the only way an implementation tells it of a failure.       *)
(* Bytes are numbered in the order of the appends (see WritableFile).      *)
(***************************************************************************)
EXTENDS Naturals, Sequences, PosixErrors

CONSTANT MaxBytes       \* bound: bytes appended to the file in one behaviour

ASSUME MaxBytesAssumption == MaxBytes \in Nat

VARIABLES sent, flushed, synced, trusted, faulted, crash,
          ret           \* the last call and the code of the Status it returned

callerVars == <<sent, flushed, synced, trusted, faulted, crash, ret>>

CallerInit ==
  /\ sent = 0 /\ flushed = 0 /\ synced = 0
  /\ trusted = TRUE /\ faulted = FALSE
  /\ crash = "none"
  /\ ret = [op |-> "New", code |-> "OK"]

CallerTypeOK ==
  /\ sent \in 0 .. MaxBytes /\ flushed \in 0 .. sent /\ synced \in 0 .. sent
  /\ trusted \in BOOLEAN /\ faulted \in BOOLEAN /\ crash \in {"none", "process", "machine"}
  /\ ret \in [op : {"New", "Append", "Flush", "Sync", "Close"}, code : Codes]

\* The n bytes of the next fragment.
Fragment(n) == [i \in 1 .. n |-> sent + i]

\* A call op, with n bytes to append, returns a Status with this code.
Returns(op, n, code) ==
  /\ ret' = [op |-> op, code |-> code]
  /\ sent' = sent + n
  /\ trusted' = (trusted /\ code = "OK")
  /\ flushed' = IF op # "Append" /\ code = "OK" THEN sent ELSE flushed
  /\ synced'  = IF op = "Sync" /\ code = "OK" THEN sent ELSE synced
  /\ UNCHANGED <<faulted, crash>>
=============================================================================
