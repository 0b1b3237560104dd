------------------------------ MODULE SharedIO ------------------------------
(***************************************************************************)
(* What IO::Default() and IO::GetUnBuffered() (c2_io.h) promise the        *)
(* threads of a process: a pointer to the one IO that "belongs to C2 and   *)
(* should not be deleted".  It comes into being at some time and is never  *)
(* exchanged, and no call returns anything else: not NULL, however early   *)
(* it is made, nor a second IO.                                            *)
(***************************************************************************)
EXTENDS Naturals

CONSTANT Threads

VARIABLES
  io,    \* the IO of the process; 0, NULL, until there is one
  got    \* of each thread: all that its calls have returned

vars == <<io, got>>

Init == io = 0 /\ got = [t \in Threads |-> {}]

Open == io = 0 /\ io' \in Nat \ {0} /\ UNCHANGED got

Return(t) == io # 0 /\ got' = [got EXCEPT ![t] = @ \cup {io}] /\ UNCHANGED io

Next == Open \/ \E t \in Threads : Return(t)

Spec == Init /\ [][Next]_vars
=============================================================================
