------------------------------- MODULE Status -------------------------------
(***************************************************************************)
(* Status (c2_status.h): a value whose only member is state_, NULL for OK  *)
(* and otherwise a new[] array that holds the code and the message.  The   *)
(* module follows the arrays: who points to them, who frees them, and what *)
(* happens when a new[] throws.                                            *)
(***************************************************************************)
CONSTANTS Objects,      \* the variables and temporaries of type Status
          Blocks,       \* bound: the new[] arrays of a behaviour, by address
          Values        \* what an array holds: an error code and its message

NULL == "NULL"

ASSUME StatusAssumption == NULL \notin Blocks /\ "OK" \notin Values

VARIABLES
  alive,    \* the objects whose lifetime has begun and not ended
  state_,   \* the pointer of each object
  heap,     \* the arrays that are allocated
  text,     \* what each array holds or last held
  value,    \* what each object was last made to say, as its user knows it
  thrown,   \* an assignment to an error has thrown
  broken    \* undefined behaviour: an array was read or freed after its delete[]

vars == <<alive, state_, heap, text, value, thrown, broken>>

Init ==
  /\ alive = {} /\ heap = {} /\ thrown = FALSE /\ broken = FALSE
  /\ state_ = [s \in Objects |-> NULL]
  /\ text \in [Blocks -> Values]
  /\ value = [s \in Objects |-> "OK"]

TypeOK ==
  /\ alive \subseteq Objects /\ heap \subseteq Blocks
  /\ state_ \in [Objects -> Blocks \cup {NULL}]
  /\ text \in [Blocks -> Values]
  /\ value \in [Objects -> Values \cup {"OK"}]
  /\ thrown \in BOOLEAN /\ broken \in BOOLEAN

-----------------------------------------------------------------------------
Dangles(s) == state_[s] # NULL /\ state_[s] \notin heap

\* Slip: the array is not filled.
AllocatesUnfilled(b, v) ==
  /\ b \in Blocks \ heap
  /\ text' = [text EXCEPT ![b] = "unset"]

\* The array b is allocated and says v.
Allocates(b, v) ==
  /\ b \in Blocks \ heap
  /\ text' = [text EXCEPT ![b] = v]

\* s begins its life pointing to p.
Begins(s, p, v) ==
  /\ alive' = alive \cup {s}
  /\ state_' = [state_ EXCEPT ![s] = p]
  /\ value' = [value EXCEPT ![s] = v]

Free(s) == IF state_[s] = NULL THEN {} ELSE {state_[s]}

Running(S) == ~broken /\ S \subseteq alive

\* Status(), and OK().
ConstructOK(s) ==
  /\ Running({}) /\ s \notin alive
  /\ Begins(s, NULL, "OK")
  /\ UNCHANGED <<heap, text, thrown, broken>>

\* Status(code, msg, msg2), which DEF_ERR wraps.
ConstructError(s, v) ==
  /\ Running({}) /\ s \notin alive
  /\ \E b \in Blocks : Allocates(b, v) /\ heap' = heap \cup {b} /\ Begins(s, b, v)
  /\ UNCHANGED <<thrown, broken>>

\* Slip: the copy shares the array.
CopyShallow(s, o) ==
  /\ Running({o}) /\ s \notin alive /\ ~Dangles(o)
  /\ Begins(s, state_[o], value[o])
  /\ UNCHANGED <<heap, text, thrown, broken>>

\* Status(const Status&): CopyState reads the array of o.
Copy(s, o) ==
  /\ Running({o}) /\ s \notin alive /\ ~Dangles(o)
  /\ \/ /\ state_[o] = NULL /\ Begins(s, NULL, value[o])
        /\ UNCHANGED <<heap, text>>
     \/ /\ state_[o] # NULL
        /\ \E b \in Blocks : /\ Allocates(b, text[state_[o]])
                             /\ heap' = heap \cup {b}
                             /\ Begins(s, b, value[o])
  /\ UNCHANGED <<thrown, broken>>

\* Slip: the old array is not deleted.
AssignKeeping(s, o) ==
  /\ Running({s, o}) /\ ~Dangles(s) /\ ~Dangles(o) /\ state_[s] # state_[o]
  /\ \/ /\ state_[o] = NULL
        /\ state_' = [state_ EXCEPT ![s] = NULL]
        /\ UNCHANGED <<heap, text>>
     \/ /\ state_[o] # NULL
        /\ \E b \in Blocks : /\ Allocates(b, text[state_[o]])
                             /\ heap' = heap \cup {b}
                             /\ state_' = [state_ EXCEPT ![s] = b]
  /\ value' = [value EXCEPT ![s] = value[o]]
  /\ UNCHANGED <<alive, thrown, broken>>

\* operator= when the pointers differ: the array of s is deleted, and then that
\* of o is copied, perhaps to the address just freed.
Assign(s, o) ==
  /\ Running({s, o}) /\ ~Dangles(s) /\ ~Dangles(o) /\ state_[s] # state_[o]
  /\ \/ /\ state_[o] = NULL
        /\ heap' = heap \ Free(s)
        /\ state_' = [state_ EXCEPT ![s] = NULL]
        /\ UNCHANGED text
     \/ /\ state_[o] # NULL
        /\ \E b \in Blocks \ (heap \ Free(s)) :
             /\ heap' = (heap \ Free(s)) \cup {b}
             /\ text' = [text EXCEPT ![b] = text[state_[o]]]
             /\ state_' = [state_ EXCEPT ![s] = b]
  /\ value' = [value EXCEPT ![s] = value[o]]
  /\ UNCHANGED <<alive, thrown, broken>>

\* Slip: no check for an assignment to itself, which reads what it has deleted.
AssignEqualUnchecked(s, o) ==
  /\ Running({s, o}) /\ state_[s] = state_[o]
  /\ broken' = (state_[s] # NULL)
  /\ value' = [value EXCEPT ![s] = value[o]]
  /\ UNCHANGED <<alive, state_, heap, text, thrown>>

\* operator= when the pointers are equal, of an object to itself or of OK to OK.
AssignEqual(s, o) ==
  /\ Running({s, o}) /\ state_[s] = state_[o]
  /\ value' = [value EXCEPT ![s] = value[o]]
  /\ UNCHANGED <<alive, state_, heap, text, thrown, broken>>

\* The new[] of CopyState throws: state_ still points to what was deleted.  (When
\* state_ is NULL, or when a constructor throws, nothing changes.)
AssignThrows(s, o) ==
  /\ Running({s, o}) /\ ~Dangles(s) /\ ~Dangles(o)
  /\ state_[s] # state_[o] /\ NULL \notin {state_[s], state_[o]}
  /\ heap' = heap \ Free(s)
  /\ thrown' = TRUE
  /\ UNCHANGED <<alive, state_, text, value, broken>>

\* An object that dangles is destroyed, copied or assigned to or from: its
\* array is deleted a second time, or read after its delete[].
UseDangling(s) ==
  /\ Running({s}) /\ Dangles(s)
  /\ broken' = TRUE
  /\ UNCHANGED <<alive, state_, heap, text, value, thrown>>

Destroy(s) ==
  /\ Running({s}) /\ ~Dangles(s)
  /\ alive' = alive \ {s}
  /\ heap' = heap \ Free(s)
  /\ state_' = [state_ EXCEPT ![s] = NULL] /\ value' = [value EXCEPT ![s] = "OK"]
  /\ UNCHANGED <<text, thrown, broken>>

Next == \E s \in Objects :
  \/ ConstructOK(s) \/ Destroy(s) \/ UseDangling(s)
  \/ \E v \in Values : ConstructError(s, v)
  \/ \E o \in Objects : Copy(s, o) \/ Assign(s, o) \/ AssignEqual(s, o) \/ AssignThrows(s, o)

Spec == Init /\ [][Next]_vars

-----------------------------------------------------------------------------
(* Properties.                                                             *)

Errors == {s \in alive : state_[s] # NULL}

\* As long as no assignment has thrown, every error owns an array of its own,
\* and nothing is read or freed after its delete[]: no sequence of copies,
\* assignments (to itself too) and destructions makes two objects share one.
OwnsItsArray ==
  ~thrown => /\ ~broken
             /\ \A s \in Errors : state_[s] \in heap
             /\ \A s, o \in Errors : state_[s] = state_[o] => s = o

\* No array is ever leaked, also by assignments that throw.
NoLeak == heap \subseteq {state_[s] : s \in alive}

\* As long as no assignment has thrown, an object says what it was last given,
\* whatever addresses the allocator has used again in between.
SaysItsValue ==
  ~thrown => \A s \in alive : value[s] = IF state_[s] = NULL THEN "OK" ELSE text[state_[s]]

\* c2_status.h:102, "OK status has a NULL state_.  Otherwise, state_ is a new[]
\* array of the following form": the state_ of an object is NULL or an array
\* that is allocated.
StateIsArray == \A s \in Errors : state_[s] \in heap
=============================================================================
