---------------------------- MODULE Status_proofs ----------------------------
(***************************************************************************)
(* Theorems about Status for any number of objects, arrays and values.     *)
(***************************************************************************)
EXTENDS Status, TLAPS

\* What every step preserves.  The ownership of the arrays carries the rest:
\* an array that nobody else points to can be deleted and used again.
IInv == TypeOK /\ OwnsItsArray /\ NoLeak /\ SaysItsValue

USE DEF NULL

LEMMA InitInv == Init => IInv
BY DEF Init, IInv, TypeOK, OwnsItsArray, NoLeak, SaysItsValue, Errors

LEMMA TypeStep == TypeOK /\ [Next]_vars => TypeOK'
<1> SUFFICES ASSUME TypeOK, [Next]_vars PROVE TypeOK'  OBVIOUS
<1> USE StatusAssumption DEF TypeOK, Running, Begins, Allocates
<1>1. ASSUME NEW s \in Objects, ConstructOK(s) PROVE TypeOK'
  BY <1>1 DEF ConstructOK
<1>2. ASSUME NEW s \in Objects, NEW v \in Values, ConstructError(s, v) PROVE TypeOK'
  BY <1>2 DEF ConstructError
<1>3. ASSUME NEW s \in Objects, NEW o \in Objects, Copy(s, o) PROVE TypeOK'
  BY <1>3 DEF Copy, Dangles
<1>4. ASSUME NEW s \in Objects, NEW o \in Objects, Assign(s, o) PROVE TypeOK'
  BY <1>4 DEF Assign, Dangles, Free
<1>5. ASSUME NEW s \in Objects, NEW o \in Objects, AssignEqual(s, o) PROVE TypeOK'
  BY <1>5 DEF AssignEqual
<1>6. ASSUME NEW s \in Objects, NEW o \in Objects, AssignThrows(s, o) PROVE TypeOK'
  BY <1>6 DEF AssignThrows, Free
<1>7. ASSUME NEW s \in Objects, Destroy(s) PROVE TypeOK'
  BY <1>7 DEF Destroy, Free
<1>8. ASSUME NEW s \in Objects, UseDangling(s) PROVE TypeOK'
  BY <1>8 DEF UseDangling
<1>9. CASE UNCHANGED vars  BY <1>9 DEF vars
<1> QED  BY <1>1, <1>2, <1>3, <1>4, <1>5, <1>6, <1>7, <1>8, <1>9 DEF Next

LEMMA OwnershipStep ==
  TypeOK /\ OwnsItsArray /\ NoLeak /\ [Next]_vars => (OwnsItsArray /\ NoLeak)'
<1> SUFFICES ASSUME TypeOK, OwnsItsArray, NoLeak, [Next]_vars
             PROVE  OwnsItsArray' /\ NoLeak'
  OBVIOUS
<1> USE StatusAssumption DEF TypeOK, OwnsItsArray, NoLeak, Errors, Running, Begins, Allocates
<1>1. ASSUME NEW s \in Objects, ConstructOK(s) PROVE OwnsItsArray' /\ NoLeak'
  BY <1>1 DEF ConstructOK
<1>2. ASSUME NEW s \in Objects, NEW v \in Values, ConstructError(s, v)
      PROVE  OwnsItsArray' /\ NoLeak'
  BY <1>2 DEF ConstructError
<1>3. ASSUME NEW s \in Objects, NEW o \in Objects, Copy(s, o) PROVE OwnsItsArray' /\ NoLeak'
  BY <1>3 DEF Copy, Dangles
<1>4. ASSUME NEW s \in Objects, NEW o \in Objects, Assign(s, o) PROVE OwnsItsArray' /\ NoLeak'
  BY <1>4 DEF Assign, Dangles, Free
<1>5. ASSUME NEW s \in Objects, NEW o \in Objects, AssignEqual(s, o)
      PROVE  OwnsItsArray' /\ NoLeak'
  BY <1>5 DEF AssignEqual
<1>6. ASSUME NEW s \in Objects, NEW o \in Objects, AssignThrows(s, o)
      PROVE  OwnsItsArray' /\ NoLeak'
  BY <1>6 DEF AssignThrows, Free
<1>7. ASSUME NEW s \in Objects, Destroy(s) PROVE OwnsItsArray' /\ NoLeak'
  BY <1>7 DEF Destroy, Free
<1>8. ASSUME NEW s \in Objects, UseDangling(s) PROVE OwnsItsArray' /\ NoLeak'
  BY <1>8 DEF UseDangling, Dangles
<1>9. CASE UNCHANGED vars  BY <1>9 DEF vars
<1> QED  BY <1>1, <1>2, <1>3, <1>4, <1>5, <1>6, <1>7, <1>8, <1>9 DEF Next

LEMMA ValueStep ==
  TypeOK /\ OwnsItsArray /\ SaysItsValue /\ [Next]_vars => SaysItsValue'
<1> SUFFICES ASSUME TypeOK, OwnsItsArray, SaysItsValue, [Next]_vars PROVE SaysItsValue'
  OBVIOUS
<1> USE StatusAssumption DEF TypeOK, OwnsItsArray, SaysItsValue, Errors, Running, Begins, Allocates
<1>1. ASSUME NEW s \in Objects, ConstructOK(s) PROVE SaysItsValue'
  BY <1>1 DEF ConstructOK
<1>2. ASSUME NEW s \in Objects, NEW v \in Values, ConstructError(s, v) PROVE SaysItsValue'
  BY <1>2 DEF ConstructError
<1>3. ASSUME NEW s \in Objects, NEW o \in Objects, Copy(s, o) PROVE SaysItsValue'
  BY <1>3 DEF Copy, Dangles
<1>4. ASSUME NEW s \in Objects, NEW o \in Objects, Assign(s, o) PROVE SaysItsValue'
  BY <1>4 DEF Assign, Dangles, Free
<1>5. ASSUME NEW s \in Objects, NEW o \in Objects, AssignEqual(s, o) PROVE SaysItsValue'
  BY <1>5 DEF AssignEqual
<1>6. ASSUME NEW s \in Objects, NEW o \in Objects, AssignThrows(s, o) PROVE SaysItsValue'
  BY <1>6 DEF AssignThrows
<1>7. ASSUME NEW s \in Objects, Destroy(s) PROVE SaysItsValue'
  BY <1>7 DEF Destroy
<1>8. ASSUME NEW s \in Objects, UseDangling(s) PROVE SaysItsValue'
  BY <1>8 DEF UseDangling
<1>9. CASE UNCHANGED vars  BY <1>9 DEF vars
<1> QED  BY <1>1, <1>2, <1>3, <1>4, <1>5, <1>6, <1>7, <1>8, <1>9 DEF Next

\* The inductive invariant holds in every state.
THEOREM Invariance == Spec => []IInv
<1>1. IInv /\ [Next]_vars => IInv'
  BY TypeStep, OwnershipStep, ValueStep DEF IInv
<1> QED  BY <1>1, InitInv, PTL DEF Spec

\* The variables keep their types.
THEOREM TypeCorrect == Spec => []TypeOK
BY Invariance, PTL DEF IInv

\* Until an assignment throws, every error has an array of its own, and no
\* array is touched after its delete[].
THEOREM Ownership == Spec => []OwnsItsArray
BY Invariance, PTL DEF IInv

\* No array is ever leaked.
THEOREM NothingLeaks == Spec => []NoLeak
BY Invariance, PTL DEF IInv

\* Until an assignment throws, every object says what it was given.
THEOREM Faithful == Spec => []SaysItsValue
BY Invariance, PTL DEF IInv
=============================================================================
