---------------------------- MODULE MCOpenFiles ----------------------------
(***************************************************************************)
(* OpenFiles for TLC.  Objects and names are interchangeable: Init, the    *)
(* actions and the invariants only compare them for equality.              *)
(***************************************************************************)
EXTENDS OpenFiles, TLC

Symmetry == Permutations(Objects) \cup Permutations(Names)
=============================================================================
