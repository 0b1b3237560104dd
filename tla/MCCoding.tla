------------------------------ MODULE MCCoding -------------------------------
(* Two bits a varint byte, three a byte: a uint32_t has 3 bits and a        *)
(* uint64_t has 9, so that both have a last varint byte that is not full.   *)
EXTENDS Coding

\* Both sides of every change of length, and the largest numbers.
MCNumbers == {0, 3, 4, 7, 15, 16, 63, 64, 255, 256, 300, 511}

\* The longest that a uint32_t can count, and contents that look like varints.
MCSlices == {<<>>, <<0>>, <<4>>, <<7, 1>>, <<4, 4, 4, 4, 4, 4, 4>>}

\* Power of Coding is the power of the standard module.
ASSUME PowerIsPower == \A b \in 0 .. 8, k \in 0 .. 6 : b + k > 0 => Power(b, k) = b ^ k
=============================================================================
