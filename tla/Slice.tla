------------------------------- MODULE Slice --------------------------------
(***************************************************************************)
(* Slice (c2_slice.h, c2_slice.cc): a view of bytes that others own, here  *)
(* the sequence of the bytes it views.  Comparison is memcmp() of as many  *)
(* bytes as the shorter one has, a number that the code keeps in an int.   *)
(***************************************************************************)
EXTENDS Integers, Sequences

CONSTANT IntLim         \* an int is in -IntLim .. IntLim - 1; 2^31 in the code

ASSUME IntAssumption == IntLim \in Nat \ {0}

\* A size_t that is stored in an int.
AsInt(n) == ((n + IntLim) % (2 * IntLim)) - IntLim

\* memcmp() of the first n bytes, which are unsigned.
memcmp(x, y, n) ==
  LET differ == {i \in 1 .. n : x[i] # y[i]}
      first  == CHOOSE i \in differ : \A j \in differ : i <= j
  IN  IF differ = {} THEN 0 ELSE IF x[first] < y[first] THEN -1 ELSE 1

\* Slip: the sizes are not looked at.
compareBytes(x, y) ==
  {memcmp(x, y, IF Len(x) < Len(y) THEN Len(x) ELSE Len(y))}

\* The signs that compare() may return.  A negative min_len is a huge number to
\* memcmp(), which then looks at bytes that are in neither slice.
compare(x, y) ==
  LET min_len == AsInt(IF Len(x) < Len(y) THEN Len(x) ELSE Len(y))
      r       == memcmp(x, y, min_len)
  IN  IF min_len < 0         THEN {-1, 0, 1}
      ELSE IF r # 0          THEN {r}
      ELSE IF Len(x) < Len(y) THEN {-1}
      ELSE IF Len(x) > Len(y) THEN {1} ELSE {0}

\* operator==, and with it operator!=.
Equals(x, y) == Len(x) = Len(y) /\ memcmp(x, y, Len(y)) = 0

starts_with(x, y) == Len(x) >= Len(y) /\ memcmp(x, y, Len(y)) = 0

remove_prefix(x, n) == SubSeq(x, n + 1, Len(x))

remove_suffix(x, n) == SubSeq(x, 1, Len(x) - n)

ends_with(x, y) ==
  Len(x) >= Len(y) /\ memcmp(remove_prefix(x, Len(x) - Len(y)), y, Len(y)) = 0

\* operator[], with negative indices from the end.
At(x, n) == x[(IF n < 0 THEN n + Len(x) ELSE n) + 1]

-----------------------------------------------------------------------------
\* x before y in a dictionary whose letters are the bytes.
Before(x, y) ==
  \E k \in 0 .. Len(x) :
    /\ k < Len(y) /\ \A i \in 1 .. k : x[i] = y[i]
    /\ k < Len(x) => x[k + 1] < y[k + 1]

\* "Three-way comparison" (c2_slice.h:124): for slices whose size an int can
\* hold, compare() is the order of the dictionary and 0 for equal slices only,
\* as == says; starts_with and ends_with find the parts that remove_suffix and
\* remove_prefix leave.
Ordered(x, y) ==
  /\ Len(x) < IntLim \/ Len(y) < IntLim =>
       compare(x, y) = {IF Before(x, y) THEN -1 ELSE IF Before(y, x) THEN 1 ELSE 0}
  /\ Equals(x, y) <=> x = y
  /\ starts_with(x, y) <=> \E n \in 0 .. Len(x) : remove_suffix(x, n) = y
  /\ ends_with(x, y) <=> \E n \in 0 .. Len(x) : remove_prefix(x, n) = y
  /\ starts_with(x, y) /\ y # <<>> => At(x, Len(y) - 1) = At(y, -1)
=============================================================================
