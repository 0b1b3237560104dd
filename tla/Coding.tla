------------------------------- MODULE Coding -------------------------------
(***************************************************************************)
(* The encoding of numbers and strings of c2_coding.  A writer appends     *)
(* items to a string with the Put routines; a reader, perhaps on a machine *)
(* of the other byte order, is given the string, or what is left of it, or *)
(* bytes that nobody wrote, and parses it with the Get routines.           *)
(*                                                                         *)
(* In the code a varint has 7 bits a byte (B = 128), a byte 8, and numbers *)
(* have W32 = 4 or W64 = 8 bytes; a varint has N32 = 5 or N64 = 10.        *)
(***************************************************************************)
EXTENDS Slice, SequencesExt

CONSTANTS B, W32, W64, N32, N64

\* b ^ k, which TLAPS has no facts about.
Power(b, k) == LET power[j \in 0 .. k] == IF j = 0 THEN 1 ELSE b * power[j - 1] IN power[k]

Byte  == 2 * B             \* the values of a byte
Lim32 == Power(Byte, W32)  \* the values of a uint32_t
Lim64 == Power(Byte, W64)  \* the values of a uint64_t

\* The last byte of the longest varint holds the bits that are left.
ASSUME SizesAssumption ==
  /\ B \in Nat \ {0, 1} /\ {W32, W64, N32, N64} \subseteq Nat \ {0} /\ W32 <= W64
  /\ Power(B, N32 - 1) < Lim32 /\ Lim32 <= Power(B, N32)
  /\ Power(B, N64 - 1) < Lim64 /\ Lim64 <= Power(B, N64)

CONSTANTS
  Numbers,      \* bound: the numbers that are written
  Slices,       \* bound: the strings that are written
  Noise,        \* bound: the bytes of a string that nobody wrote...
  MaxNoise,     \* ...and its length
  MaxItems      \* bound: items written or parsed

ASSUME BoundsAssumption ==
  /\ Numbers \subseteq 0 .. Lim64 - 1 /\ Slices \subseteq Seq(0 .. Byte - 1)
  /\ Noise \subseteq 0 .. Byte - 1 /\ MaxNoise \in Nat /\ MaxItems \in Nat

VARIABLES
  phase,        \* "write", "read", "failed"
  dst,          \* the string that is written
  put,          \* the items it was made of
  given,        \* the string that the reader was given
  input,        \* the Slice: what is left to parse
  got,          \* the items parsed
  writer, reader   \* the byte order of each machine: "little" or "big"

vars == <<phase, dst, put, given, input, got, writer, reader>>

Init ==
  /\ dst = <<>> /\ put = <<>> /\ got = <<>>
  /\ writer \in {"little", "big"} /\ reader \in {"little", "big"}
  /\ \/ phase = "write" /\ given = <<>>
     \/ phase = "read" /\ \E n \in 1 .. MaxNoise : given \in [1 .. n -> Noise]
  /\ input = given

-----------------------------------------------------------------------------
(* Encoding.                                                               *)

\* The w bytes of v in the memory of a machine.
InMemory(v, w, order) ==
  [i \in 1 .. w |-> (v \div Power(Byte, IF order = "little" THEN i - 1 ELSE w - i)) % Byte]

\* Slip: memcpy on every machine.
EncodeFixedCopied(v, w) == InMemory(v, w, writer)

\* EncodeFixed16, 32 and 64: memcpy, or on a big-endian machine shift by shift.
EncodeFixed(v, w) ==
  IF writer = "little" THEN InMemory(v, w, writer)
  ELSE [i \in 1 .. w |-> (v \div Power(Byte, i - 1)) % Byte]

\* The n bytes of a varint, all but the last with their top bit set.
Groups(v, n) ==
  [i \in 1 .. n |-> IF i < n THEN B + ((v \div Power(B, i - 1)) % B) ELSE v \div Power(B, n - 1)]

\* One branch for each length.
EncodeVarint32(v) ==
  Groups(v, CHOOSE k \in 1 .. N32 : /\ k = N32 \/ v < Power(B, k)
                                    /\ \A j \in 1 .. k - 1 : v >= Power(B, j))

\* A loop.
EncodeVarint64(v) ==
  LET loop[u \in Nat] == IF u >= B THEN <<B + (u % B)>> \o loop[u \div B] ELSE <<u>>
  IN  loop[v]

\* Slip: one byte too few for a power of B.
VarintLengthShort(v) ==
  LET loop[u \in Nat] == IF u > B THEN 1 + loop[u \div B] ELSE 1
  IN  loop[v]

VarintLength(v) ==
  LET loop[u \in Nat] == IF u >= B THEN 1 + loop[u \div B] ELSE 1
  IN  loop[v]

\* The length is a uint32_t.
EncodeLengthPrefixedSlice(s) == EncodeVarint32(Len(s) % Lim32) \o s

Encoding(item) ==
  CASE item.kind = "fixed32"  -> EncodeFixed(item.val, W32)
    [] item.kind = "fixed64"  -> EncodeFixed(item.val, W64)
    [] item.kind = "varint32" -> EncodeVarint32(item.val)
    [] item.kind = "varint64" -> EncodeVarint64(item.val)
    [] item.kind = "slice"    -> EncodeLengthPrefixedSlice(item.val)

Item(kind, val) == [kind |-> kind, val |-> val]

Puts(item) ==
  /\ phase = "write" /\ Len(put) < MaxItems
  /\ dst' = dst \o Encoding(item)
  /\ put' = Append(put, item)
  /\ UNCHANGED <<phase, given, input, got, writer, reader>>

PutFixed32(v)  == v < Lim32 /\ Puts(Item("fixed32", v))
PutFixed64(v)  == Puts(Item("fixed64", v))
PutVarint32(v) == v < Lim32 /\ Puts(Item("varint32", v))
PutVarint64(v) == Puts(Item("varint64", v))
PutLengthPrefixedSlice(s) == Puts(Item("slice", s))

-----------------------------------------------------------------------------
\* The string reaches the reader, perhaps cut short.
Deliver ==
  /\ phase = "write"
  /\ phase' = "read"
  /\ \E n \in 0 .. Len(dst) : given' = SubSeq(dst, 1, n)
  /\ input' = given'
  /\ UNCHANGED <<dst, put, got, writer, reader>>

-----------------------------------------------------------------------------
(* Parsing.  A parse is the value and the bytes it took, or NULL.          *)

NULL == [val |-> 0, used |-> 0]

Sum(f) == LET sum[i \in 0 .. Len(f)] == IF i = 0 THEN 0 ELSE sum[i - 1] + f[i] IN sum[Len(f)]

\* The number with these digits to the base b, the lowest first, shift by shift.
Value(digits, b) == Sum([i \in 1 .. Len(digits) |-> digits[i] * Power(b, i - 1)])

\* The loop of GetVarint32Ptr (with its fallback) and of GetVarint64Ptr: at most
\* n bytes, up to the first whose top bit is clear; the bits that shift out of
\* the number are dropped.
GetVarintPtr(s, n, limit) ==
  LET ends == {i \in 1 .. n : i <= Len(s) /\ s[i] < B}
      k    == CHOOSE i \in ends : \A j \in ends : i <= j
  IN  IF ends = {} THEN NULL
      ELSE [val |-> Value([i \in 1 .. k |-> s[i] % B], B) % limit, used |-> k]

\* Slip: shift < 28.
GetVarint32PtrShort(s) == GetVarintPtr(s, N32 - 1, Lim32)

\* Slip: the bits that do not fit are kept.
GetVarint32PtrWide(s) == GetVarintPtr(s, N32, Lim64)

GetVarint32Ptr(s) == GetVarintPtr(s, N32, Lim32)

GetVarint64Ptr(s) == GetVarintPtr(s, N64, Lim64)

\* The item that is to be parsed next: the next one written, or any.
Expects(kind) ==
  /\ phase = "read" /\ Len(got) < MaxItems
  /\ put # <<>> => Len(got) < Len(put) /\ put[Len(got) + 1].kind = kind
  /\ UNCHANGED <<dst, put, given, writer, reader>>

Yields(kind, val, rest) ==
  /\ got' = Append(got, Item(kind, val))
  /\ input' = rest
  /\ UNCHANGED phase

Fails(rest) ==
  /\ phase' = "failed"
  /\ input' = rest
  /\ UNCHANGED got

\* The input is advanced only when a number was parsed.
GetVarint(kind, p) ==
  /\ Expects(kind)
  /\ IF p # NULL THEN Yields(kind, p.val, remove_prefix(input, p.used)) ELSE Fails(input)

GetVarint32 == GetVarint("varint32", GetVarint32Ptr(input))
GetVarint64 == GetVarint("varint64", GetVarint64Ptr(input))

\* Slip: the length is not checked against what is left.
GetSliceUnchecked ==
  /\ Expects("slice")
  /\ LET p    == GetVarint32Ptr(input)
         rest == remove_prefix(input, p.used)
     IN  IF p = NULL THEN Fails(input)
         ELSE Yields("slice", [i \in 1 .. p.val |-> IF i <= Len(rest) THEN rest[i] ELSE Byte],
                     remove_prefix(rest, p.val))

\* The length has been taken off the input when the bytes are found missing.
GetLengthPrefixedSlice ==
  /\ Expects("slice")
  /\ LET p    == GetVarint32Ptr(input)
         rest == remove_prefix(input, p.used)
     IN  IF p = NULL              THEN Fails(input)
         ELSE IF Len(rest) >= p.val
              THEN Yields("slice", SubSeq(rest, 1, p.val), remove_prefix(rest, p.val))
              ELSE Fails(rest)

\* The variant on pointers returns NULL then, and its caller has the input as it
\* was.  (A pointer and a uint32_t are added without overflow.)
GetLengthPrefixedSlicePtr ==
  /\ Expects("slice")
  /\ LET p    == GetVarint32Ptr(input)
         rest == remove_prefix(input, p.used)
     IN  IF p # NULL /\ Len(rest) >= p.val
         THEN Yields("slice", SubSeq(rest, 1, p.val), remove_prefix(rest, p.val))
         ELSE Fails(input)

\* DecodeFixed16, 32 and 64, of bytes the caller has seen to be there.
DecodeFixed(s, w) ==
  IF reader = "little" THEN CHOOSE v \in 0 .. Power(Byte, w) - 1 : InMemory(v, w, reader) = s
  ELSE Value(s, Byte)

\* That caller, which c2_coding leaves to its users.
GetFixed(kind, w) ==
  /\ Expects(kind)
  /\ IF Len(input) >= w
     THEN Yields(kind, DecodeFixed(SubSeq(input, 1, w), w), remove_prefix(input, w))
     ELSE Fails(input)

Next ==
  \/ \E v \in Numbers : PutFixed32(v) \/ PutFixed64(v) \/ PutVarint32(v) \/ PutVarint64(v)
  \/ \E s \in Slices : PutLengthPrefixedSlice(s)
  \/ Deliver
  \/ GetVarint32 \/ GetVarint64 \/ GetLengthPrefixedSlice \/ GetLengthPrefixedSlicePtr
  \/ GetFixed("fixed32", W32) \/ GetFixed("fixed64", W64)

Spec == Init /\ [][Next]_vars

-----------------------------------------------------------------------------
(* Properties.                                                             *)

TypeOK ==
  /\ phase \in {"write", "read", "failed"}
  /\ dst \in Seq(0 .. Byte - 1) /\ given \in Seq(0 .. Byte - 1) /\ input \in Seq(0 .. Byte - 1)
  /\ \A item \in {put[i] : i \in DOMAIN put} \cup {got[i] : i \in DOMAIN got} :
       CASE item.kind \in {"fixed32", "varint32"} -> item.val \in 0 .. Lim32 - 1
         [] item.kind \in {"fixed64", "varint64"} -> item.val \in 0 .. Lim64 - 1
         [] item.kind = "slice"                   -> item.val \in Seq(0 .. Byte - 1)

\* "Endian-neutral encoding": the reader gets what was written, in order, from
\* as much of the string as it was given and on whatever machine; the bytes of
\* one item are never taken for those of another.
RoundTrip == put # <<>> => IsPrefix(got, put)

\* A whole string parses to its end, and one that was cut fails to.
FailsOnlyIfCut ==
  put # <<>> /\ phase # "write" =>
    /\ phase = "failed" => given # dst
    /\ got = put => given = dst /\ input = <<>>

\* Whatever bytes it is given, the reader takes them from the front and never
\* beyond their end, and an item is never made of fewer bytes than it takes to
\* write it: what was parsed fits where it came from.
Consumed == SubSeq(given, 1, Len(given) - Len(input))
FitsInPlace ==
  /\ IsSuffix(input, given)
  /\ Sum([i \in 1 .. Len(got) |-> Len(Encoding(got[i]))]) <= Len(Consumed)

\* VarintLength, with which a caller reserves space, is the length that the
\* other routines write.
LengthsAgree ==
  \A i \in DOMAIN put :
    Len(Encoding(put[i])) =
      CASE put[i].kind = "fixed32" -> W32
        [] put[i].kind = "fixed64" -> W64
        [] put[i].kind = "slice"   -> VarintLength(Len(put[i].val)) + Len(put[i].val)
        [] OTHER                   -> VarintLength(put[i].val)

\* What is left to parse compares with the whole, with what was written and with
\* other slices as the strings they view: see Ordered.
SlicesOrdered ==
  \A s \in {given, dst} \cup Slices : Ordered(input, s) /\ Ordered(s, input)
=============================================================================
