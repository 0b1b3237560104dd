------------------ MODULE PosixBufferedWritableFile_proofs ------------------
(***************************************************************************)
(* Proofs about PosixBufferedWritableFile, for every MaxBytes, every       *)
(* BufferSize and for file systems with and without CloseReports.          *)
(***************************************************************************)
EXTENDS PosixBufferedWritableFile, SequenceTheorems, TLAPS

\* As long as no call has returned an error, byte i is at position i across
\* the page cache and the buffer ...
InPlace == trusted => \A i \in 1 .. Len(Held) : Held[i] = i

\* ... what was flushed has left the buffer ...
FlushedIsOut == trusted => flushed <= Len(os)

\* ... and a byte whose write-back failed is a failure still to be reported.
ErrorPending == trusted /\ lost # {} => wberr /\ faulted

IInv == /\ TypeOK /\ InOrder /\ Complete
        /\ InPlace /\ FlushedIsOut /\ ErrorPending /\ SyncedIsStable

-----------------------------------------------------------------------------
(* Lemmas on sequences.                                                    *)

\* The next n bytes behind s.
LEMMA Extended ==
  ASSUME NEW s \in Seq(1 .. MaxBytes), sent \in Nat,
         NEW n \in Nat, sent + n <= MaxBytes
  PROVE  /\ s \o Fragment(n) \in Seq(1 .. MaxBytes)
         /\ Len(s \o Fragment(n)) = Len(s) + n
         /\ \A i \in 1 .. Len(s) : (s \o Fragment(n))[i] = s[i]
         /\ \A i \in Len(s) + 1 .. Len(s) + n :
              (s \o Fragment(n))[i] = sent + (i - Len(s))
<1> USE MaxBytesAssumption
<1> DEFINE F == Fragment(n)
           t == s \o F
<1>1. F \in [1 .. n -> 1 .. MaxBytes] /\ \A i \in 1 .. n : F[i] = sent + i
  BY DEF Fragment
<1>2. F \in Seq(1 .. MaxBytes) /\ Len(F) = n
  BY <1>1
<1> HIDE DEF F
<1>3. /\ t \in Seq(1 .. MaxBytes)
      /\ Len(t) = Len(s) + n
      /\ \A i \in 1 .. Len(s) + n : t[i] = IF i <= Len(s) THEN s[i] ELSE F[i - Len(s)]
  BY <1>2, ConcatProperties
<1>4. Len(s) \in Nat
  BY LenProperties
<1> HIDE DEF t
<1>5. ASSUME NEW i \in Len(s) + 1 .. Len(s) + n
      PROVE  t[i] = sent + (i - Len(s))
  <2>1. i \in Int /\ i \in 1 .. Len(s) + n /\ ~(i <= Len(s)) /\ i - Len(s) \in 1 .. n
    BY <1>4
  <2> QED BY <1>1, <1>3, <2>1
<1>6. \A i \in 1 .. Len(s) : t[i] = s[i]
  BY <1>3, <1>4
<1> QED BY <1>3, <1>5, <1>6 DEF t, F

\* Moving k bytes of s behind a gives b and keeping m of the rest gives c: the
\* two are together the first bytes of a followed by s.
IsMove(S, a, s, k, m, b, c) ==
  /\ b \in Seq(S) /\ Len(b) = Len(a) + k
  /\ c \in Seq(S) /\ Len(c) = m
  /\ Len(b \o c) = Len(a) + k + m
  /\ \A i \in 1 .. Len(a) : b[i] = a[i]
  /\ \A i \in 1 .. Len(a) + k + m : (b \o c)[i] = (a \o s)[i]
  /\ \A i \in 1 .. Len(b) : b[i] = (b \o c)[i]

LEMMA Moved ==
  ASSUME NEW S, NEW a \in Seq(S), NEW s \in Seq(S),
         NEW k \in Nat, NEW m \in Nat, k + m <= Len(s)
  PROVE  IsMove(S, a, s, k, m, a \o SubSeq(s, 1, k), SubSeq(s, k + 1, k + m))
<1> DEFINE p == SubSeq(s, 1, k)
           b == a \o p
           c == SubSeq(s, k + 1, k + m)
           d == b \o c
           e == a \o s
<1>1. Len(a) \in Nat /\ Len(s) \in Nat
  BY LenProperties
<1>2. /\ \A i \in 1 .. k : s[i] \in S
      /\ \A i \in k + 1 .. k + m : s[i] \in S
  BY <1>1, ElementOfSeq
<1>3. p \in Seq(S) /\ Len(p) = k /\ \A i \in 1 .. k : p[i] = s[i]
  <2>1. /\ p \in Seq(S) /\ Len(p) = IF 1 <= k THEN k - 1 + 1 ELSE 0
        /\ \A i \in 1 .. k - 1 + 1 : p[i] = s[1 + i - 1]
    BY <1>2, SubSeqProperties
  <2> HIDE DEF p
  <2> QED BY <2>1
<1>4. c \in Seq(S) /\ Len(c) = m /\ \A i \in 1 .. m : c[i] = s[k + i]
  <2>1. /\ c \in Seq(S) /\ Len(c) = IF k + 1 <= k + m THEN (k + m) - (k + 1) + 1 ELSE 0
        /\ \A i \in 1 .. (k + m) - (k + 1) + 1 : c[i] = s[(k + 1) + i - 1]
    BY <1>2, SubSeqProperties
  <2> HIDE DEF c
  <2> QED BY <2>1
<1> HIDE DEF p, c
<1>5. /\ b \in Seq(S) /\ Len(b) = Len(a) + k
      /\ \A i \in 1 .. Len(a) + k : b[i] = IF i <= Len(a) THEN a[i] ELSE p[i - Len(a)]
  BY <1>3, ConcatProperties
<1>6. \A i \in 1 .. Len(a) + Len(s) : e[i] = IF i <= Len(a) THEN a[i] ELSE s[i - Len(a)]
  BY ConcatProperties
<1> HIDE DEF b, e
<1>7. /\ d \in Seq(S) /\ Len(d) = Len(b) + m
      /\ \A i \in 1 .. Len(b) + m : d[i] = IF i <= Len(b) THEN b[i] ELSE c[i - Len(b)]
  BY <1>4, <1>5, ConcatProperties
<1> HIDE DEF d
<1>8. \A i \in 1 .. Len(a) : b[i] = a[i]
  BY <1>1, <1>5
<1>9. \A i \in 1 .. Len(b) : b[i] = d[i]
  BY <1>1, <1>5, <1>7
<1>10. ASSUME NEW i \in 1 .. Len(a) + k + m
       PROVE  d[i] = e[i]
  <2>1. CASE i <= Len(a)
    <3>1. i \in 1 .. Len(a) /\ i \in 1 .. Len(b) /\ i \in 1 .. Len(a) + Len(s)
      BY <1>1, <1>5, <2>1
    <3> QED BY <1>6, <1>8, <1>9, <2>1, <3>1
  <2>2. CASE ~(i <= Len(a)) /\ i <= Len(a) + k
    <3>1. /\ i \in 1 .. Len(b) /\ i \in 1 .. Len(a) + Len(s) /\ i \in 1 .. Len(a) + k
          /\ i - Len(a) \in 1 .. k
      BY <1>1, <1>5, <2>2
    <3>2. d[i] = p[i - Len(a)] /\ e[i] = s[i - Len(a)]
      BY <1>5, <1>6, <1>9, <2>2, <3>1
    <3> QED BY <1>3, <3>1, <3>2
  <2>3. CASE ~(i <= Len(a) + k)
    <3>1. /\ ~(i <= Len(b)) /\ ~(i <= Len(a)) /\ i \in 1 .. Len(a) + Len(s)
          /\ i \in 1 .. Len(b) + m
          /\ i - Len(b) \in 1 .. m /\ k + (i - Len(b)) = i - Len(a)
      BY <1>1, <1>5, <2>3
    <3>2. d[i] = c[i - Len(b)] /\ e[i] = s[i - Len(a)]
      BY <1>6, <1>7, <3>1
    <3> QED BY <1>4, <3>1, <3>2
  <2> QED BY <2>1, <2>2, <2>3
<1>11. /\ b \in Seq(S) /\ Len(b) = Len(a) + k
       /\ c \in Seq(S) /\ Len(c) = m
       /\ Len(d) = Len(a) + k + m
       /\ \A i \in 1 .. Len(a) : b[i] = a[i]
       /\ \A i \in 1 .. Len(a) + k + m : d[i] = e[i]
       /\ \A i \in 1 .. Len(b) : b[i] = d[i]
  BY <1>4, <1>5, <1>7, <1>8, <1>9, <1>10
<1> QED BY <1>11, Zenon DEF IsMove, b, c, d, e, p

-----------------------------------------------------------------------------
(* Lemmas on the library.                                                  *)

\* What a call that moves bytes leaves in the page cache and in the buffer.
LEMMA HeldAfterMove ==
  ASSUME IInv, NEW n \in Nat, sent + n <= MaxBytes, sent' = sent + n,
         n > 0 => obj # "destroyed",
         NEW k \in Nat, NEW m \in Nat, Move(buf \o Fragment(n), k, m)
  PROVE  /\ os' \in Seq(1 .. MaxBytes) /\ Len(os') = Len(os) + k
         /\ buf' \in Seq(1 .. MaxBytes) /\ Len(buf') = m /\ m <= BufferSize
         /\ Len(Held') = Len(os) + k + m
         /\ k + m <= Len(buf) + n
         /\ InOrder'
         /\ trusted => \A i \in 1 .. Len(Held') : Held'[i] = i
<1> USE MaxBytesAssumption
<1> DEFINE F == Fragment(n)
           x == Held \o F
<1>1. /\ sent \in Nat /\ os \in Seq(1 .. MaxBytes) /\ buf \in Seq(1 .. MaxBytes)
      /\ Len(os) \in Nat /\ Len(buf) \in Nat
  BY LenProperties DEF IInv, TypeOK, CallerTypeOK, OSTypeOK
<1>2. /\ buf \o F \in Seq(1 .. MaxBytes) /\ Len(buf \o F) = Len(buf) + n
  BY <1>1, Extended
<1>3. Held \in Seq(1 .. MaxBytes) /\ Len(Held) = Len(os) + Len(buf)
  BY <1>1, ConcatProperties DEF Held
<1>4. /\ x \in Seq(1 .. MaxBytes)
      /\ Len(x) = Len(Held) + n
      /\ \A i \in 1 .. Len(Held) : x[i] = Held[i]
      /\ \A i \in Len(Held) + 1 .. Len(Held) + n : x[i] = sent + (i - Len(Held))
  BY <1>1, <1>3, Extended
<1>5. os \o (buf \o F) = x
  <2>1. F \in Seq(1 .. MaxBytes)
    <3>1. F \in [1 .. n -> 1 .. MaxBytes]
      BY <1>1 DEF Fragment
    <3> QED BY <3>1
  <2> HIDE DEF F
  <2>2. (os \o buf) \o F = os \o (buf \o F)
    BY <1>1, <2>1, ConcatAssociative
  <2> QED BY <2>2 DEF Held, x
<1> HIDE DEF F, x
<1>6. /\ k + m <= Len(buf) + n /\ m <= BufferSize
      /\ os' = os \o SubSeq(buf \o F, 1, k)
      /\ buf' = SubSeq(buf \o F, k + 1, k + m)
  BY <1>2 DEF Move, F
<1>7. /\ os' \in Seq(1 .. MaxBytes) /\ Len(os') = Len(os) + k
      /\ buf' \in Seq(1 .. MaxBytes) /\ Len(buf') = m
      /\ Len(Held') = Len(os) + k + m
      /\ \A i \in 1 .. Len(os) + k + m : Held'[i] = x[i]
  <2> DEFINE s == buf \o F
  <2>1. s \in Seq(1 .. MaxBytes) /\ k + m <= Len(s)
    BY <1>2, <1>6
  <2>2. os' = os \o SubSeq(s, 1, k) /\ buf' = SubSeq(s, k + 1, k + m) /\ os \o s = x
    BY <1>5, <1>6
  <2> HIDE DEF s
  <2>3. IsMove(1 .. MaxBytes, os, s, k, m, os', buf')
    BY <1>1, <2>1, <2>2, Moved
  <2> QED BY <2>2, <2>3 DEF Held, IsMove
<1>8. ASSUME NEW i \in 1 .. Len(Held')
      PROVE  \/ i \in 1 .. Len(Held) /\ Held'[i] = Held[i]
             \/ i \in Len(Held) + 1 .. Len(Held) + n /\ Held'[i] = sent + (i - Len(Held))
  <2>1. i \in 1 .. Len(os) + k + m /\ i \in 1 .. Len(Held) + n /\ i \in Int
    BY <1>1, <1>3, <1>6, <1>7
  <2>2. i \in 1 .. Len(Held) \/ i \in Len(Held) + 1 .. Len(Held) + n
    BY <1>1, <1>3, <2>1
  <2> QED BY <1>4, <1>7, <2>1, <2>2
<1>9. \A i \in 1 .. Len(Held) : Held[i] \in Nat /\ Held[i] <= sent
  BY <1>3, ElementOfSeq DEF IInv, InOrder
<1>10. Len(Held) \in Nat /\ Len(Held') \in Nat
  BY <1>1, <1>3, <1>7
<1>11. InOrder'
  <2>1. ASSUME NEW i \in 1 .. Len(Held')
        PROVE  Held'[i] <= sent'
    <3>1. CASE i \in 1 .. Len(Held) /\ Held'[i] = Held[i]
      BY <1>1, <1>9, <3>1
    <3>2. CASE /\ i \in Len(Held) + 1 .. Len(Held) + n
               /\ Held'[i] = sent + (i - Len(Held))
      BY <1>1, <1>10, <3>2
    <3> QED BY <1>8, <3>1, <3>2
  <2>2. ASSUME NEW i \in 1 .. Len(Held'), NEW j \in 1 .. Len(Held'), i < j
        PROVE  Held'[i] < Held'[j]
    <3>1. CASE j \in 1 .. Len(Held)
      <4>1. i \in 1 .. Len(Held)
        BY <1>10, <2>2, <3>1
      <4>2. Held'[i] = Held[i] /\ Held'[j] = Held[j]
        BY <1>8, <1>10, <3>1, <4>1
      <4> QED BY <2>2, <3>1, <4>1, <4>2 DEF IInv, InOrder
    <3>2. CASE j \notin 1 .. Len(Held)
      <4>1. Held'[j] = sent + (j - Len(Held)) /\ j > Len(Held)
        BY <1>8, <1>10, <3>2
      <4>2. CASE i \in 1 .. Len(Held)
        <5>1. Held'[i] = Held[i] /\ Held[i] \in Nat /\ Held[i] <= sent
          BY <1>8, <1>9, <1>10, <4>2
        <5> QED BY <1>1, <1>10, <4>1, <5>1
      <4>3. CASE i \notin 1 .. Len(Held)
        <5>1. Held'[i] = sent + (i - Len(Held)) /\ i > Len(Held)
          BY <1>8, <1>10, <4>3
        <5> QED BY <1>1, <1>10, <2>2, <4>1, <5>1
      <4> QED BY <4>2, <4>3
    <3> QED BY <3>1, <3>2
  <2> QED BY <2>1, <2>2 DEF InOrder
<1>12. ASSUME trusted, NEW i \in 1 .. Len(Held')
       PROVE  Held'[i] = i
  <2>1. \A j \in 1 .. Len(Held) : Held[j] = j
    BY <1>12 DEF IInv, InPlace
  <2>2. n > 0 => Len(Held) = sent
    BY <1>12 DEF IInv, Complete
  <2>3. CASE i \in 1 .. Len(Held) /\ Held'[i] = Held[i]
    BY <2>1, <2>3
  <2>4. CASE i \in Len(Held) + 1 .. Len(Held) + n /\ Held'[i] = sent + (i - Len(Held))
    <3>1. i \in Int /\ n > 0
      BY ONLY <1>10, <2>4, n \in Nat
    <3>2. Held'[i] = sent + (i - sent)
      BY ONLY <2>2, <2>4, <3>1
    <3> QED BY ONLY <1>1, <3>1, <3>2
  <2> QED BY <1>8, <2>3, <2>4
<1> QED BY <1>6, <1>7, <1>11, <1>12

\* Moving bytes of the buffer is moving bytes of it with no new ones behind.
LEMMA NothingNew ==
  ASSUME IInv
  PROVE  buf \o Fragment(0) = buf /\ sent \in Nat /\ sent = sent + 0 /\ Len(buf) \in Nat
<1>1. buf \in Seq(1 .. MaxBytes) /\ sent \in Nat
  BY MaxBytesAssumption DEF IInv, TypeOK, CallerTypeOK
<1>2. Fragment(0) = << >>
  BY DEF Fragment
<1>3. buf \o << >> = buf
  BY <1>1, ConcatEmptySeq
<1> QED BY <1>1, <1>2, <1>3, LenProperties

\* The two Status codes that the object returns.
LEMMA CodesOfStatus ==
  /\ StatusOf(TRUE) = "OK" /\ StatusOf(TRUE) \in Codes
  /\ StatusOf(FALSE) # "OK" /\ StatusOf(FALSE) \in Codes
<1> QED BY DEF StatusOf, PosixError, Codes

-----------------------------------------------------------------------------
LEMMA InitIInv == Init => IInv
<1> SUFFICES ASSUME Init PROVE IInv
  OBVIOUS
<1> USE DEF Init, CallerInit, OSInit
<1>1. /\ os \in Seq(1 .. MaxBytes) /\ Len(os) = 0
      /\ buf \in Seq(1 .. MaxBytes) /\ Len(buf) = 0 /\ Len(Held) = 0
  BY EmptySeq, ConcatEmptySeq DEF Held
<1>2. ret \in [op : {"New", "Append", "Flush", "Sync", "Close"}, code : Codes]
  BY DEF Codes
<1>3. CallerTypeOK
  <2>1. sent \in 0 .. MaxBytes /\ flushed \in 0 .. sent /\ synced \in 0 .. sent
    BY MaxBytesAssumption
  <2>2. trusted \in BOOLEAN /\ faulted \in BOOLEAN /\ crash \in {"none", "process", "machine"}
    OBVIOUS
  <2> QED BY <1>1, <1>2, <2>1, <2>2 DEF CallerTypeOK
<1>4. OSTypeOK
  BY <1>1 DEF OSTypeOK
<1>5. TypeOK
  BY <1>1, <1>3, <1>4, BufferSizeAssumption DEF TypeOK
<1> QED BY <1>1, <1>5 DEF IInv, InOrder, Complete, InPlace, FlushedIsOut,
           ErrorPending, SyncedIsStable

\* A call that moves bytes and returns OK only when it has moved all it had to,
\* and fdatasync() if it is a Sync, keeps the invariant.
LEMMA StepCall ==
  ASSUME IInv, obj = "open", obj' \in {"open", "closed"},
         NEW op \in {"Append", "Flush", "Sync", "Close"},
         NEW n \in Nat, op # "Append" => n = 0, sent + n <= MaxBytes,
         NEW k \in Nat, NEW m \in Nat, Move(buf \o Fragment(n), k, m),
         NEW code \in Codes, Returns(op, n, code),
         code = "OK" => k + m = Len(buf) + n /\ (op # "Append" => m = 0),
         \/ UNCHANGED <<stable, lost, wberr>> /\ (op = "Sync" => code # "OK")
         \/ SyncFail(os') /\ code # "OK"
         \/ SyncOk(os')
  PROVE  IInv'
<1> USE MaxBytesAssumption
<1>1. /\ sent \in Nat /\ os \in Seq(1 .. MaxBytes) /\ buf \in Seq(1 .. MaxBytes)
      /\ Len(os) \in Nat /\ Len(buf) \in Nat
      /\ flushed \in 0 .. sent /\ synced \in 0 .. sent
  BY LenProperties DEF IInv, TypeOK, CallerTypeOK, OSTypeOK
<1>2. sent' = sent + n
  BY DEF Returns
<1>3. /\ os' \in Seq(1 .. MaxBytes) /\ Len(os') = Len(os) + k
      /\ buf' \in Seq(1 .. MaxBytes) /\ Len(buf') = m /\ m <= BufferSize
      /\ Len(Held') = Len(os) + k + m
      /\ InOrder'
      /\ trusted => \A i \in 1 .. Len(Held') : Held'[i] = i
  BY <1>2, HeldAfterMove
<1>4. /\ UNCHANGED <<faulted, crash>>
      /\ ret' \in [op : {"New", "Append", "Flush", "Sync", "Close"}, code : Codes]
      /\ trusted' \in BOOLEAN /\ (trusted' => trusted /\ code = "OK")
      /\ flushed' = IF op # "Append" /\ code = "OK" THEN sent ELSE flushed
      /\ synced' = IF op = "Sync" /\ code = "OK" THEN sent ELSE synced
  BY DEF Returns
<1>5. OSTypeOK'
  <2>1. CASE UNCHANGED <<stable, lost, wberr>>
    BY <1>1, <1>3, <2>1 DEF IInv, TypeOK, OSTypeOK
  <2>2. CASE SyncFail(os')
    <3>1. PICK gone \in SUBSET ((1 .. Len(os')) \ (stable \cup lost)) : lost' = lost \cup gone
      BY <2>2 DEF SyncFail
    <3>2. wberr' = FALSE /\ stable' = stable
      BY <2>2 DEF SyncFail
    <3>3. 1 .. Len(os) \subseteq 1 .. Len(os')
      BY <1>1, <1>3
    <3>4. lost' \subseteq (1 .. Len(os')) \ stable'
      BY <3>1, <3>2, <3>3 DEF IInv, TypeOK, OSTypeOK
    <3> QED BY <1>1, <1>3, <3>2, <3>3, <3>4 DEF IInv, TypeOK, OSTypeOK
  <2>3. CASE SyncOk(os')
    BY <1>1, <1>3, <2>3 DEF IInv, TypeOK, OSTypeOK, SyncOk
  <2> QED BY <2>1, <2>2, <2>3
<1>6. TypeOK'
  <2>1. sent' \in 0 .. MaxBytes /\ flushed' \in 0 .. sent' /\ synced' \in 0 .. sent'
    BY <1>1, <1>2, <1>4
  <2>2. CallerTypeOK'
    BY <1>4, <2>1 DEF IInv, TypeOK, CallerTypeOK
  <2> QED BY <1>3, <1>5, <2>2 DEF TypeOK
<1>7. ASSUME trusted' PROVE Len(Held') = sent'
  <2>1. Len(os) + Len(buf) = sent
    BY <1>1, <1>4, <1>7, ConcatProperties DEF IInv, Complete, Held
  <2>2. code = "OK"
    BY <1>4, <1>7
  <2>3. k + m = Len(buf) + n
    BY <2>2
  <2>4. Len(os) \in Nat /\ Len(buf) \in Nat /\ sent \in Nat
    BY <1>1
  <2>5. Len(os) + k + m = sent + n
    BY <2>1, <2>3, <2>4
  <2>6. Len(Held') = Len(os) + k + m
    BY <1>3
  <2> QED BY <1>2, <2>5, <2>6
<1>8. Complete' /\ InPlace'
  BY <1>3, <1>4, <1>7 DEF Complete, InPlace
<1>9. ASSUME trusted' PROVE flushed' <= Len(os')
  <2>1. flushed <= Len(os)
    BY <1>4, <1>9 DEF IInv, FlushedIsOut
  <2>2. CASE op = "Append"
    BY <1>1, <1>3, <1>4, <2>1, <2>2
  <2>3. CASE op # "Append"
    BY <1>1, <1>2, <1>3, <1>4, <1>7, <1>9, <2>3
  <2> QED BY <2>2, <2>3
<1>10. ErrorPending' /\ SyncedIsStable'
  <2>1. CASE UNCHANGED <<stable, lost, wberr>> /\ (op = "Sync" => code # "OK")
    BY <1>4, <2>1 DEF IInv, ErrorPending, SyncedIsStable
  <2>2. CASE SyncFail(os') /\ code # "OK"
    BY <1>4, <2>2 DEF ErrorPending, SyncedIsStable
  <2>3. CASE SyncOk(os')
    <3>1. ErrorPending' /\ (trusted' => lost = {})
      BY <1>4, <2>3 DEF IInv, ErrorPending, SyncOk
    <3>2. ASSUME trusted' PROVE 1 .. synced' \subseteq 1 .. Len(os')
      <4>1. CASE op = "Sync"
        BY <1>1, <1>2, <1>3, <1>4, <1>7, <3>2, <4>1
      <4>2. CASE op # "Sync"
        <5>1. 1 .. synced \subseteq 1 .. Len(os)
          BY <1>4, <3>2 DEF IInv, SyncedIsStable, TypeOK, OSTypeOK
        <5> QED BY <1>1, <1>3, <1>4, <4>2, <5>1
      <4> QED BY <4>1, <4>2
    <3>3. SyncedIsStable'
      BY <2>3, <3>1, <3>2 DEF SyncOk, SyncedIsStable
    <3> QED BY <3>1, <3>3
  <2> QED BY <2>1, <2>2, <2>3
<1> QED BY <1>3, <1>6, <1>8, <1>9, <1>10 DEF IInv, FlushedIsOut

\* The destructor, after which what it could not write is gone.
LEMMA StepDestroy ==
  ASSUME IInv, Destroy
  PROVE  IInv'
<1> USE MaxBytesAssumption
<1>1. /\ UNCHANGED <<callerVars, stable, lost, wberr>> /\ obj' = "destroyed"
      /\ UNCHANGED <<sent, flushed, synced, trusted, faulted, crash, ret>>
  BY DEF Destroy, callerVars
<1>2. CASE UNCHANGED <<os, buf>>
  BY <1>1, <1>2 DEF IInv, TypeOK, CallerTypeOK, OSTypeOK, InOrder, Complete,
     InPlace, FlushedIsOut, ErrorPending, SyncedIsStable, Held
<1>3. CASE FClose \/ FCloseFails
  <2>1. PICK k \in Nat : Move(buf, k, 0)
    BY <1>3, NothingNew DEF FClose, FCloseFails
  <2>2. Move(buf \o Fragment(0), k, 0)
    BY <2>1, NothingNew
  <2>3. sent + 0 <= MaxBytes /\ sent' = sent + 0
    BY <1>1 DEF IInv, TypeOK, CallerTypeOK
  <2>4. /\ os' \in Seq(1 .. MaxBytes) /\ Len(os') = Len(os) + k
        /\ buf' \in Seq(1 .. MaxBytes) /\ Len(buf') = 0 /\ 0 <= BufferSize
        /\ InOrder'
        /\ trusted => \A i \in 1 .. Len(Held') : Held'[i] = i
    BY <2>2, <2>3, HeldAfterMove
  <2>5. Len(os) \in Nat
    BY LenProperties DEF IInv, TypeOK, OSTypeOK
  <2>6. OSTypeOK'
    BY <1>1, <2>4, <2>5 DEF IInv, TypeOK, OSTypeOK
  <2>7. TypeOK'
    BY <1>1, <2>4, <2>6 DEF IInv, TypeOK, CallerTypeOK
  <2>8. FlushedIsOut'
    BY <1>1, <2>4, <2>5 DEF IInv, FlushedIsOut, TypeOK, CallerTypeOK
  <2> QED BY <1>1, <2>4, <2>7, <2>8 DEF IInv, Complete, InPlace, ErrorPending, SyncedIsStable
<1> QED BY <1>2, <1>3 DEF Destroy

\* An empty Append, and what the device does behind the object's back.
LEMMA StepOther ==
  ASSUME IInv, AppendEmpty \/ (Environment /\ UNCHANGED <<obj, buf>>)
  PROVE  IInv'
<1> USE MaxBytesAssumption
<1>1. CASE AppendEmpty
  <2>1. Returns("Append", 0, "OK") /\ "OK" \in Codes
    BY <1>1 DEF AppendEmpty, StatusOf, Codes
  <2>2. sent' = sent
    BY <2>1 DEF Returns, IInv, TypeOK, CallerTypeOK
  <2>3. UNCHANGED <<os, stable, lost, wberr, obj, buf>>
    BY <1>1 DEF AppendEmpty, osVars
  <2>4. /\ UNCHANGED <<flushed, synced, faulted, crash>>
        /\ ret' \in [op : {"New", "Append", "Flush", "Sync", "Close"}, code : Codes]
        /\ trusted' \in BOOLEAN /\ (trusted' => trusted)
    BY <2>1 DEF Returns
  <2> QED BY <2>2, <2>3, <2>4 DEF IInv, TypeOK, CallerTypeOK, OSTypeOK, InOrder, Complete,
             InPlace, FlushedIsOut, ErrorPending, SyncedIsStable, Held
<1>2. CASE WriteBack /\ UNCHANGED <<obj, buf>>
  <2>1. PICK i \in Dirty : stable' = stable \cup {i}
    BY <1>2 DEF WriteBack
  <2> QED BY <1>2, <2>1 DEF WriteBack, Dirty, callerVars, IInv, TypeOK,
             CallerTypeOK, OSTypeOK, InOrder, Complete, InPlace, FlushedIsOut,
             ErrorPending, SyncedIsStable, Held
<1>3. CASE WriteBackFault /\ UNCHANGED <<obj, buf>>
  <2>1. PICK i \in Dirty : lost' = lost \cup {i}
    BY <1>3 DEF WriteBackFault
  <2> QED BY <1>3, <2>1 DEF WriteBackFault, Dirty, IInv, TypeOK,
             CallerTypeOK, OSTypeOK, InOrder, Complete, InPlace, FlushedIsOut,
             ErrorPending, SyncedIsStable, Held
<1>4. ASSUME NEW what \in {"process", "machine"}, Stop(what), UNCHANGED <<obj, buf>>
      PROVE  IInv'
  <2>1. crash' \in {"none", "process", "machine"}
    BY <1>4 DEF Stop
  <2>2. UNCHANGED <<sent, flushed, synced, trusted, faulted, ret, os, stable, lost, wberr, obj, buf>>
    BY <1>4 DEF Stop, osVars
  <2> QED BY <2>1, <2>2 DEF IInv, TypeOK, CallerTypeOK, OSTypeOK, InOrder, Complete,
             InPlace, FlushedIsOut, ErrorPending, SyncedIsStable, Held
<1>5. CASE Environment /\ UNCHANGED <<obj, buf>>
  BY <1>2, <1>3, <1>4, <1>5 DEF Environment, Kill, PowerLoss
<1> QED BY <1>1, <1>5

LEMMA NextIInv == IInv /\ [Next]_vars => IInv'
<1> SUFFICES ASSUME IInv, [Next]_vars PROVE IInv'
  OBVIOUS
<1> USE MaxBytesAssumption
<1>0. /\ sent \in Nat /\ sent + 0 <= MaxBytes /\ Len(buf) \in Nat
      /\ buf \in Seq(1 .. MaxBytes)
  BY LenProperties DEF IInv, TypeOK, CallerTypeOK
<1>1. ASSUME NEW n \in 1 .. MaxBytes, AppendSlice(n) PROVE IInv'
  <2>1. /\ obj = "open" /\ obj' = "open" /\ sent + n <= MaxBytes
        /\ UNCHANGED <<stable, lost, wberr>>
    BY <1>1 DEF AppendSlice, Callable
  <2>2. n \in Nat /\ Len(buf \o Fragment(n)) = Len(buf) + n
    BY <1>0, <2>1, Extended
  <2>3. CASE WriteOut(buf \o Fragment(n)) /\ Returns("Append", n, StatusOf(TRUE))
    <3>1. PICK k \in 0 .. Len(buf) + n : Move(buf \o Fragment(n), k, Len(buf) + n - k)
      BY <2>2, <2>3 DEF WriteOut
    <3>2. k \in Nat /\ Len(buf) + n - k \in Nat /\ k + (Len(buf) + n - k) = Len(buf) + n
      BY <1>0, <2>2
    <3> QED BY <2>1, <2>2, <2>3, <3>1, <3>2, CodesOfStatus, StepCall
  <2>4. CASE WriteOutFails(buf \o Fragment(n)) /\ Returns("Append", n, StatusOf(FALSE))
    <3>1. PICK k \in Nat, m \in Nat : Move(buf \o Fragment(n), k, m)
      BY <2>4 DEF WriteOutFails
    <3> QED BY <2>1, <2>2, <2>4, <3>1, CodesOfStatus, StepCall
  <2> QED BY <1>1, <2>3, <2>4 DEF AppendSlice
<1>2. \A k, m : Move(buf, k, m) => Move(buf \o Fragment(0), k, m)
  BY NothingNew
<1>3. FlushOut => Move(buf \o Fragment(0), Len(buf), 0)
  BY <1>2 DEF FlushOut
<1>4. FlushOutFails => \E k, m \in Nat : Move(buf \o Fragment(0), k, m)
  BY <1>2, NothingNew DEF FlushOutFails, WriteOutFails
<1>5. Len(buf) + 0 = Len(buf)
  BY <1>0
<1>6. CASE Flush
  <2>1. /\ obj = "open" /\ obj' = "open" /\ UNCHANGED <<stable, lost, wberr>>
    BY <1>6 DEF Flush, Callable
  <2>2. CASE FlushOut /\ Returns("Flush", 0, StatusOf(TRUE))
    BY <1>0, <1>3, <1>5, <2>1, <2>2, CodesOfStatus, StepCall
  <2>3. CASE FlushOutFails /\ Returns("Flush", 0, StatusOf(FALSE))
    <3>1. PICK k \in Nat, m \in Nat : Move(buf \o Fragment(0), k, m)
      BY <1>4, <2>3
    <3> QED BY <1>0, <2>1, <2>3, <3>1, CodesOfStatus, StepCall
  <2> QED BY <1>6, <2>2, <2>3 DEF Flush
<1>7. CASE Sync
  <2>1. obj = "open" /\ obj' = "open"
    BY <1>7 DEF Sync, Callable
  <2>2. CASE /\ FlushOutFails /\ Returns("Sync", 0, StatusOf(FALSE))
             /\ UNCHANGED <<stable, lost, wberr>>
    <3>1. PICK k \in Nat, m \in Nat : Move(buf \o Fragment(0), k, m)
      BY <1>4, <2>2
    <3> QED BY <1>0, <2>1, <2>2, <3>1, CodesOfStatus, StepCall
  <2>3. CASE FlushOut /\ SyncFail(os') /\ Returns("Sync", 0, StatusOf(FALSE))
    BY <1>0, <1>3, <1>5, <2>1, <2>3, CodesOfStatus, StepCall
  <2>4. CASE FlushOut /\ SyncOk(os') /\ Returns("Sync", 0, StatusOf(TRUE))
    BY <1>0, <1>3, <1>5, <2>1, <2>4, CodesOfStatus, StepCall
  <2> QED BY <1>7, <2>2, <2>3, <2>4 DEF Sync
<1>8. CASE Close
  <2>1. /\ obj = "open" /\ obj' = "closed" /\ UNCHANGED <<stable, lost, wberr>>
    BY <1>8 DEF Close, Callable
  <2>2. CASE FClose /\ Returns("Close", 0, StatusOf(TRUE))
    <3>1. Move(buf \o Fragment(0), Len(buf), 0)
      BY <1>2, <2>2 DEF FClose
    <3> QED BY <1>0, <1>5, <2>1, <2>2, <3>1, CodesOfStatus, StepCall
  <2>3. CASE FCloseFails /\ Returns("Close", 0, StatusOf(FALSE))
    <3>1. PICK k \in Nat : Move(buf \o Fragment(0), k, 0)
      BY <1>2, <2>3, NothingNew DEF FCloseFails
    <3> QED BY <1>0, <2>1, <2>3, <3>1, CodesOfStatus, StepCall
  <2> QED BY <1>8, <2>2, <2>3 DEF Close
<1>9. CASE AppendEmpty
  BY <1>9, StepOther
<1>10. CASE Environment /\ UNCHANGED <<obj, buf>>
  BY <1>10, StepOther
<1>11. CASE Destroy
  BY <1>11, StepDestroy
<1>12. CASE UNCHANGED vars
  BY <1>12 DEF vars, callerVars, osVars, IInv, TypeOK, CallerTypeOK,
     OSTypeOK, InOrder, Complete, InPlace, FlushedIsOut, ErrorPending,
     SyncedIsStable, Held
<1>13. CASE Call
  BY <1>1, <1>6, <1>7, <1>8, <1>9, <1>11, <1>13 DEF Call
<1> QED BY <1>10, <1>12, <1>13 DEF Next

THEOREM Invariance == Spec => []IInv
<1> QED BY InitIInv, NextIInv, PTL DEF Spec

\* c2_io_posix.h, PosixBufferedWritableFile: every state of every behaviour is
\* of the declared types, and the buffer never holds more than BufferSize.
THEOREM TypeCorrect == Spec => []TypeOK
<1>1. IInv => TypeOK
  BY DEF IInv
<1> QED BY <1>1, Invariance, PTL

\* Append: across buffer and file no byte is there twice or out of order, and
\* none is missing before a call has returned an error or the object is gone.
THEOREM NothingLost == Spec => []NothingLostSilently
<1>1. IInv => NothingLostSilently
  BY DEF IInv, NothingLostSilently
<1> QED BY <1>1, Invariance, PTL

\* Sync: a caller that has seen no error has on the device what it synced.
THEOREM Durable == Spec => []SyncedIsStable
<1>1. IInv => SyncedIsStable
  BY DEF IInv
<1> QED BY <1>1, Invariance, PTL

\* Close: where close() reports what write-back has lost, OK means nothing was.
THEOREM ClosedStored == Spec => ClosedMeansStored
<1> DEFINE A == obj = "open" /\ obj' = "closed" /\ trusted' /\ CloseReports => lost = {}
<1>1. IInv /\ [Next]_vars => [A]_vars
  <2> SUFFICES ASSUME IInv, Next, obj = "open", obj' = "closed", trusted', CloseReports
               PROVE  lost = {}
    OBVIOUS
  <2>1. Close
    BY DEF Next, Call, AppendEmpty, AppendSlice, Flush, Sync, Destroy, Callable
  <2>2. trusted /\ FClose
    BY <2>1, CodesOfStatus DEF Close, Returns
  <2>3. ~wberr
    BY <2>2 DEF FClose, CloseSucceeds, CloseFails
  <2> QED BY <2>2, <2>3 DEF IInv, ErrorPending
<1> QED BY <1>1, Invariance, PTL DEF Spec, ClosedMeansStored

-----------------------------------------------------------------------------
(* The refinement.                                                         *)

\* What a file holds after a stop, as the contract wants it.
LEMMA StopImplements ==
  ASSUME IInv, NEW what \in {"process", "machine"}, Stop(what)
  PROVE  /\ Contract!Stops(what) /\ Len(Found') = Len(os)
         /\ trusted => \A k \in Nat : 1 .. k \subseteq Survivors' => Contract!Intact(Found', k)
<1>1. Len(os) \in Nat /\ sent \in Nat /\ \A i \in 1 .. Len(os) : os[i] \in Nat \ {0}
  BY LenProperties, ElementOfSeq, MaxBytesAssumption DEF IInv, TypeOK, OSTypeOK, CallerTypeOK
<1>0. /\ Len(Held) \in Nat /\ Len(os) <= Len(Held)
      /\ \A i \in 1 .. Len(os) : i \in 1 .. Len(Held) /\ os[i] = Held[i]
  <2>1. /\ buf \in Seq(1 .. MaxBytes) /\ os \in Seq(1 .. MaxBytes) /\ Len(buf) \in Nat
    BY LenProperties DEF IInv, TypeOK, OSTypeOK
  <2>2. /\ Len(Held) = Len(os) + Len(buf)
        /\ \A i \in 1 .. Len(os) + Len(buf) :
             Held[i] = IF i <= Len(os) THEN os[i] ELSE buf[i - Len(os)]
    BY <2>1, ConcatProperties DEF Held
  <2> QED BY <1>1, <2>1, <2>2
<1>2. /\ Found' = [i \in 1 .. Len(os) |-> IF i \in Survivors' THEN os[i] ELSE 0]
      /\ crash = "none" /\ crash' = what /\ UNCHANGED <<sent, flushed, synced, trusted, faulted>>
      /\ Survivors' \subseteq 1 .. Len(os)
  BY <1>1 DEF Stop, Found, Survivors, osVars, IInv, TypeOK, OSTypeOK
<1>3. DOMAIN Found' = 1 .. Len(os) /\ Len(Found') = Len(os)
  BY <1>1, <1>2
<1>4. \A i \in 1 .. Len(os) : Found'[i] = 0 \/ Found'[i] = os[i]
  BY <1>2
<1>5. Contract!InOrder(Found')
  <2>1. \A i \in 1 .. Len(os) : Found'[i] \in 0 .. sent
    BY <1>0, <1>1, <1>4 DEF IInv, InOrder
  <2>2. \A i, j \in 1 .. Len(os) :
          i < j /\ Found'[i] # 0 /\ Found'[j] # 0 => Found'[i] < Found'[j]
    BY <1>0, <1>1, <1>4 DEF IInv, InOrder
  <2> QED BY <1>3, <2>1, <2>2 DEF Contract!InOrder, Contract!Hole
<1>6. trusted => Contract!InPlace(Found')
  BY <1>0, <1>3, <1>4 DEF IInv, InPlace, Contract!InPlace, Contract!Hole
<1>7. ASSUME trusted, NEW k \in Nat, 1 .. k \subseteq Survivors'
      PROVE  Contract!Intact(Found', k)
  <2>1. k <= Len(os)
    BY <1>1, <1>2, <1>7
  <2>2. \A i \in 1 .. k : i \in 1 .. Len(os) /\ Found'[i] = os[i] /\ os[i] = i
    BY <1>0, <1>1, <1>2, <1>7, <2>1 DEF IInv, InPlace
  <2> QED BY <1>3, <2>1, <2>2 DEF Contract!Intact
<1> QED BY <1>2, <1>3, <1>5, <1>6, <1>7 DEF Contract!Stops

\* While nothing has failed, the page cache holds no more than was appended.
LEMMA InSent ==
  ASSUME IInv, trusted
  PROVE  Len(os) <= sent
<1>1. /\ buf \in Seq(1 .. MaxBytes) /\ os \in Seq(1 .. MaxBytes)
      /\ Len(buf) \in Nat /\ Len(os) \in Nat /\ sent \in Nat
  BY MaxBytesAssumption, LenProperties DEF IInv, TypeOK, OSTypeOK, CallerTypeOK
<1>2. Len(Held) = Len(os) + Len(buf)
  BY <1>1, ConcatProperties DEF Held
<1>3. CASE Len(Held) = 0
  <2>1. Len(os) \in Nat /\ Len(buf) \in Nat /\ sent \in Nat
    BY <1>1
  <2>2. Len(os) + Len(buf) = 0
    BY <1>2, <1>3
  <2> QED BY <2>1, <2>2
<1>4. CASE Len(Held) # 0
  <2>1. Len(Held) \in 1 .. Len(Held)
    BY <1>1, <1>2, <1>4
  <2>2. Held[Len(Held)] = Len(Held) /\ Held[Len(Held)] <= sent
    BY <2>1 DEF IInv, InPlace, InOrder
  <2> QED BY <1>1, <1>2, <2>2
<1> QED BY <1>3, <1>4

\* Every step of the object is a step of the contract, or changes nothing of it.
LEMMA StepImplements ==
  ASSUME IInv, [Next]_vars
  PROVE  [Contract!Next]_(Contract!vars)
<1> USE DEF Contract!vars
<1>1. sent \in Nat /\ Len(os) \in Nat
  BY MaxBytesAssumption, LenProperties DEF IInv, TypeOK, CallerTypeOK, OSTypeOK
<1>0. crash = "none" /\ crash' = crash => UNCHANGED Found
  BY DEF Found
<1>2. ASSUME NEW n \in Nat, NEW code, crash = "none", Returns("Append", n, code)
      PROVE  Contract!AppendBytes
  <2>1. sent' \in Nat /\ sent' >= sent
    BY <1>1, <1>2 DEF Returns
  <2>2. \E ok \in BOOLEAN : Contract!Report(ok)
    BY <1>2 DEF Returns, Contract!Report
  <2> QED BY <1>0, <1>2, <2>1, <2>2 DEF Returns, Contract!AppendBytes
<1>3. ASSUME NEW op \in {"Flush", "Close"}, NEW code, crash = "none", Returns(op, 0, code)
      PROVE  Contract!FlushOrClose
  <2>1. sent' = sent
    BY <1>1, <1>3 DEF Returns
  <2> QED BY <1>0, <1>3, <2>1 DEF Returns, Contract!FlushOrClose, Contract!Report
<1>4. ASSUME NEW code, crash = "none", Returns("Sync", 0, code)
      PROVE  Contract!Sync
  <2>1. sent' = sent
    BY <1>1, <1>4 DEF Returns
  <2> QED BY <1>0, <1>4, <2>1 DEF Returns, Contract!Sync, Contract!Report
<1>5. CASE Call
  <2>0. crash = "none"
    BY <1>5 DEF Call, AppendEmpty, AppendSlice, Flush, Sync, Close, Destroy, Callable
  <2>1. CASE AppendEmpty
    <3>1. Returns("Append", 0, "OK")
      BY <2>1 DEF AppendEmpty, StatusOf
    <3> QED BY <1>2, <2>0, <3>1 DEF Contract!Next
  <2>2. ASSUME NEW n \in 1 .. MaxBytes, AppendSlice(n)
        PROVE  Contract!AppendBytes
    <3>1. \E code : Returns("Append", n, code)
      BY <2>2 DEF AppendSlice
    <3> QED BY <1>2, <2>0, <3>1, MaxBytesAssumption
  <2>3. CASE Flush \/ Close
    <3>1. \E code : Returns("Flush", 0, code) \/ Returns("Close", 0, code)
      BY <2>3 DEF Flush, Close
    <3> QED BY <1>3, <2>0, <3>1 DEF Contract!Next
  <2>4. CASE Sync
    <3>1. \E code : Returns("Sync", 0, code)
      BY <2>4 DEF Sync
    <3> QED BY <1>4, <2>0, <3>1 DEF Contract!Next
  <2>5. CASE Destroy
    BY <1>0, <2>0, <2>5 DEF Destroy, callerVars
  <2> QED BY <1>5, <2>1, <2>2, <2>3, <2>4, <2>5 DEF Call, Contract!Next
<1>6. CASE WriteBack
  BY <1>0, <1>6 DEF WriteBack, callerVars
<1>7. CASE WriteBackFault
  BY <1>0, <1>7 DEF WriteBackFault, Contract!Next, Contract!Fault
<1>8. CASE Kill
  <2>1. Contract!Stops("process")
    BY <1>8, StopImplements DEF Kill
  <2>2. ASSUME trusted, ~faulted
        PROVE  /\ Contract!Intact(Found', Len(Found'))
               /\ Len(Found') \in flushed .. sent
    <3>1. Survivors' = 1 .. Len(os) /\ flushed <= Len(os)
      BY <1>8, <2>2 DEF IInv, ErrorPending, FlushedIsOut, Kill, Stop, Survivors, osVars
    <3>2. Len(Found') = Len(os)
      BY <1>8, StopImplements DEF Kill
    <3>3. Contract!Intact(Found', Len(os))
      BY <1>1, <1>8, <2>2, <3>1, StopImplements DEF Kill
    <3>4. flushed \in Nat /\ Len(os) <= sent
      BY <1>1, <2>2, InSent DEF IInv, TypeOK, CallerTypeOK
    <3> QED BY <1>1, <3>1, <3>2, <3>3, <3>4
  <2> QED BY <2>1, <2>2 DEF Contract!Kill, Contract!Next
<1>9. CASE PowerLoss
  <2>1. stable \subseteq 1 .. Len(os) /\ synced \in Nat
    BY <1>1 DEF IInv, TypeOK, OSTypeOK, CallerTypeOK
  <2>2. Contract!Stops("machine") /\ (trusted => Contract!Intact(Found', synced))
    BY <1>9, <2>1, StopImplements DEF PowerLoss, Stop, Survivors, osVars, IInv, SyncedIsStable
  <2> QED BY <2>2 DEF Contract!PowerLoss, Contract!Next
<1>10. CASE UNCHANGED vars
  BY <1>10 DEF vars, callerVars, osVars, Found, Survivors
<1> QED BY <1>5, <1>6, <1>7, <1>8, <1>9, <1>10 DEF Next, Environment

\* A buffered file is a WritableFile: it keeps the contract of c2_io.h.
THEOREM Refinement == Spec => ImplementsContract
<1>1. Init => Contract!Init
  BY DEF Init, CallerInit, Contract!Init, Found
<1>2. IInv /\ [Next]_vars => [Contract!Next]_(Contract!vars)
  BY StepImplements
<1> QED BY <1>1, <1>2, Invariance, PTL DEF Spec, ImplementsContract, Contract!Spec
=============================================================================
