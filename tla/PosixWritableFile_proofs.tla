---------------------- MODULE PosixWritableFile_proofs ----------------------
(***************************************************************************)
(* Proofs about PosixWritableFile, for every MaxBytes and for file systems *)
(* with and without CloseReports.                                          *)
(***************************************************************************)
EXTENDS PosixWritableFile, SequenceTheorems, TLAPS

\* As long as no call has returned an error, the page cache holds byte i at
\* position i and no byte is missing ...
InPlace == trusted => /\ Len(os) = sent
                      /\ \A i \in 1 .. Len(os) : os[i] = i

\* ... and a byte whose write-back failed is a failure still to be reported:
\* this is why the next Sync cannot return OK for it.
ErrorPending == trusted /\ lost # {} => wberr /\ faulted

IInv == TypeOK /\ InOrder /\ InPlace /\ ErrorPending /\ SyncedIsStable

-----------------------------------------------------------------------------
(* Lemmas.                                                                 *)

\* What write() adds to the page cache: the next bytes, behind the old ones.
LEMMA Written ==
  ASSUME NEW s \in Seq(1 .. MaxBytes), sent \in Nat,
         NEW nw \in Nat, sent + nw <= MaxBytes
  PROVE  LET t == s \o Fragment(nw) IN
           /\ t \in Seq(1 .. MaxBytes)
           /\ Len(t) = Len(s) + nw
           /\ \A i \in 1 .. Len(s) : t[i] = s[i]
           /\ \A i \in Len(s) + 1 .. Len(t) : t[i] = sent + (i - Len(s))
<1> USE MaxBytesAssumption
<1> DEFINE F == Fragment(nw)
           t == s \o F
<1>1. F \in [1 .. nw -> 1 .. MaxBytes] /\ \A i \in 1 .. nw : F[i] = sent + i
  BY DEF Fragment
<1>2. F \in Seq(1 .. MaxBytes) /\ Len(F) = nw
  BY <1>1
<1> HIDE DEF F
<1>3. /\ t \in Seq(1 .. MaxBytes)
      /\ Len(t) = Len(s) + nw
      /\ \A i \in 1 .. Len(s) + nw : t[i] = IF i <= Len(s) THEN s[i] ELSE F[i - Len(s)]
  BY <1>2, ConcatProperties
<1>4. Len(s) \in Nat
  BY LenProperties
<1> HIDE DEF t
<1>5. ASSUME NEW i \in Len(s) + 1 .. Len(t)
      PROVE  t[i] = sent + (i - Len(s))
  <2>1. i \in Int /\ i \in 1 .. Len(s) + nw /\ ~(i <= Len(s)) /\ i - Len(s) \in 1 .. nw
    BY <1>3, <1>4
  <2> QED BY <1>1, <1>3, <2>1
<1>6. \A i \in 1 .. Len(s) : t[i] = s[i]
  BY <1>3, <1>4
<1> QED BY <1>3, <1>5, <1>6 DEF t, F

\* Every Status code that the object returns is one of Codes.
LEMMA CodesOfStatus ==
  ASSUME NEW complete \in BOOLEAN, NEW e
  PROVE  /\ StatusOf(complete, e) \in Codes
         /\ StatusOf(complete, e) = "OK" <=> complete
<1> QED BY DEF StatusOf, PosixError, Codes

-----------------------------------------------------------------------------
LEMMA InitIInv == Init => IInv
<1> SUFFICES ASSUME Init PROVE IInv
  OBVIOUS
<1> USE DEF Init, CallerInit, OSInit
<1>1. os \in Seq(1 .. MaxBytes) /\ Len(os) = 0
  BY EmptySeq
<1>2. ret \in [op : {"New", "Append", "Flush", "Sync", "Close"}, code : Codes]
  BY DEF Codes
<1>3. CallerTypeOK
  <2>1. sent \in 0 .. MaxBytes /\ flushed \in 0 .. sent /\ synced \in 0 .. sent
    BY MaxBytesAssumption
  <2>2. trusted \in BOOLEAN /\ faulted \in BOOLEAN /\ crash \in {"none", "process", "machine"}
    OBVIOUS
  <2> QED BY <1>1, <1>2, <2>1, <2>2 DEF CallerTypeOK
<1>4. OSTypeOK
  BY <1>1 DEF OSTypeOK
<1>5. TypeOK
  BY <1>3, <1>4 DEF TypeOK, Errnos
<1> QED BY <1>1, <1>5 DEF IInv, InOrder, InPlace, ErrorPending, SyncedIsStable

\* The Append that writes.
LEMMA StepAppendWrite ==
  ASSUME IInv, NEW n \in 1 .. MaxBytes, AppendWrite(n)
  PROVE  IInv'
<1> USE MaxBytesAssumption
<1>0. PICK nw \in 1 .. n : /\ os' = os \o Fragment(nw)
                           /\ Returns("Append", n, StatusOf(nw = n, errno))
  BY DEF AppendWrite
<1>1. TypeOK /\ n \in Nat /\ n > 0 /\ sent \in Nat /\ sent + n <= MaxBytes
  BY DEF AppendWrite, IInv, TypeOK, CallerTypeOK
<1>2. /\ os' \in Seq(1 .. MaxBytes)
      /\ Len(os') = Len(os) + nw
      /\ \A i \in 1 .. Len(os) : os'[i] = os[i]
      /\ \A i \in Len(os) + 1 .. Len(os') : os'[i] = sent + (i - Len(os))
  <2>1. os \in Seq(1 .. MaxBytes)
    BY <1>1 DEF TypeOK, OSTypeOK
  <2>2. nw \in Nat /\ sent + nw <= MaxBytes
    BY <1>1
  <2>3. LET t == os \o Fragment(nw) IN
          /\ t \in Seq(1 .. MaxBytes)
          /\ Len(t) = Len(os) + nw
          /\ \A i \in 1 .. Len(os) : t[i] = os[i]
          /\ \A i \in Len(os) + 1 .. Len(t) : t[i] = sent + (i - Len(os))
    BY <1>1, <2>1, <2>2, Written
  <2> QED BY <1>0, <2>3
<1>3. /\ ret' \in [op : {"New", "Append", "Flush", "Sync", "Close"}, code : Codes]
      /\ trusted' \in BOOLEAN /\ (trusted' => trusted /\ nw = n)
      /\ sent' = sent + n
      /\ UNCHANGED <<flushed, synced, faulted, crash, stable, lost, wberr, obj, errno>>
  BY <1>0, CodesOfStatus DEF Returns, AppendWrite
<1>4. Len(os) \in Nat
  BY <1>1, LenProperties DEF TypeOK, OSTypeOK
<1>5. TypeOK'
  <2>1. CallerTypeOK'
    BY <1>1, <1>3 DEF TypeOK, CallerTypeOK
  <2>2. OSTypeOK'
    BY <1>1, <1>2, <1>3, <1>4 DEF TypeOK, OSTypeOK
  <2> QED BY <1>1, <1>3, <2>1, <2>2 DEF TypeOK
<1>6. ASSUME NEW i \in 1 .. Len(os')
      PROVE  \/ i \in 1 .. Len(os) /\ os'[i] = os[i]
             \/ i \in Len(os) + 1 .. Len(os') /\ os'[i] = sent + (i - Len(os))
  BY <1>2, <1>4
<1>7. InOrder'
  <2>1. \A i \in 1 .. Len(os) : os[i] \in Nat /\ os[i] <= sent
    BY <1>1, ElementOfSeq DEF IInv, InOrder, TypeOK, OSTypeOK
  <2>2. ASSUME NEW i \in 1 .. Len(os')
        PROVE  os'[i] <= sent'
    <3>1. CASE i \in 1 .. Len(os) /\ os'[i] = os[i]
      BY <1>1, <1>3, <2>1, <3>1
    <3>2. CASE i \in Len(os) + 1 .. Len(os') /\ os'[i] = sent + (i - Len(os))
      BY <1>1, <1>2, <1>3, <1>4, <3>2
    <3> QED BY <1>6, <3>1, <3>2
  <2>3. ASSUME NEW i \in 1 .. Len(os'), NEW j \in 1 .. Len(os'), i < j
        PROVE  os'[i] < os'[j]
    <3>1. Len(os') \in Nat
      BY <1>2, <1>4
    <3>2. CASE j \in 1 .. Len(os)
      <4>1. i \in 1 .. Len(os)
        BY <1>4, <2>3, <3>1, <3>2
      <4> QED BY <1>2, <2>3, <3>2, <4>1 DEF IInv, InOrder
    <3>3. CASE j \notin 1 .. Len(os)
      <4>1. os'[j] = sent + (j - Len(os)) /\ j > Len(os)
        BY <1>4, <1>6, <3>1, <3>3
      <4>2. CASE i \in 1 .. Len(os)
        <5>1. os'[i] = os[i] /\ os[i] \in Nat /\ os[i] <= sent
          BY <1>2, <2>1, <4>2
        <5> QED BY <1>1, <1>4, <3>1, <4>1, <5>1
      <4>3. CASE i \notin 1 .. Len(os)
        <5>1. os'[i] = sent + (i - Len(os)) /\ i > Len(os)
          BY <1>4, <1>6, <3>1, <4>3
        <5> QED BY <1>1, <1>4, <2>3, <3>1, <4>1, <5>1
      <4> QED BY <4>2, <4>3
    <3> QED BY <3>2, <3>3
  <2> QED BY <2>2, <2>3 DEF InOrder
<1>8. InPlace'
  <2> SUFFICES ASSUME trusted'
               PROVE  Len(os') = sent' /\ \A i \in 1 .. Len(os') : os'[i] = i
    BY DEF InPlace
  <2>1. Len(os) = sent /\ nw = n /\ \A i \in 1 .. Len(os) : os[i] = i
    BY <1>3 DEF IInv, InPlace
  <2> QED BY <1>1, <1>2, <1>3, <1>4, <1>6, <2>1
<1>9. ErrorPending' /\ SyncedIsStable'
  BY <1>3 DEF IInv, ErrorPending, SyncedIsStable, TypeOK, CallerTypeOK
<1> QED BY <1>5, <1>7, <1>8, <1>9 DEF IInv

\* The calls that leave the file and the device alone.
LEMMA StepQuiet ==
  ASSUME IInv, UNCHANGED osVars,
         NEW op \in {"Append", "Flush", "Sync", "Close"}, NEW n \in Nat, NEW e,
         NEW ok \in BOOLEAN, ok => n = 0 /\ op # "Sync", sent + n <= MaxBytes,
         Returns(op, n, StatusOf(ok, e)),
         obj' \in {"open", "closed", "destroyed"}, errno' \in Errnos
  PROVE  IInv'
<1>1. /\ ret' \in [op : {"New", "Append", "Flush", "Sync", "Close"}, code : Codes]
      /\ trusted' \in BOOLEAN /\ (trusted' => trusted /\ ok)
      /\ sent' = sent + n
      /\ flushed' \in {flushed, sent}
      /\ UNCHANGED <<synced, faulted, crash, os, stable, lost, wberr>>
  BY CodesOfStatus DEF Returns, osVars
<1>2. sent \in Nat /\ sent' \in Nat
  BY <1>1, MaxBytesAssumption DEF IInv, TypeOK, CallerTypeOK
<1>3. TypeOK'
  BY <1>1, <1>2, MaxBytesAssumption
     DEF IInv, TypeOK, CallerTypeOK, OSTypeOK
<1>4. InOrder'
  <2>1. \A i \in 1 .. Len(os) : os[i] \in Nat
    BY ElementOfSeq, MaxBytesAssumption DEF IInv, TypeOK, OSTypeOK
  <2> QED BY <1>1, <1>2, <2>1 DEF IInv, InOrder
<1>5. InPlace' /\ ErrorPending' /\ SyncedIsStable'
  BY <1>1, <1>2 DEF IInv, InPlace, ErrorPending, SyncedIsStable
<1> QED BY <1>3, <1>4, <1>5 DEF IInv

\* The Sync that calls fdatasync.
LEMMA StepSync ==
  ASSUME IInv, Sync, obj = "open"
  PROVE  IInv'
<1> USE MaxBytesAssumption
<1>0. /\ os' = os /\ obj' = obj
      /\ \E code \in Codes :
           /\ \/ SyncOk(os) /\ errno' = errno
              \/ SyncFail(os) /\ errno' = "EIO" /\ code # "OK"
           /\ Returns("Sync", 0, code)
  <2>1. StatusOf(TRUE, errno) \in Codes
    BY CodesOfStatus
  <2>2. StatusOf(FALSE, "EIO") \in Codes /\ StatusOf(FALSE, "EIO") # "OK"
    BY CodesOfStatus
  <2> QED BY <2>1, <2>2 DEF Sync
<1>1. PICK code \in Codes :
        /\ \/ SyncOk(os) /\ errno' = errno
           \/ SyncFail(os) /\ errno' = "EIO" /\ code # "OK"
        /\ Returns("Sync", 0, code)
  BY <1>0
<1>2. /\ os' = os /\ obj' = obj /\ errno' \in Errnos
      /\ UNCHANGED <<faulted, crash>> /\ sent' = sent
      /\ ret' \in [op : {"New", "Append", "Flush", "Sync", "Close"}, code : Codes]
      /\ flushed' \in {flushed, sent} /\ synced' \in {synced, sent}
      /\ trusted' \in BOOLEAN /\ (trusted' => trusted /\ code = "OK")
  <2>1. sent' = sent
    BY <1>1 DEF Returns, IInv, TypeOK, CallerTypeOK
  <2>2. errno' \in Errnos
    BY <1>1 DEF IInv, TypeOK, Errnos
  <2> QED BY <1>0, <1>1, <2>1, <2>2 DEF Returns
<1>3. OSTypeOK'
  <2>1. CASE SyncOk(os)
    BY <1>2, <2>1 DEF IInv, TypeOK, OSTypeOK, SyncOk
  <2>2. CASE SyncFail(os)
    <3>1. PICK gone \in SUBSET ((1 .. Len(os)) \ (stable \cup lost)) : lost' = lost \cup gone
      BY <2>2 DEF SyncFail
    <3>2. wberr' = FALSE /\ stable' = stable
      BY <2>2 DEF SyncFail
    <3> QED BY <1>2, <3>1, <3>2 DEF IInv, TypeOK, OSTypeOK
  <2> QED BY <1>1, <2>1, <2>2
<1>4. TypeOK'
  <2>1. CallerTypeOK'
    BY <1>2 DEF IInv, TypeOK, CallerTypeOK
  <2> QED BY <1>2, <1>3, <2>1 DEF IInv, TypeOK
<1>5. InOrder' /\ InPlace'
  BY <1>2 DEF IInv, InOrder, InPlace
<1>6. CASE SyncOk(os)
  <2>1. ErrorPending' /\ (trusted' => lost = {})
    BY <1>2, <1>6 DEF IInv, ErrorPending, SyncOk
  <2>2. trusted' => 1 .. synced' \subseteq 1 .. Len(os)
    BY <1>2 DEF IInv, InPlace, TypeOK, CallerTypeOK
  <2>3. SyncedIsStable'
    BY <1>6, <2>1, <2>2 DEF SyncOk, SyncedIsStable
  <2> QED BY <1>4, <1>5, <2>1, <2>3 DEF IInv
<1>7. CASE ~trusted'
  BY <1>4, <1>5, <1>7 DEF IInv, ErrorPending, SyncedIsStable
<1> QED BY <1>1, <1>2, <1>6, <1>7

\* What the thread and the device do behind the object's back.
LEMMA StepOther ==
  ASSUME IInv,
         \/ Destroy \/ OtherCallFails
         \/ Environment /\ UNCHANGED <<obj, errno>>
  PROVE  IInv'
<1> USE MaxBytesAssumption
<1>1. CASE Destroy \/ OtherCallFails
  <2>1. /\ UNCHANGED <<callerVars, osVars>>
        /\ obj' \in {"open", "closed", "destroyed"} /\ errno' \in Errnos
    BY <1>1 DEF Destroy, OtherCallFails, CloseErrno, IInv, TypeOK, Errnos
  <2> QED BY <2>1 DEF callerVars, osVars, IInv, TypeOK, CallerTypeOK,
             OSTypeOK, InOrder, InPlace, ErrorPending, SyncedIsStable
<1>2. CASE WriteBack /\ UNCHANGED <<obj, errno>>
  <2>1. PICK i \in Dirty : stable' = stable \cup {i}
    BY <1>2 DEF WriteBack
  <2> QED BY <1>2, <2>1 DEF WriteBack, Dirty, callerVars, IInv, TypeOK,
             CallerTypeOK, OSTypeOK, InOrder, InPlace, ErrorPending, SyncedIsStable
<1>3. CASE WriteBackFault /\ UNCHANGED <<obj, errno>>
  <2>1. PICK i \in Dirty : lost' = lost \cup {i}
    BY <1>3 DEF WriteBackFault
  <2> QED BY <1>3, <2>1 DEF WriteBackFault, Dirty, IInv, TypeOK,
             CallerTypeOK, OSTypeOK, InOrder, InPlace, ErrorPending, SyncedIsStable
<1>4. ASSUME NEW what \in {"process", "machine"}, Stop(what), UNCHANGED <<obj, errno>>
      PROVE  IInv'
  <2>1. crash' \in {"none", "process", "machine"}
    BY <1>4 DEF Stop
  <2>2. UNCHANGED <<sent, flushed, synced, trusted, faulted, ret, os, stable, lost, wberr, obj, errno>>
    BY <1>4 DEF Stop, osVars
  <2> QED BY <2>1, <2>2 DEF IInv, TypeOK, CallerTypeOK,
             OSTypeOK, InOrder, InPlace, ErrorPending, SyncedIsStable
<1> QED BY <1>1, <1>2, <1>3, <1>4 DEF Environment, Kill, PowerLoss

LEMMA NextIInv == IInv /\ [Next]_vars => IInv'
<1> SUFFICES ASSUME IInv, [Next]_vars PROVE IInv'
  OBVIOUS
<1>1. sent \in 0 .. MaxBytes /\ sent + 0 <= MaxBytes /\ errno \in Errnos
      /\ obj \in {"open", "closed", "destroyed"}
  BY MaxBytesAssumption DEF IInv, TypeOK, CallerTypeOK
<1>2. CASE AppendEmpty
  BY <1>1, <1>2, StepQuiet DEF AppendEmpty, StatusOf
<1>3. ASSUME NEW n \in 1 .. MaxBytes, AppendWrite(n) PROVE IInv'
  BY <1>3, StepAppendWrite
<1>4. ASSUME NEW n \in 1 .. MaxBytes, AppendFail(n) PROVE IInv'
  <2>1. UNCHANGED osVars /\ obj' = obj /\ errno' \in Errnos /\ n \in Nat
        /\ sent + n <= MaxBytes /\ Returns("Append", n, StatusOf(FALSE, errno'))
    <3>1. UNCHANGED osVars /\ obj' = obj /\ sent + n <= MaxBytes
          /\ Returns("Append", n, StatusOf(FALSE, errno'))
      BY <1>4 DEF AppendFail
    <3>2. errno' \in Errnos
      BY <1>4 DEF AppendFail, WriteErrnos, Errnos
    <3>3. n \in Nat
      BY MaxBytesAssumption
    <3> QED BY <3>1, <3>2, <3>3
  <2> QED BY <1>1, <2>1, StepQuiet
<1>5. CASE Flush
  BY <1>1, <1>5, StepQuiet DEF Flush, StatusOf
<1>6. CASE Sync
  <2>1. CASE obj = "open"
    BY <1>6, <2>1, StepSync
  <2>2. CASE obj # "open"
    <3>1. UNCHANGED osVars /\ obj' = obj /\ errno' \in Errnos
          /\ Returns("Sync", 0, StatusOf(FALSE, errno'))
      BY <1>6, <2>2 DEF Sync, osVars, Errnos
    <3> QED BY <1>1, <3>1, StepQuiet
  <2> QED BY <2>1, <2>2
<1>7. CASE Close
  <2>1. errno' \in Errnos
    BY <1>1, <1>7 DEF Close, CloseErrno, Errnos
  <2> QED BY <1>1, <1>7, <2>1, StepQuiet DEF Close, StatusOf
<1>8. CASE Destroy
  BY <1>8, StepOther
<1>9. CASE OtherCallFails
  BY <1>9, StepOther
<1>10. CASE Environment /\ UNCHANGED <<obj, errno>>
  BY <1>10, StepOther
<1>11. CASE UNCHANGED vars
  BY <1>11 DEF vars, callerVars, osVars, IInv, TypeOK, CallerTypeOK,
     OSTypeOK, InOrder, InPlace, ErrorPending, SyncedIsStable
<1>12. CASE Call
  BY <1>2, <1>3, <1>4, <1>5, <1>6, <1>7, <1>8, <1>12 DEF Call
<1> QED BY <1>11, <1>12, <1>9, <1>10 DEF Next

THEOREM Invariance == Spec => []IInv
<1> QED BY InitIInv, NextIInv, PTL DEF Spec

\* c2_io_posix.h, PosixWritableFile: every state of every behaviour is of the
\* declared types; in particular each Status returned has one of the codes.
THEOREM TypeCorrect == Spec => []TypeOK
<1>1. IInv => TypeOK
  BY DEF IInv
<1> QED BY <1>1, Invariance, PTL

\* Append: no byte is written twice or out of order, whatever fails, and none
\* is missing from the file before some call has returned an error.
THEOREM NothingLost == Spec => []NothingLostSilently
<1>1. IInv => NothingLostSilently
  BY DEF IInv, InPlace, NothingLostSilently, Complete
<1> QED BY <1>1, Invariance, PTL

\* Sync: a caller that has seen no error has on the device what it synced.
THEOREM Durable == Spec => []SyncedIsStable
<1>1. IInv => SyncedIsStable
  BY DEF IInv
<1> QED BY <1>1, Invariance, PTL

-----------------------------------------------------------------------------
(* The refinement.                                                         *)

\* What a file holds after a stop, as the contract wants it.
LEMMA StopImplements ==
  ASSUME IInv, NEW what \in {"process", "machine"}, Stop(what)
  PROVE  /\ Contract!Stops(what) /\ Len(Found') = Len(os)
         /\ trusted => \A k \in Nat : 1 .. k \subseteq Survivors' => Contract!Intact(Found', k)
<1>1. Len(os) \in Nat /\ sent \in Nat /\ \A i \in 1 .. Len(os) : os[i] \in Nat \ {0}
  BY LenProperties, ElementOfSeq, MaxBytesAssumption DEF IInv, TypeOK, OSTypeOK, CallerTypeOK
<1>2. /\ Found' = [i \in 1 .. Len(os) |-> IF i \in Survivors' THEN os[i] ELSE 0]
      /\ crash = "none" /\ crash' = what /\ UNCHANGED <<sent, flushed, synced, trusted, faulted>>
      /\ Survivors' \subseteq 1 .. Len(os)
  BY <1>1 DEF Stop, Found, Survivors, osVars, IInv, TypeOK, OSTypeOK
<1>3. DOMAIN Found' = 1 .. Len(os) /\ Len(Found') = Len(os)
  BY <1>1, <1>2
<1>4. \A i \in 1 .. Len(os) : Found'[i] = 0 \/ Found'[i] = os[i]
  BY <1>2
<1>5. Contract!InOrder(Found')
  <2>1. \A i \in 1 .. Len(os) : Found'[i] \in 0 .. sent
    BY <1>1, <1>4 DEF IInv, InOrder
  <2>2. \A i, j \in 1 .. Len(os) :
          i < j /\ Found'[i] # 0 /\ Found'[j] # 0 => Found'[i] < Found'[j]
    BY <1>1, <1>4 DEF IInv, InOrder
  <2> QED BY <1>3, <2>1, <2>2 DEF Contract!InOrder, Contract!Hole
<1>6. trusted => Contract!InPlace(Found')
  BY <1>3, <1>4 DEF IInv, InPlace, Contract!InPlace, Contract!Hole
<1>7. ASSUME trusted, NEW k \in Nat, 1 .. k \subseteq Survivors'
      PROVE  Contract!Intact(Found', k)
  <2>1. k <= Len(os)
    BY <1>1, <1>2, <1>7
  <2>2. \A i \in 1 .. k : i \in 1 .. Len(os) /\ Found'[i] = os[i] /\ os[i] = i
    BY <1>1, <1>2, <1>7, <2>1 DEF IInv, InPlace
  <2> QED BY <1>3, <2>1, <2>2 DEF Contract!Intact
<1> QED BY <1>2, <1>3, <1>5, <1>6, <1>7 DEF Contract!Stops

\* Every step of the object is a step of the contract, or changes nothing of it.
LEMMA StepImplements ==
  ASSUME IInv, [Next]_vars
  PROVE  [Contract!Next]_(Contract!vars)
<1> USE DEF Contract!vars
<1>1. sent \in Nat /\ Len(os) \in Nat
  BY MaxBytesAssumption, LenProperties DEF IInv, TypeOK, CallerTypeOK, OSTypeOK
<1>0. crash = "none" /\ crash' = crash => UNCHANGED Found
  BY DEF Found
<1>2. ASSUME NEW n \in Nat, NEW code, crash = "none", Returns("Append", n, code)
      PROVE  Contract!AppendBytes
  <2>1. sent' \in Nat /\ sent' >= sent
    BY <1>1, <1>2 DEF Returns
  <2>2. \E ok \in BOOLEAN : Contract!Report(ok)
    BY <1>2 DEF Returns, Contract!Report
  <2> QED BY <1>0, <1>2, <2>1, <2>2 DEF Returns, Contract!AppendBytes
<1>3. ASSUME NEW op \in {"Flush", "Close"}, NEW code, crash = "none", Returns(op, 0, code)
      PROVE  Contract!FlushOrClose
  <2>1. sent' = sent
    BY <1>1, <1>3 DEF Returns
  <2> QED BY <1>0, <1>3, <2>1 DEF Returns, Contract!FlushOrClose, Contract!Report
<1>4. ASSUME NEW code, crash = "none", Returns("Sync", 0, code)
      PROVE  Contract!Sync
  <2>1. sent' = sent
    BY <1>1, <1>4 DEF Returns
  <2> QED BY <1>0, <1>4, <2>1 DEF Returns, Contract!Sync, Contract!Report
<1>5. CASE Call
  <2>0. crash = "none"
    BY <1>5 DEF Call, AppendEmpty, AppendWrite, AppendFail, Flush, Sync, Close, Destroy, Callable
  <2>1. CASE AppendEmpty
    <3>1. Returns("Append", 0, "OK")
      BY <2>1 DEF AppendEmpty
    <3> QED BY <1>2, <2>0, <3>1 DEF Contract!Next
  <2>2. ASSUME NEW n \in 1 .. MaxBytes, AppendWrite(n) \/ AppendFail(n)
        PROVE  Contract!AppendBytes
    <3>1. \E code : Returns("Append", n, code)
      BY <2>2 DEF AppendWrite, AppendFail
    <3> QED BY <1>2, <2>0, <3>1, MaxBytesAssumption
  <2>3. CASE Flush \/ Close
    <3>1. Returns("Flush", 0, "OK") \/ Returns("Close", 0, "OK")
      BY <2>3 DEF Flush, Close
    <3> QED BY <1>3, <2>0, <3>1 DEF Contract!Next
  <2>4. CASE Sync
    <3>1. \E code : Returns("Sync", 0, code)
      BY <2>4 DEF Sync
    <3> QED BY <1>4, <2>0, <3>1 DEF Contract!Next
  <2>5. CASE Destroy
    BY <1>0, <2>0, <2>5 DEF Destroy, callerVars
  <2> QED BY <1>5, <2>1, <2>2, <2>3, <2>4, <2>5 DEF Call, Contract!Next
<1>6. CASE OtherCallFails
  BY <1>0, <1>6 DEF OtherCallFails, Callable, callerVars
<1>7. CASE WriteBack
  BY <1>0, <1>7 DEF WriteBack, callerVars
<1>8. CASE WriteBackFault
  BY <1>0, <1>8 DEF WriteBackFault, Contract!Next, Contract!Fault
<1>9. CASE Kill
  <2>1. Contract!Stops("process")
    BY <1>9, StopImplements DEF Kill
  <2>2. ASSUME trusted, ~faulted
        PROVE  /\ Contract!Intact(Found', Len(Found'))
               /\ Len(Found') \in flushed .. sent
    <3>1. Survivors' = 1 .. Len(os) /\ Len(os) = sent
      BY <1>9, <2>2 DEF IInv, ErrorPending, InPlace, Kill, Stop, Survivors, osVars
    <3>2. Len(Found') = Len(os)
      BY <1>9, StopImplements DEF Kill
    <3>3. Contract!Intact(Found', Len(os))
      BY <1>1, <1>9, <2>2, <3>1, StopImplements DEF Kill
    <3>4. flushed \in Nat /\ flushed <= sent
      BY <1>1 DEF IInv, TypeOK, CallerTypeOK
    <3> QED BY <1>1, <3>1, <3>2, <3>3, <3>4
  <2> QED BY <2>1, <2>2 DEF Contract!Kill, Contract!Next
<1>10. CASE PowerLoss
  <2>1. stable \subseteq 1 .. Len(os) /\ synced \in Nat
    BY <1>1 DEF IInv, TypeOK, OSTypeOK, CallerTypeOK
  <2>2. Contract!Stops("machine") /\ (trusted => Contract!Intact(Found', synced))
    BY <1>10, <2>1, StopImplements DEF PowerLoss, Stop, Survivors, osVars, IInv, SyncedIsStable
  <2> QED BY <2>2 DEF Contract!PowerLoss, Contract!Next
<1>11. CASE UNCHANGED vars
  BY <1>11 DEF vars, callerVars, osVars, Found, Survivors
<1> QED BY <1>5, <1>6, <1>7, <1>8, <1>9, <1>10, <1>11 DEF Next, Environment

\* An unbuffered file is a WritableFile: it keeps the contract of c2_io.h.
THEOREM Refinement == Spec => ImplementsContract
<1>1. Init => Contract!Init
  BY DEF Init, CallerInit, Contract!Init, Found
<1>2. IInv /\ [Next]_vars => [Contract!Next]_(Contract!vars)
  BY StepImplements
<1> QED BY <1>1, <1>2, Invariance, PTL DEF Spec, ImplementsContract, Contract!Spec
=============================================================================
