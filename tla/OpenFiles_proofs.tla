-------------------------- MODULE OpenFiles_proofs --------------------------
(***************************************************************************)
(* Proofs about OpenFiles, for every set of objects and of names and every *)
(* number of descriptors.                                                  *)
(***************************************************************************)
EXTENDS OpenFiles, SequenceTheorems, TLAPS

AllNames == Names \cup {Elsewhere}
Bytes    == Objects \cup {Hole, Old}
Entries  == [owner : Objects \cup {Nobody, Other}, name : AllNames, open : BOOLEAN, off : Nat]
States   == [state : {"none", "null", "live", "destroyed"}, kind : {"raw", "buffered"},
             name : AllNames, fd : Fds \cup {-1}, pend : 0 .. BufferSize]

\* An object that was never created has written nothing and holds nothing ...
Unborn == \A o \in Objects : obj[o].state = "none" =>
            /\ obj[o].fd = -1
            /\ \A n \in AllNames : \A i \in DOMAIN file[n] : file[n][i] # o

\* ... and so is the name of an object fixed before its first byte is written.
IInv == TypeOK /\ DescriptorsOwned /\ Unborn /\ NoStrayBytes

-----------------------------------------------------------------------------
(* Lemmas.                                                                 *)

\* A file after a write holds the bytes it held, those of the writer and holes.
HoldsOnly(w, f, o) ==
  /\ w \in Seq(Bytes)
  /\ \A i \in DOMAIN w : w[i] = o \/ w[i] = Hole \/ \E j \in DOMAIN f : w[i] = f[j]

LEMMA WrittenBytes ==
  ASSUME NEW f \in Seq(Bytes), NEW off \in Nat, NEW o \in Objects, NEW k \in Nat
  PROVE  HoldsOnly(Written(f, off, o, k), f, o)
<1> DEFINE len == IF k > 0 /\ off + k > Len(f) THEN off + k ELSE Len(f)
           w == Written(f, off, o, k)
<1>1. Len(f) \in Nat /\ len \in Nat /\ DOMAIN f = 1 .. Len(f)
  BY LenProperties
<1>2. \A j \in 1 .. Len(f) : f[j] \in Bytes
  BY ElementOfSeq
<1>3. /\ DOMAIN w = 1 .. len
      /\ w = [i \in 1 .. len |-> IF i \in off + 1 .. off + k THEN o
                                 ELSE IF i <= Len(f) THEN f[i] ELSE Hole]
  BY DEF Written
<1> HIDE DEF len, w
<1>4. ASSUME NEW i \in 1 .. len
      PROVE  w[i] \in Bytes /\ (w[i] = o \/ w[i] = Hole \/ \E j \in DOMAIN f : w[i] = f[j])
  <2>1. i \in Nat /\ i >= 1
    BY <1>1
  <2>2. CASE i \in off + 1 .. off + k
    BY <1>3, <2>2 DEF Bytes
  <2>3. CASE i \notin off + 1 .. off + k /\ i <= Len(f)
    BY <1>1, <1>2, <1>3, <2>1, <2>3
  <2>4. CASE i \notin off + 1 .. off + k /\ ~(i <= Len(f))
    BY <1>3, <2>4 DEF Bytes
  <2> QED BY <2>2, <2>3, <2>4
<1>5. w \in [1 .. len -> Bytes]
  BY <1>3, <1>4
<1>6. w \in Seq(Bytes)
  BY <1>1, <1>5
<1> QED BY <1>3, <1>4, <1>6 DEF w, HoldsOnly

\* What open() does to the tables, for an object o that was not created yet.
LEMMA StepOpen ==
  ASSUME IInv, NEW o \in Objects, obj[o].state = "none",
         NEW n \in Names, NEW d \in Fds, NEW own \in {o, Nobody},
         OpenTruncate(own, n, d), obj' \in [Objects -> States],
         \A p \in Objects \ {o} : obj'[p] = obj[p],
         obj'[o].state # "none",
         IF own = o THEN obj'[o].fd = d /\ obj'[o].name = n ELSE obj'[o].fd = -1,
         last' = [last EXCEPT ![n] = own], UNCHANGED others
  PROVE  IInv'
<1> USE SizesAssumption, MarksAssumption
<1>1. /\ fds \in [Fds -> Entries] /\ file \in [AllNames -> Seq(Bytes)]
      /\ obj \in [Objects -> States] /\ others \subseteq Fds
  BY DEF IInv, TypeOK, Entries, States, AllNames, Bytes
<1>2. /\ ~fds[d].open
      /\ fds' = [fds EXCEPT ![d] = [owner |-> own, name |-> n, open |-> TRUE, off |-> 0]]
      /\ file' = [file EXCEPT ![n] = <<>>]
      /\ shared' \in {shared \cup {n}, shared \ {n}}
  BY DEF OpenTruncate, IsLowest, Free
<1>3. /\ fds'[d].owner = own /\ fds'[d].name = n /\ fds'[d].open
      /\ \A e \in Fds \ {d} : fds'[e] = fds[e]
  BY <1>1, <1>2
<1>4. /\ file'[n] = <<>> /\ \A m \in AllNames \ {n} : file'[m] = file[m]
  BY <1>1, <1>2 DEF AllNames
<1>5. TypeOK'
  <2>1. [owner |-> own, name |-> n, open |-> TRUE, off |-> 0] \in Entries
    BY DEF Entries, AllNames
  <2>2. fds' \in [Fds -> Entries]
    BY <1>1, <1>2, <2>1
  <2>3. <<>> \in Seq(Bytes)
    BY EmptySeq
  <2>4. file' \in [AllNames -> Seq(Bytes)]
    BY <1>1, <1>2, <2>3
  <2>5. last' \in [Names -> Objects \cup {Nobody}] /\ shared' \subseteq Names
    BY <1>2 DEF IInv, TypeOK
  <2> QED BY <1>1, <2>2, <2>4, <2>5 DEF TypeOK, Entries, States, AllNames, Bytes
<1>6. DescriptorsOwned'
  <2>1. ASSUME NEW p \in Objects, obj'[p].fd # -1
        PROVE  LET e == fds'[obj'[p].fd] IN e.open /\ e.owner = p /\ e.name = obj'[p].name
    <3>1. CASE p = o
      BY <1>3, <2>1, <3>1
    <3>2. CASE p # o
      <4>1. obj[p].fd \in Fds /\ fds[obj[p].fd].open
        BY <1>1, <2>1, <3>2 DEF IInv, DescriptorsOwned, States
      <4>2. obj[p].fd # d
        BY <1>2, <4>1
      <4> QED BY <1>3, <2>1, <3>2, <4>1, <4>2 DEF IInv, DescriptorsOwned
    <3> QED BY <3>1, <3>2
  <2>2. ASSUME NEW e \in Fds, fds'[e].open, fds'[e].owner \in Objects
        PROVE  obj'[fds'[e].owner].fd = e
    <3>1. CASE e = d
      BY <1>3, <2>2, <3>1
    <3>2. CASE e # d
      <4>1. fds[e].open /\ fds[e].owner \in Objects /\ obj[fds[e].owner].fd = e
        BY <1>3, <2>2, <3>2 DEF IInv, DescriptorsOwned
      <4>2. fds[e].owner # o
        BY <4>1, SizesAssumption DEF IInv, Unborn, Fds
      <4> QED BY <1>3, <3>2, <4>1, <4>2
    <3> QED BY <3>1, <3>2
  <2>3. \A e \in Fds : e \in others' <=> fds'[e].open /\ fds'[e].owner = Other
    BY <1>2, <1>3 DEF IInv, DescriptorsOwned, Nobody, Other
  <2> QED BY <2>1, <2>2, <2>3 DEF DescriptorsOwned
<1>7. \A m \in AllNames : \A i \in DOMAIN file'[m] :
        i \in DOMAIN file[m] /\ file'[m][i] = file[m][i]
  BY <1>4, EmptySeq
<1>8. Unborn'
  BY <1>7 DEF IInv, Unborn
<1>9. NoStrayBytes'
  <2>1. \A m \in AllNames : \A i \in DOMAIN file[m] : file[m][i] # o
    BY DEF IInv, Unborn
  <2> QED BY <1>7, <2>1 DEF IInv, NoStrayBytes, AllNames
<1> QED BY <1>5, <1>6, <1>8, <1>9 DEF IInv

\* A write, or a write and a close, by the owner of a descriptor.
LEMMA StepWrite ==
  ASSUME IInv, NEW o \in Objects, obj[o].state # "none", NEW k \in Nat,
         \/ Write(obj[o].fd, o, k) /\ obj'[o].fd = obj[o].fd
         \/ WriteAndClose(obj[o].fd, o, k) /\ obj'[o].fd = -1,
         obj' \in [Objects -> States], \A p \in Objects \ {o} : obj'[p] = obj[p],
         obj'[o].state # "none", obj'[o].name = obj[o].name,
         UNCHANGED <<others, last, shared>>
  PROVE  IInv'
<1> USE SizesAssumption, MarksAssumption
<1> DEFINE d == obj[o].fd
           n == obj[o].name
           w == Written(file[n], fds[d].off, o, k)
<1>1. /\ fds \in [Fds -> Entries] /\ file \in [AllNames -> Seq(Bytes)]
      /\ obj \in [Objects -> States] /\ others \subseteq Fds
  BY DEF IInv, TypeOK, Entries, States, AllNames, Bytes
<1>2. CASE d = -1
  <2>1. d \notin Fds
    BY <1>2 DEF Fds
  <2>2. UNCHANGED <<file, fds>> /\ obj'[o].fd = -1
    BY <1>2, <2>1 DEF Write, WriteAndClose
  <2>3. \A p \in Objects : obj'[p].fd = obj[p].fd /\ obj'[p].name = obj[p].name
    BY <1>2, <2>2
  <2>4. \A p \in Objects : obj'[p].state = "none" => obj[p].state = "none"
    OBVIOUS
  <2>5. TypeOK'
    BY <2>2 DEF IInv, TypeOK, States, AllNames
  <2>6. DescriptorsOwned'
    BY <2>2, <2>3 DEF IInv, DescriptorsOwned
  <2>7. Unborn' /\ NoStrayBytes'
    BY <2>2, <2>3, <2>4 DEF IInv, Unborn, NoStrayBytes
  <2> QED BY <2>5, <2>6, <2>7 DEF IInv
<1>3. CASE d # -1
  <2>1. d \in Fds /\ fds[d].open /\ fds[d].owner = o /\ fds[d].name = n /\ n \in AllNames
    BY <1>1, <1>3 DEF IInv, DescriptorsOwned, States, Entries
  <2>2. /\ w \in Seq(Bytes)
        /\ \A i \in DOMAIN w : w[i] = o \/ w[i] = Hole \/ \E j \in DOMAIN file[n] : w[i] = file[n][j]
    <3>1. file[n] \in Seq(Bytes) /\ fds[d].off \in Nat
      BY <1>1, <2>1 DEF Entries
    <3>2. HoldsOnly(w, file[n], o)
      BY <3>1, WrittenBytes
    <3> HIDE DEF w
    <3> QED BY <3>2 DEF HoldsOnly
  <2>3. file' = [file EXCEPT ![n] = w]
    BY <2>1 DEF Write, WriteAndClose
  <2> HIDE DEF w
  <2>4. file'[n] = w /\ \A m \in AllNames \ {n} : file'[m] = file[m]
    BY <1>1, <2>1, <2>3
  <2>5. \/ /\ fds' = [fds EXCEPT ![d].off = @ + k] /\ obj'[o].fd = d
        \/ /\ fds' = [fds EXCEPT ![d] = Closed] /\ obj'[o].fd = -1
    BY <2>1 DEF Write, WriteAndClose
  <2>6. TypeOK'
    <3>1. fds' \in [Fds -> Entries]
      <4>1. Closed \in Entries /\ [fds[d] EXCEPT !.off = @ + k] \in Entries
        <5>1. Closed \in Entries
          BY DEF Closed, Entries, AllNames
        <5>2. fds[d] \in Entries /\ fds[d].off + k \in Nat
          BY <1>1, <2>1 DEF Entries
        <5> QED BY <5>1, <5>2 DEF Entries
      <4>2. fds' = [fds EXCEPT ![d] = [fds[d] EXCEPT !.off = @ + k]]
            \/ fds' = [fds EXCEPT ![d] = Closed]
        BY <2>5
      <4> QED BY <1>1, <2>1, <4>1, <4>2
    <3>2. file' \in [AllNames -> Seq(Bytes)]
      BY <1>1, <2>2, <2>3
    <3> QED BY <3>1, <3>2 DEF IInv, TypeOK, Entries, States, AllNames, Bytes
  <2>7. /\ \A e \in Fds \ {d} : fds'[e] = fds[e]
        /\ \/ /\ obj'[o].fd = d /\ fds'[d].open /\ fds'[d].owner = o /\ fds'[d].name = n
           \/ obj'[o].fd = -1 /\ ~fds'[d].open
    <3>1. CASE fds' = [fds EXCEPT ![d].off = @ + k] /\ obj'[o].fd = d
      BY <1>1, <2>1, <3>1 DEF Entries
    <3>2. CASE fds' = [fds EXCEPT ![d] = Closed] /\ obj'[o].fd = -1
      <4>1. fds'[d] = Closed /\ ~Closed.open
        BY <1>1, <2>1, <3>2 DEF Closed
      <4> QED BY <1>1, <3>2, <4>1
    <3> QED BY <2>5, <3>1, <3>2
  <2>8. DescriptorsOwned'
    <3>1. ASSUME NEW p \in Objects, obj'[p].fd # -1
          PROVE  LET e == fds'[obj'[p].fd] IN e.open /\ e.owner = p /\ e.name = obj'[p].name
      <4>1. CASE p = o
        BY <2>7, <3>1, <4>1
      <4>2. CASE p # o
        <5>1. /\ obj[p].fd \in Fds /\ fds[obj[p].fd].open /\ fds[obj[p].fd].owner = p
              /\ fds[obj[p].fd].name = obj[p].name
          BY <1>1, <3>1, <4>2 DEF IInv, DescriptorsOwned, States
        <5>2. obj[p].fd # d
          BY <2>1, <4>2, <5>1
        <5> QED BY <2>7, <4>2, <5>1, <5>2
      <4> QED BY <4>1, <4>2
    <3>2. ASSUME NEW e \in Fds, fds'[e].open, fds'[e].owner \in Objects
          PROVE  obj'[fds'[e].owner].fd = e
      <4>1. CASE e = d
        BY <2>7, <3>2, <4>1
      <4>2. CASE e # d
        <5>1. fds[e].open /\ fds[e].owner \in Objects /\ obj[fds[e].owner].fd = e
          BY <2>7, <3>2, <4>2 DEF IInv, DescriptorsOwned
        <5>2. fds[e].owner # o
          BY <4>2, <5>1
        <5> QED BY <2>7, <4>2, <5>1, <5>2
      <4> QED BY <4>1, <4>2
    <3>3. \A e \in Fds : e \in others' <=> fds'[e].open /\ fds'[e].owner = Other
      BY <2>1, <2>7 DEF IInv, DescriptorsOwned
    <3> QED BY <3>1, <3>2, <3>3 DEF DescriptorsOwned
  <2>9. ASSUME NEW m \in AllNames, NEW i \in DOMAIN file'[m]
        PROVE  \/ file'[m][i] = o /\ m = n
               \/ file'[m][i] = Hole
               \/ \E j \in DOMAIN file[m] : file'[m][i] = file[m][j]
    BY <2>2, <2>4, <2>9
  <2>10. Unborn'
    <3> SUFFICES ASSUME NEW p \in Objects, obj'[p].state = "none"
                 PROVE  /\ obj'[p].fd = -1
                        /\ \A m \in AllNames : \A i \in DOMAIN file'[m] : file'[m][i] # p
      BY DEF Unborn
    <3>1. p # o /\ obj[p].state = "none" /\ obj'[p] = obj[p] /\ Hole # p
      OBVIOUS
    <3> QED BY <2>9, <3>1 DEF IInv, Unborn
  <2>11. NoStrayBytes'
    <3> SUFFICES ASSUME NEW m \in AllNames, NEW i \in DOMAIN file'[m], file'[m][i] \in Objects
                 PROVE  obj'[file'[m][i]].name = m
      BY DEF NoStrayBytes, AllNames
    <3>1. \A p \in Objects : obj'[p].name = obj[p].name
      OBVIOUS
    <3>2. \A j \in DOMAIN file[m] : file[m][j] \in Objects => obj[file[m][j]].name = m
      BY DEF IInv, NoStrayBytes, AllNames
    <3> QED BY <2>9, <3>1, <3>2
  <2> QED BY <2>6, <2>8, <2>10, <2>11 DEF IInv
<1> QED BY <1>2, <1>3

-----------------------------------------------------------------------------
(* Files with one writer.                                                  *)

\* The object a name was last created for, when nobody had it open, is the only
\* one that has a descriptor of the file, and nothing is written but at its end.
SoleIn(n) ==
  /\ obj[last[n]].state # "none" /\ obj[last[n]].name = n
  /\ \A d \in Fds : fds[d].open /\ fds[d].name = n => fds[d].owner = last[n]
  /\ \A i \in DOMAIN file[n] : file[n][i] = last[n]
  /\ obj[last[n]].fd # -1 => Len(file[n]) = fds[obj[last[n]].fd].off

Sole == \A n \in Names \ shared : last[n] # Nobody => SoleIn(n)

\* A write at the end of a file adds bytes of its writer, and no hole.
LEMMA WrittenAtEnd ==
  ASSUME NEW f \in Seq(Bytes), NEW o \in Objects, NEW k \in Nat,
         \A i \in DOMAIN f : f[i] = o
  PROVE  LET w == Written(f, Len(f), o, k)
         IN  Len(w) = Len(f) + k /\ \A i \in DOMAIN w : w[i] = o
<1> DEFINE L == Len(f)
           w == Written(f, L, o, k)
<1>1. L \in Nat /\ DOMAIN f = 1 .. L
  BY LenProperties
<1>2. (IF k > 0 /\ L + k > L THEN L + k ELSE L) = L + k
  BY <1>1
<1>3. w = [i \in 1 .. L + k |-> IF i \in L + 1 .. L + k THEN o
                               ELSE IF i <= L THEN f[i] ELSE Hole]
  BY <1>2 DEF Written
<1> HIDE DEF w, L
<1>4. DOMAIN w = 1 .. L + k /\ Len(w) = L + k
  BY <1>1, <1>3
<1>5. ASSUME NEW i \in 1 .. L + k PROVE w[i] = o
  <2>1. CASE i \in L + 1 .. L + k
    BY <1>3, <2>1
  <2>2. CASE i \notin L + 1 .. L + k
    <3>1. i <= L /\ i \in 1 .. L
      BY <1>1, <2>2
    <3> QED BY <1>1, <1>3, <2>2, <3>1
  <2> QED BY <2>1, <2>2
<1> QED BY <1>4, <1>5 DEF w, L

\* A name whose file, descriptors and object are left alone keeps its writer.
LEMMA SoleKept ==
  ASSUME IInv, NEW n \in Names, SoleIn(n), last[n] \in Objects,
         last'[n] = last[n], file'[n] = file[n],
         obj'[last[n]].state # "none", obj'[last[n]].name = obj[last[n]].name,
         obj'[last[n]].fd \in {obj[last[n]].fd, -1},
         \A d \in Fds : \/ fds'[d] = fds[d]
                        \/ fds[d].owner # last[n] /\ (fds'[d].open => fds'[d].name # n)
  PROVE  SoleIn(n)'
<1>1. \A d \in Fds : fds'[d].open /\ fds'[d].name = n => fds'[d].owner = last[n]
  BY DEF SoleIn
<1>2. ASSUME obj'[last[n]].fd # -1
      PROVE  Len(file[n]) = fds'[obj'[last[n]].fd].off
  <2>1. obj'[last[n]].fd = obj[last[n]].fd /\ obj[last[n]].fd \in Fds
    BY <1>2 DEF IInv, TypeOK
  <2>2. fds[obj[last[n]].fd].owner = last[n]
    BY <1>2, <2>1 DEF IInv, DescriptorsOwned
  <2>3. fds'[obj[last[n]].fd] = fds[obj[last[n]].fd]
    BY <2>1, <2>2
  <2> QED BY <1>2, <2>1, <2>3 DEF SoleIn
<1> QED BY <1>1, <1>2 DEF SoleIn

\* Opening a name settles anew who its sole writer is, and no other name's.
LEMMA SoleOpen ==
  ASSUME IInv, Sole, NEW o \in Objects, obj[o].state = "none",
         NEW n \in Names, NEW d \in Fds, NEW own \in {o, Nobody},
         OpenTruncate(own, n, d), obj' \in [Objects -> States],
         \A p \in Objects \ {o} : obj'[p] = obj[p],
         obj'[o].state # "none",
         own = o => obj'[o].fd = d /\ obj'[o].name = n,
         last' = [last EXCEPT ![n] = own]
  PROVE  Sole'
<1>1. /\ fds \in [Fds -> Entries] /\ file \in [AllNames -> Seq(Bytes)]
      /\ last \in [Names -> Objects \cup {Nobody}]
  BY DEF IInv, TypeOK, Entries, AllNames, Bytes
<1>2. /\ ~fds[d].open
      /\ fds' = [fds EXCEPT ![d] = [owner |-> own, name |-> n, open |-> TRUE, off |-> 0]]
      /\ file' = [file EXCEPT ![n] = <<>>]
      /\ shared' = IF \E e \in Fds : fds[e].open /\ fds[e].name = n
                   THEN shared \cup {n} ELSE shared \ {n}
  BY DEF OpenTruncate, IsLowest, Free
<1>3. /\ fds'[d].owner = own /\ fds'[d].name = n /\ fds'[d].open /\ fds'[d].off = 0
      /\ \A e \in Fds \ {d} : fds'[e] = fds[e]
  BY <1>1, <1>2
<1>4. /\ file'[n] = <<>> /\ \A m \in Names \ {n} : file'[m] = file[m]
      /\ last'[n] = own /\ \A m \in Names \ {n} : last'[m] = last[m]
  BY <1>1, <1>2 DEF AllNames
<1> SUFFICES ASSUME NEW m \in Names \ shared', last'[m] # Nobody
             PROVE  SoleIn(m)'
  BY DEF Sole
<1>5. CASE m = n
  <2>1. own = o /\ obj'[o].fd = d /\ obj'[o].name = n
    BY <1>4, <1>5
  <2>2. \A e \in Fds : ~(fds[e].open /\ fds[e].name = n)
    BY <1>2, <1>5
  <2>3. DOMAIN file'[n] = {} /\ Len(file'[n]) = 0
    BY <1>4, EmptySeq
  <2> QED BY <1>3, <1>4, <1>5, <2>1, <2>2, <2>3 DEF SoleIn
<1>6. CASE m # n
  <2>1. m \in Names \ shared /\ last'[m] = last[m] /\ last[m] \in Objects /\ SoleIn(m)
    BY <1>1, <1>2, <1>4, <1>6 DEF Sole
  <2>2. last[m] # o /\ obj'[last[m]] = obj[last[m]]
    BY <2>1 DEF SoleIn
  <2>3. \A e \in Fds \ {d} : fds'[e] = fds[e]
    BY <1>3
  <2>4. \A e \in Fds : fds'[e].open /\ fds'[e].name = m => fds'[e].owner = last[m]
    BY <1>3, <1>6, <2>1, <2>3 DEF SoleIn
  <2>5. ASSUME obj[last[m]].fd # -1
        PROVE  fds'[obj[last[m]].fd] = fds[obj[last[m]].fd]
    <3>1. obj[last[m]].fd \in Fds /\ fds[obj[last[m]].fd].open
      BY <2>1, <2>5 DEF IInv, TypeOK, DescriptorsOwned
    <3> QED BY <1>2, <2>3, <3>1
  <2> QED BY <1>4, <1>6, <2>1, <2>2, <2>4, <2>5 DEF SoleIn
<1> QED BY <1>5, <1>6

\* A write by the sole writer is at the end of its file; one by another object
\* is to another file.
LEMMA SoleWrite ==
  ASSUME IInv, Sole, NEW o \in Objects, obj[o].state # "none", NEW k \in Nat,
         \/ Write(obj[o].fd, o, k) /\ obj'[o].fd = obj[o].fd
         \/ WriteAndClose(obj[o].fd, o, k) /\ obj'[o].fd = -1,
         obj' \in [Objects -> States], \A p \in Objects \ {o} : obj'[p] = obj[p],
         obj'[o].state # "none", obj'[o].name = obj[o].name,
         UNCHANGED <<last, shared>>
  PROVE  Sole'
<1> DEFINE d == obj[o].fd
           n == obj[o].name
<1>1. /\ fds \in [Fds -> Entries] /\ file \in [AllNames -> Seq(Bytes)]
      /\ obj \in [Objects -> States] /\ last \in [Names -> Objects \cup {Nobody}]
  BY DEF IInv, TypeOK, Entries, States, AllNames, Bytes
<1> SUFFICES ASSUME NEW m \in Names \ shared, last[m] # Nobody
             PROVE  SoleIn(m)'
  BY DEF Sole
<1>2. SoleIn(m) /\ last[m] \in Objects /\ last'[m] = last[m]
  BY <1>1 DEF Sole
<1>3. /\ obj'[last[m]].state # "none" /\ obj'[last[m]].name = obj[last[m]].name
      /\ obj'[last[m]].fd \in {obj[last[m]].fd, -1}
  BY <1>2 DEF SoleIn
<1>4. CASE d = -1
  <2>1. UNCHANGED <<file, fds>>
    BY <1>4 DEF Write, WriteAndClose, Fds
  <2>2. \A e \in Fds : fds'[e] = fds[e]
    BY <2>1
  <2> QED BY <1>2, <1>3, <2>1, <2>2, SoleKept DEF SoleIn
<1>5. CASE d # -1
  <2>1. d \in Fds /\ fds[d].open /\ fds[d].owner = o /\ fds[d].name = n /\ n \in AllNames
    BY <1>1, <1>5 DEF IInv, DescriptorsOwned, States, Entries
  <2>2. file' = [file EXCEPT ![n] = Written(@, fds[d].off, o, k)]
    BY <2>1 DEF Write, WriteAndClose
  <2>3. \/ /\ fds' = [fds EXCEPT ![d].off = @ + k] /\ obj'[o].fd = d
        \/ /\ fds' = [fds EXCEPT ![d] = Closed] /\ obj'[o].fd = -1
    BY <2>1 DEF Write, WriteAndClose
  <2>4. /\ \A e \in Fds \ {d} : fds'[e] = fds[e]
        /\ \/ /\ obj'[o].fd = d /\ fds'[d].owner = o /\ fds'[d].name = n
              /\ fds'[d].off = fds[d].off + k
           \/ obj'[o].fd = -1 /\ ~fds'[d].open
    <3>1. CASE fds' = [fds EXCEPT ![d].off = @ + k] /\ obj'[o].fd = d
      BY <1>1, <2>1, <3>1 DEF Entries
    <3>2. CASE fds' = [fds EXCEPT ![d] = Closed] /\ obj'[o].fd = -1
      <4>1. fds'[d] = Closed /\ ~Closed.open
        BY <1>1, <2>1, <3>2 DEF Closed
      <4> QED BY <1>1, <3>2, <4>1
    <3> QED BY <2>3, <3>1, <3>2
  <2>5. CASE m = n
    <3>1. last[m] = o
      BY <1>2, <2>1, <2>5 DEF SoleIn
    <3>2. /\ file[m] \in Seq(Bytes) /\ Len(file[m]) = fds[d].off
          /\ \A i \in DOMAIN file[m] : file[m][i] = o
      BY <1>1, <1>2, <1>5, <3>1 DEF SoleIn, AllNames
    <3>3. file'[m] = Written(file[m], Len(file[m]), o, k)
      BY <1>1, <2>1, <2>2, <2>5, <3>2
    <3>4. Len(file'[m]) = fds[d].off + k /\ \A i \in DOMAIN file'[m] : file'[m][i] = o
      BY <3>2, <3>3, WrittenAtEnd
    <3>5. \A e \in Fds : fds'[e].open /\ fds'[e].name = m => fds'[e].owner = o
      BY <1>2, <2>4, <3>1 DEF SoleIn
    <3>6. obj'[o].fd # -1 => Len(file'[m]) = fds'[obj'[o].fd].off
      BY <2>4, <3>4
    <3> QED BY <1>2, <1>3, <3>1, <3>4, <3>5, <3>6 DEF SoleIn
  <2>6. CASE m # n
    <3>1. last[m] # o
      BY <1>2, <2>6 DEF SoleIn
    <3>2. file'[m] = file[m]
      BY <1>1, <2>2, <2>6 DEF AllNames
    <3>3. fds[d].owner # last[m] /\ (fds'[d].open => fds'[d].name # m)
      BY <2>1, <2>4, <2>6, <3>1
    <3>4. \A e \in Fds : \/ fds'[e] = fds[e]
                         \/ fds[e].owner # last[m] /\ (fds'[e].open => fds'[e].name # m)
      BY <2>4, <3>3
    <3> QED BY <1>2, <1>3, <3>2, <3>4, SoleKept DEF SoleIn
  <2> QED BY <2>5, <2>6
<1> QED BY <1>4, <1>5

\* A step that leaves the files and the names alone leaves their writers alone.
LEMMA SoleElse ==
  ASSUME IInv, Sole, UNCHANGED <<file, last, shared>>,
         \A p \in Objects : obj[p].state # "none" =>
           obj'[p].state # "none" /\ obj'[p].name = obj[p].name /\ obj'[p].fd = obj[p].fd,
         \A d \in Fds : \/ fds'[d] = fds[d]
                        \/ /\ fds[d].owner \notin Objects \/ ~fds[d].open
                           /\ fds'[d].open => fds'[d].name \notin Names
  PROVE  Sole'
<1> SUFFICES ASSUME NEW n \in Names \ shared, last[n] # Nobody
             PROVE  SoleIn(n)'
  BY DEF Sole
<1>1. SoleIn(n) /\ last[n] \in Objects
  BY DEF Sole, IInv, TypeOK
<1>2. \A d \in Fds : fds'[d].open /\ fds'[d].name = n => fds'[d].owner = last[n]
  BY <1>1 DEF SoleIn
<1>3. ASSUME obj[last[n]].fd # -1
      PROVE  fds'[obj[last[n]].fd] = fds[obj[last[n]].fd]
  BY <1>1, <1>3 DEF IInv, TypeOK, DescriptorsOwned
<1> QED BY <1>1, <1>2, <1>3 DEF SoleIn

-----------------------------------------------------------------------------
LEMMA InitIInv == Init => IInv /\ Sole
<1> SUFFICES ASSUME Init PROVE IInv /\ Sole
  OBVIOUS
<1> USE DEF Init, SizesAssumption
<1>1. NoObject \in States /\ Closed \in Entries
  BY SizesAssumption DEF NoObject, Closed, States, Entries, AllNames
<1>2. <<>> \in Seq(Bytes) /\ <<Old>> \in Seq(Bytes) /\ <<Old>>[1] = Old
      /\ DOMAIN <<>> = {} /\ DOMAIN <<Old>> = {1}
  BY DEF Bytes
<1>3. file \in [AllNames -> Seq(Bytes)]
  BY <1>2 DEF AllNames
<1>4. TypeOK
  <2>1. obj \in [Objects -> States] /\ fds \in [Fds -> Entries]
    BY <1>1
  <2> QED BY <1>3, <2>1 DEF TypeOK, States, Entries, AllNames, Bytes
<1>5. \A n \in AllNames : \A i \in DOMAIN file[n] : file[n][i] \notin Objects
  BY <1>2, MarksAssumption DEF AllNames
<1>6. DescriptorsOwned
  BY DEF DescriptorsOwned, NoObject, Closed
<1>7. IInv
  BY <1>4, <1>5, <1>6 DEF IInv, Unborn, NoStrayBytes, NoObject, AllNames
<1>8. Sole
  BY DEF Sole
<1> QED BY <1>7, <1>8

LEMMA NextIInv == IInv /\ Sole /\ [Next]_vars => IInv' /\ Sole'
<1> SUFFICES ASSUME IInv, Sole, [Next]_vars PROVE IInv' /\ Sole'
  OBVIOUS
<1> USE SizesAssumption
<1>0. obj \in [Objects -> States] /\ fds \in [Fds -> Entries]
  BY DEF IInv, TypeOK, States, Entries, AllNames
<1>1. ASSUME NEW o \in Objects, NEW n \in Names, NEW kind \in {"raw", "buffered"},
             New(o, n, kind)
      PROVE  IInv' /\ Sole'
  <2>1. PICK d \in Fds :
          /\ OpenTruncate(o, n, d)
          /\ obj' = [obj EXCEPT ![o] = [state |-> "live", kind |-> kind,
                                        name |-> n, fd |-> d, pend |-> 0]]
    BY <1>1 DEF New
  <2>2. [state |-> "live", kind |-> kind, name |-> n, fd |-> d, pend |-> 0] \in States
    BY DEF States, AllNames
  <2>3. /\ obj' \in [Objects -> States] /\ \A p \in Objects \ {o} : obj'[p] = obj[p]
        /\ obj'[o].state # "none" /\ obj'[o].fd = d /\ obj'[o].name = n
    BY <1>0, <2>1, <2>2
  <2>4. obj[o].state = "none" /\ last' = [last EXCEPT ![n] = o] /\ UNCHANGED others
    BY <1>1 DEF New
  <2> QED BY <2>1, <2>3, <2>4, StepOpen, SoleOpen
<1>2. ASSUME NEW o \in Objects, NEW n \in Names, NewThrows(o, n)
      PROVE  IInv' /\ Sole'
  <2>1. PICK d \in Fds : OpenTruncate(Nobody, n, d)
    BY <1>2 DEF NewThrows
  <2>2. obj[o].state = "none" /\ obj[o].fd = -1
    BY <1>2 DEF NewThrows, IInv, Unborn
  <2>3. obj' = [obj EXCEPT ![o].state = "null"]
    BY <1>2 DEF NewThrows
  <2>4. /\ obj' \in [Objects -> States] /\ \A p \in Objects \ {o} : obj'[p] = obj[p]
        /\ obj'[o].state # "none" /\ obj'[o].fd = -1
    BY <1>0, <2>2, <2>3 DEF States
  <2>5. last' = [last EXCEPT ![n] = Nobody] /\ UNCHANGED others
    BY <1>2 DEF NewThrows
  <2>6. Nobody # o
    BY MarksAssumption
  <2> QED BY <2>1, <2>2, <2>4, <2>5, <2>6, StepOpen, SoleOpen
<1>3. ASSUME NEW o \in Objects, NewFails(o)
      PROVE  IInv' /\ Sole'
  <2>1. obj[o].state = "none" /\ obj' = [obj EXCEPT ![o].state = "null"]
        /\ UNCHANGED <<fds, file, others, last, shared>>
    BY <1>3 DEF NewFails
  <2>2. /\ obj' \in [Objects -> States]
        /\ \A p \in Objects : obj'[p].fd = obj[p].fd /\ obj'[p].name = obj[p].name
        /\ \A p \in Objects : obj'[p].state = "none" => obj[p].state = "none"
    BY <1>0, <2>1 DEF States
  <2>3. TypeOK'
    BY <2>1, <2>2 DEF IInv, TypeOK, States, AllNames
  <2>4. DescriptorsOwned'
    BY <2>1, <2>2 DEF IInv, DescriptorsOwned
  <2>5. Unborn' /\ NoStrayBytes'
    BY <2>1, <2>2 DEF IInv, Unborn, NoStrayBytes
  <2>6. Sole'
    BY <2>1, <2>2, SoleElse DEF IInv
  <2> QED BY <2>3, <2>4, <2>5, <2>6 DEF IInv
<1>4. ASSUME NEW o \in Objects, AppendRaw(o)
      PROVE  IInv' /\ Sole'
  <2>1. PICK k \in 0 .. 1 : Write(obj[o].fd, o, k)
    BY <1>4 DEF AppendRaw
  <2>2. obj[o].state # "none" /\ UNCHANGED <<obj, others, last, shared>>
    BY <1>4 DEF AppendRaw
  <2> QED BY <1>0, <2>1, <2>2, StepWrite, SoleWrite
<1>5. ASSUME NEW o \in Objects, NEW n \in Nat, Usable(o), Drain(o, n)
      PROVE  IInv' /\ Sole'
  <2>1. PICK k \in Nat, m \in 0 .. BufferSize :
          Write(obj[o].fd, o, k) /\ obj' = [obj EXCEPT ![o].pend = m]
    <3>1. PICK k \in 0 .. n, m \in 0 .. n :
            /\ m <= BufferSize /\ Write(obj[o].fd, o, k)
            /\ obj' = [obj EXCEPT ![o].pend = m]
      BY <1>5 DEF Drain
    <3>2. k \in Nat /\ m \in 0 .. BufferSize
      BY <3>1
    <3> QED BY <3>1, <3>2
  <2>2. /\ obj' \in [Objects -> States] /\ \A p \in Objects \ {o} : obj'[p] = obj[p]
        /\ obj'[o].state = obj[o].state /\ obj'[o].fd = obj[o].fd /\ obj'[o].name = obj[o].name
    BY <1>0, <2>1 DEF States
  <2>3. obj[o].state # "none" /\ UNCHANGED <<others, last, shared>>
    BY <1>5 DEF Usable, Drain
  <2> QED BY <2>1, <2>2, <2>3, StepWrite, SoleWrite
<1>6. ASSUME NEW o \in Objects, AppendBuffered(o) \/ FlushBuffered(o)
      PROVE  IInv' /\ Sole'
  <2>1. obj[o].pend \in Nat /\ obj[o].pend + 1 \in Nat
    BY <1>0 DEF States
  <2> QED BY <1>5, <1>6, <2>1 DEF AppendBuffered, FlushBuffered
<1>7. ASSUME NEW o \in Objects, CloseRaw(o) \/ CloseBuffered(o) \/ Destroy(o)
      PROVE  IInv' /\ Sole'
  <2>1. obj[o].state = "live" /\ UNCHANGED <<others, last, shared>>
    BY <1>7 DEF CloseRaw, CloseBuffered, Destroy, Usable
  <2>2. /\ obj' \in [Objects -> States] /\ \A p \in Objects \ {o} : obj'[p] = obj[p]
        /\ obj'[o].state # "none" /\ obj'[o].name = obj[o].name /\ obj'[o].fd = -1
    <3> DEFINE Gone(st) == [obj[o] EXCEPT !.state = st, !.fd = -1, !.pend = 0]
    <3>0. ASSUME NEW st \in {"live", "destroyed"}
          PROVE  /\ Gone(st) \in States /\ Gone(st).fd = -1
                 /\ Gone(st).state = st /\ Gone(st).name = obj[o].name
      <4>1. obj[o] \in States /\ 0 \in 0 .. BufferSize
        BY <1>0
      <4>2. Gone(st) \in States
        BY <4>1 DEF States
      <4>3. Gone(st).fd = -1 /\ Gone(st).state = st /\ Gone(st).name = obj[o].name
        BY <4>1 DEF States
      <4> QED BY <4>2, <4>3
    <3>1. CASE CloseRaw(o)
      BY <1>0, <2>1, <3>1 DEF CloseRaw, States
    <3>2. CASE CloseBuffered(o)
      <4>1. obj' = [obj EXCEPT ![o] = Gone("live")]
        BY <1>0, <2>1, <3>2 DEF CloseBuffered, States
      <4> HIDE DEF Gone
      <4> QED BY <1>0, <3>0, <4>1
    <3>3. CASE Destroy(o)
      <4>1. obj' = [obj EXCEPT ![o] = Gone("destroyed")]
        BY <1>0, <2>1, <3>3 DEF Destroy, States
      <4> HIDE DEF Gone
      <4> QED BY <1>0, <3>0, <4>1
    <3> QED BY <1>7, <3>1, <3>2, <3>3
  <2>3. \E k \in Nat : WriteAndClose(obj[o].fd, o, k)
    <3>1. 0 .. obj[o].pend \subseteq Nat /\ 0 \in Nat
      BY <1>0 DEF States
    <3>2. obj[o].fd = -1 /\ UNCHANGED <<fds, file>> => WriteAndClose(obj[o].fd, o, 0)
      BY DEF WriteAndClose, Fds
    <3>3. CASE CloseRaw(o)
      BY <3>1, <3>3 DEF CloseRaw
    <3>4. CASE CloseBuffered(o)
      BY <3>1, <3>4 DEF CloseBuffered
    <3>5. CASE Destroy(o)
      BY <3>1, <3>2, <3>5 DEF Destroy
    <3> QED BY <1>7, <3>3, <3>4, <3>5
  <2> QED BY <2>1, <2>2, <2>3, StepWrite, SoleWrite
<1>8. CASE OtherOpens
  <2>1. PICK d \in Fds :
          /\ ~fds[d].open /\ others' = others \cup {d}
          /\ fds' = [fds EXCEPT ![d] = [owner |-> Other, name |-> Elsewhere,
                                        open |-> TRUE, off |-> 0]]
    BY <1>8 DEF OtherOpens, IsLowest, Free
  <2>2. UNCHANGED <<obj, file, last, shared>>
    BY <1>8 DEF OtherOpens
  <2>3. /\ fds' \in [Fds -> Entries] /\ \A e \in Fds \ {d} : fds'[e] = fds[e]
        /\ fds'[d].open /\ fds'[d].owner = Other /\ Other \notin Objects
    BY <1>0, <2>1, MarksAssumption DEF Entries, AllNames
  <2>4. TypeOK'
    BY <2>1, <2>2, <2>3 DEF IInv, TypeOK, Entries, AllNames
  <2>5. DescriptorsOwned'
    BY <1>0, <2>1, <2>2, <2>3 DEF IInv, DescriptorsOwned, States
  <2>6. Unborn' /\ NoStrayBytes'
    BY <2>2 DEF IInv, Unborn, NoStrayBytes
  <2>7. Sole'
    <3>1. fds'[d].name = Elsewhere
      BY <1>0, <2>1
    <3> QED BY <2>1, <2>2, <2>3, <3>1, SoleElse, MarksAssumption
  <2> QED BY <2>4, <2>5, <2>6, <2>7 DEF IInv
<1>9. CASE OtherCloses
  <2>1. PICK d \in others : others' = others \ {d} /\ fds' = [fds EXCEPT ![d] = Closed]
    BY <1>9 DEF OtherCloses
  <2>2. UNCHANGED <<obj, file, last, shared>>
    BY <1>9 DEF OtherCloses
  <2>3. d \in Fds /\ fds[d].owner = Other /\ Other \notin Objects
    BY <2>1, MarksAssumption DEF IInv, TypeOK, DescriptorsOwned
  <2>4. Closed \in Entries /\ ~Closed.open
    BY DEF Closed, Entries, AllNames
  <2>5. /\ fds' \in [Fds -> Entries] /\ \A e \in Fds \ {d} : fds'[e] = fds[e]
        /\ ~fds'[d].open
    BY <1>0, <2>1, <2>3, <2>4
  <2>6. TypeOK'
    BY <2>1, <2>2, <2>5 DEF IInv, TypeOK, Entries, AllNames
  <2>7. DescriptorsOwned'
    BY <1>0, <2>1, <2>2, <2>3, <2>5 DEF IInv, DescriptorsOwned, States
  <2>8. Unborn' /\ NoStrayBytes'
    BY <2>2 DEF IInv, Unborn, NoStrayBytes
  <2>9. Sole'
    BY <2>2, <2>3, <2>5, SoleElse
  <2> QED BY <2>6, <2>7, <2>8, <2>9 DEF IInv
<1>10. CASE UNCHANGED vars
  BY <1>10 DEF vars, IInv, TypeOK, DescriptorsOwned, Unborn, NoStrayBytes,
                  Sole, SoleIn
<1> QED BY <1>1, <1>2, <1>3, <1>4, <1>6, <1>7, <1>8, <1>9, <1>10 DEF Next

THEOREM Invariance == Spec => [](IInv /\ Sole)
<1> QED BY InitIInv, NextIInv, PTL DEF Spec

\* The tables keep their types for any number of objects and descriptors.
THEOREM TypeCorrect == Spec => []TypeOK
<1>1. IInv => TypeOK
  BY DEF IInv
<1> QED BY <1>1, Invariance, PTL

\* Close and the destructors of c2_io_posix.h: no descriptor is leaked, closed
\* twice or closed for another, however descriptors are reused.
THEOREM Owned == Spec => []DescriptorsOwned
<1>1. IInv => DescriptorsOwned
  BY DEF IInv
<1> QED BY <1>1, Invariance, PTL

\* Append, Flush and Close: the bytes of an object reach only its own file.
THEOREM OwnFileOnly == Spec => []NoStrayBytes
<1>1. IInv => NoStrayBytes
  BY DEF IInv
<1> QED BY <1>1, Invariance, PTL

\* NewWritableFile, Append, Flush and Close: a file that nobody had open when it
\* was last created holds the bytes of its object, as many as the offset says.
THEOREM SoleWriter == Spec => []SoleWriterOwnsFile
<1>1. Sole => SoleWriterOwnsFile
  BY DEF Sole, SoleIn, SoleWriterOwnsFile
<1> QED BY <1>1, Invariance, PTL
=============================================================================
