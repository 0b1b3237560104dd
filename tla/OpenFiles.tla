----------------------------- MODULE OpenFiles -----------------------------
(***************************************************************************)
(* All the WritableFiles of one process, of both kinds, as PosixIO and     *)
(* PosixLibcBufferedIOWrapper (c2_io_posix.cc) hand them out: which        *)
(* descriptor each object holds and whose bytes each file holds.  The rest *)
(* of the process (FastBit's files, sockets) opens descriptors of its own. *)
(*                                                                         *)
(* A byte is represented by the object that wrote it.  The kernel's tables *)
(* are external: open() takes the lowest free descriptor, an open          *)
(* descriptor has an offset of its own, and O_TRUNC empties a file that    *)
(* others may have open.                                                   *)
(***************************************************************************)
EXTENDS Integers, Sequences

CONSTANTS
  Objects,      \* the WritableFile objects ever created
  Names,        \* the file names they are created with, one file each
  NumFds,       \* the descriptors the process may have open (RLIMIT_NOFILE)
  BufferSize,   \* what the buffer of a FILE holds
  MaxLen        \* bound: the length a file may reach

ASSUME SizesAssumption == NumFds \in Nat /\ BufferSize \in Nat /\ MaxLen \in Nat

VARIABLES
  obj,      \* the objects: fd is -1 where fd_ is -1 or file_ is NULL
  fds,      \* the descriptors, a record for an open one
  file,     \* the bytes of every file; Elsewhere stands for those of others
  others,   \* the descriptors the rest of the process has opened
  last,     \* the object a name was last created for
  shared    \* the names that were open already when they were last created

vars == <<obj, fds, file, others, last, shared>>

Fds       == 0 .. NumFds - 1
Elsewhere == "elsewhere"
Nobody    == "nobody"
Other     == "other"
Hole      == "hole"
Old       == "old"       \* a byte left by an earlier run
Closed    == [owner |-> Nobody, name |-> Elsewhere, open |-> FALSE, off |-> 0]
NoObject  == [state |-> "none", kind |-> "raw", name |-> Elsewhere, fd |-> -1, pend |-> 0]

ASSUME MarksAssumption ==
  {Nobody, Other, Hole, Old} \cap Objects = {} /\ Elsewhere \notin Names

Init ==
  /\ obj = [o \in Objects |-> NoObject]
  /\ fds = [d \in Fds |-> Closed]
  /\ file \in [Names \cup {Elsewhere} -> {<<>>, <<Old>>}] /\ file[Elsewhere] = <<>>
  /\ others = {} /\ last = [n \in Names |-> Nobody] /\ shared = {}

-----------------------------------------------------------------------------
(* The kernel.                                                             *)

Free == {d \in Fds : ~fds[d].open}

IsLowest(d) == d \in Free /\ \A e \in Free : d <= e

\* The file f after k bytes of o are written at offset off.
Written(f, off, o, k) ==
  [i \in 1 .. (IF k > 0 /\ off + k > Len(f) THEN off + k ELSE Len(f)) |->
     IF i \in off + 1 .. off + k THEN o
     ELSE IF i <= Len(f) THEN f[i] ELSE Hole]

\* write() by o of k bytes to d; EBADF if d is not open.
Write(d, o, k) ==
  IF d \in Fds /\ fds[d].open
  THEN /\ file' = [file EXCEPT ![fds[d].name] = Written(@, fds[d].off, o, k)]
       /\ fds' = [fds EXCEPT ![d].off = @ + k]
  ELSE UNCHANGED <<file, fds>>

\* The same and close(d).
WriteAndClose(d, o, k) ==
  IF d \in Fds /\ fds[d].open
  THEN /\ file' = [file EXCEPT ![fds[d].name] = Written(@, fds[d].off, o, k)]
       /\ fds' = [fds EXCEPT ![d] = Closed]
  ELSE UNCHANGED <<file, fds>>

\* open() of name for owner, emptying the file.
OpenTruncate(owner, n, d) ==
  /\ IsLowest(d)
  /\ fds' = [fds EXCEPT ![d] = [owner |-> owner, name |-> n, open |-> TRUE, off |-> 0]]
  /\ file' = [file EXCEPT ![n] = <<>>]
  /\ shared' = IF \E e \in Fds : fds[e].open /\ fds[e].name = n
               THEN shared \cup {n} ELSE shared \ {n}

-----------------------------------------------------------------------------
(* The operations.                                                         *)

\* Slip: O_TRUNC is forgotten.
NewWithoutTruncate(o, n, kind) ==
  /\ obj[o].state = "none"
  /\ \E d \in Fds :
       /\ IsLowest(d)
       /\ fds' = [fds EXCEPT ![d] = [owner |-> o, name |-> n, open |-> TRUE, off |-> 0]]
       /\ shared' = IF \E e \in Fds : fds[e].open /\ fds[e].name = n
                    THEN shared \cup {n} ELSE shared \ {n}
       /\ obj' = [obj EXCEPT ![o] = [state |-> "live", kind |-> kind,
                                     name |-> n, fd |-> d, pend |-> 0]]
  /\ last' = [last EXCEPT ![n] = o]
  /\ UNCHANGED <<file, others>>

\* NewWritableFile, by open() or by fopen().
New(o, n, kind) ==
  /\ obj[o].state = "none"
  /\ \E d \in Fds :
       /\ OpenTruncate(o, n, d)
       /\ obj' = [obj EXCEPT ![o] = [state |-> "live", kind |-> kind,
                                     name |-> n, fd |-> d, pend |-> 0]]
  /\ last' = [last EXCEPT ![n] = o]
  /\ UNCHANGED others

\* open() fails, as it must when no descriptor is free: *r = NULL.
NewFails(o) ==
  /\ obj[o].state = "none"
  /\ obj' = [obj EXCEPT ![o].state = "null"]
  /\ UNCHANGED <<fds, file, others, last, shared>>

\* open() succeeds and the allocation of the object throws: nobody has the
\* descriptor any more.
NewThrows(o, n) ==
  /\ obj[o].state = "none"
  /\ \E d \in Fds : OpenTruncate(Nobody, n, d)
  /\ obj' = [obj EXCEPT ![o].state = "null"]
  /\ last' = [last EXCEPT ![n] = Nobody]
  /\ UNCHANGED others

\* write() of the unbuffered file may take the byte or not.
AppendRaw(o) ==
  /\ obj[o].state = "live" /\ obj[o].kind = "raw"
  /\ \A d \in Fds : fds[d].off < MaxLen
  /\ \E k \in 0 .. 1 : Write(obj[o].fd, o, k)
  /\ UNCHANGED <<obj, others, last, shared>>

Usable(o) == obj[o].state = "live" /\ obj[o].kind = "buffered" /\ obj[o].fd # -1

\* The C library has n bytes for the file: k are written, m stay in the buffer.
Drain(o, n) ==
  /\ \E k, m \in 0 .. n :
       /\ k + m <= n /\ m <= BufferSize
       /\ Write(obj[o].fd, o, k)
       /\ obj' = [obj EXCEPT ![o].pend = m]
  /\ UNCHANGED <<others, last, shared>>

\* Slip: a buffer of the object's own, which nothing empties.
AppendHoarding(o) ==
  /\ Usable(o)
  /\ obj' = [obj EXCEPT ![o].pend = @ + 1]
  /\ UNCHANGED <<fds, file, others, last, shared>>

AppendBuffered(o) ==
  /\ Usable(o)
  /\ obj[o].pend + fds[obj[o].fd].off < MaxLen
  /\ Drain(o, obj[o].pend + 1)

\* Flush, or Sync: it loses nothing that Flush has not.
FlushBuffered(o) == Usable(o) /\ Drain(o, obj[o].pend)

\* Slip: close(fd_) without fd_ = -1.
CloseRawKeepsFd(o) ==
  /\ obj[o].state = "live" /\ obj[o].kind = "raw"
  /\ WriteAndClose(obj[o].fd, o, 0)
  /\ UNCHANGED <<obj, others, last, shared>>

CloseRaw(o) ==
  /\ obj[o].state = "live" /\ obj[o].kind = "raw"
  /\ WriteAndClose(obj[o].fd, o, 0)
  /\ obj' = [obj EXCEPT ![o].fd = -1]
  /\ UNCHANGED <<others, last, shared>>

CloseBuffered(o) ==
  /\ Usable(o)
  /\ \E k \in 0 .. obj[o].pend : WriteAndClose(obj[o].fd, o, k)
  /\ obj' = [obj EXCEPT ![o].fd = -1, ![o].pend = 0]
  /\ UNCHANGED <<others, last, shared>>

\* Slip: the destructor leaves the file to Close.
DestroyOnly(o) ==
  /\ obj[o].state = "live"
  /\ obj' = [obj EXCEPT ![o].state = "destroyed", ![o].fd = -1, ![o].pend = 0]
  /\ UNCHANGED <<fds, file, others, last, shared>>

Destroy(o) ==
  /\ obj[o].state = "live"
  /\ IF obj[o].fd # -1
     THEN \E k \in 0 .. obj[o].pend : WriteAndClose(obj[o].fd, o, k)
     ELSE UNCHANGED <<fds, file>>
  /\ obj' = [obj EXCEPT ![o].state = "destroyed", ![o].fd = -1, ![o].pend = 0]
  /\ UNCHANGED <<others, last, shared>>

-----------------------------------------------------------------------------
(* The rest of the process.                                                *)

OtherOpens ==
  /\ \E d \in Fds :
       /\ IsLowest(d)
       /\ fds' = [fds EXCEPT ![d] = [owner |-> Other, name |-> Elsewhere,
                                     open |-> TRUE, off |-> 0]]
       /\ others' = others \cup {d}
  /\ UNCHANGED <<obj, file, last, shared>>

OtherCloses ==
  /\ \E d \in others :
       /\ fds' = [fds EXCEPT ![d] = Closed]
       /\ others' = others \ {d}
  /\ UNCHANGED <<obj, file, last, shared>>

Next ==
  \/ \E o \in Objects :
       \/ \E n \in Names : \/ \E kind \in {"raw", "buffered"} : New(o, n, kind)
                           \/ NewThrows(o, n)
       \/ NewFails(o)
       \/ AppendRaw(o) \/ AppendBuffered(o) \/ FlushBuffered(o)
       \/ CloseRaw(o) \/ CloseBuffered(o) \/ Destroy(o)
  \/ OtherOpens \/ OtherCloses

Spec == Init /\ [][Next]_vars

-----------------------------------------------------------------------------
(* Properties.                                                             *)

TypeOK ==
  /\ obj \in [Objects -> [state : {"none", "null", "live", "destroyed"},
                          kind : {"raw", "buffered"},
                          name : Names \cup {Elsewhere},
                          fd : Fds \cup {-1}, pend : 0 .. BufferSize]]
  /\ fds \in [Fds -> [owner : Objects \cup {Nobody, Other},
                      name : Names \cup {Elsewhere}, open : BOOLEAN, off : Nat]]
  /\ file \in [Names \cup {Elsewhere} -> Seq(Objects \cup {Hole, Old})]
  /\ others \subseteq Fds
  /\ last \in [Names -> Objects \cup {Nobody}]
  /\ shared \subseteq Names

\* A descriptor is open for exactly one owner, and an object that believes it
\* has one has it: none is leaked by Close or by the destructor, none is closed
\* twice, none that the rest of the process opened is ever closed here.  Only
\* an allocation that throws inside NewWritableFile leaves one to nobody.
DescriptorsOwned ==
  /\ \A o \in Objects : obj[o].fd # -1 =>
       LET e == fds[obj[o].fd] IN e.open /\ e.owner = o /\ e.name = obj[o].name
  /\ \A d \in Fds : fds[d].open /\ fds[d].owner \in Objects => obj[fds[d].owner].fd = d
  /\ \A d \in Fds : d \in others <=> fds[d].open /\ fds[d].owner = Other

\* However descriptors are reused, the bytes of an object are only in the file
\* it was created for.
NoStrayBytes ==
  \A n \in Names \cup {Elsewhere} : \A i \in DOMAIN file[n] :
    file[n][i] \in Objects => obj[file[n][i]].name = n

\* A file that nobody had open when it was last created holds the bytes its
\* object has written since, and nothing else.
SoleWriterOwnsFile ==
  \A n \in Names \ shared : last[n] # Nobody =>
    /\ \A i \in DOMAIN file[n] : file[n][i] = last[n]
    /\ obj[last[n]].fd # -1 => Len(file[n]) = fds[obj[last[n]].fd].off

\* c2_io.h:60, NewWritableFile "Deletes any existing file with the same name
\* and creates a new file": whoever had the old file open writes to the deleted
\* one, so that the new one holds the bytes of the object it was created for.
NewFileIsOwn ==
  \A n \in Names : last[n] # Nobody => \A i \in DOMAIN file[n] : file[n][i] = last[n]
=============================================================================
