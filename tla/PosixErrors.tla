---------------------------- MODULE PosixErrors ----------------------------
(***************************************************************************)
(* The Status codes of c2_status.h and PosixError (c2_io_posix.cc), which  *)
(* turns the errno of a failed system call into one of them.  A Status is  *)
(* represented by its code alone: the message only carries the file name.  *)
(***************************************************************************)

\* The members of Status::Code that some operation of the program builds.
Codes == {"OK", "NotFound", "AlreadyExists", "AccessDenied", "IOError"}

\* What errno may hold: no error yet, or the error of the last call that failed.
Errnos == {"none", "EEXIST", "ENOENT", "EACCES", "ENOTDIR", "EBADF", "EIO", "ENOSPC"}

\* Slip: no default, and an errno without a code of its own is returned raw.
PosixErrorRaw(e) ==
  CASE e = "EEXIST" -> "AlreadyExists"
    [] e = "ENOENT" -> "NotFound"
    [] e = "EACCES" -> "AccessDenied"
    [] OTHER        -> e

PosixError(e) ==
  CASE e = "EEXIST" -> "AlreadyExists"
    [] e = "ENOENT" -> "NotFound"
    [] e = "EACCES" -> "AccessDenied"
    [] OTHER        -> "IOError"
=============================================================================
