------------------------------- MODULE PathFS -------------------------------
(***************************************************************************)
(* The kernel's side of one path: what is found at each prefix of          *)
(* "/c2/c3/...", as the user of the session may see it, and what lstat(2)  *)
(* and the explained system calls answer.  Not code of this repository: it *)
(* is modelled from how path.c and the explain_*_error functions use it.   *)
(***************************************************************************)
EXTENDS Integers

CONSTANTS
  MaxN,      \* components of the longest path, the leading "/" included
  NameLen,   \* NameLen[k]: length of component k
  RawLen,    \* RawLen[n]: length of the path of n components
  Perms,     \* permission sets used: subsets of {"x", "w", "t"}, where "t" is
             \* a sticky directory, the entry belonging to somebody else
  FsLimits   \* the limits the kernel applies to the path

Index == 1 .. MaxN
Limits == [name_max : Int, no_trunc : Int, path_max : Int]

ASSUME PathFSAssumption ==
  /\ MaxN \in Nat \ {0}
  /\ NameLen \in [Index -> Nat]
  /\ RawLen \in [Index -> Nat]
  /\ \A k, n \in Index : k <= n => RawLen[k] <= RawLen[n]
  /\ {} \in Perms
  /\ FsLimits \in Limits

(***************************************************************************)
(* A node is what a prefix names.  "type" is what it is after symbolic     *)
(* links are followed; "link" says that lstat(2) sees a symbolic link.     *)
(***************************************************************************)
Node ==
  {nd \in [link : BOOLEAN, type : {"none", "file", "dir", "loop"}, perm : Perms] :
     /\ nd.type # "dir" => nd.perm = {}
     /\ nd.type = "loop" => nd.link}

Absent(nd) == ~nd.link /\ nd.type = "none"

\* Nothing is below a prefix that does not lead to a directory.
FileSystems ==
  {f \in [Index -> Node] :
     /\ f[1].type = "dir" /\ ~f[1].link
     /\ \A k \in Index : k > 1 /\ f[k-1].type # "dir" => Absent(f[k])}

Passable(nd) == nd.type = "dir" /\ "x" \in nd.perm

\* What walking through nd fails with when it is not passable.
NotPassable(nd) ==
  [dir |-> "EACCES", none |-> "ENOENT", file |-> "ENOTDIR", loop |-> "ELOOP"][nd.type]

\* Names are refused for their length unless they are silently truncated.
Long(k) == FsLimits.no_trunc = 1 /\ NameLen[k] > FsLimits.name_max

\* PATH_MAX counts the NUL that ends the path.
Overlong(k) == RawLen[k] >= FsLimits.path_max

\* The components at which resolving the first k of them goes wrong.
Faults(f, k) == {j \in 1 .. k : Long(j) \/ (j < k /\ ~Passable(f[j]))}

First(S) == CHOOSE j \in S : \A h \in S : j <= h

\* The errno of lstat(2) on the first k components, or "ok".
Lstat(f, k) ==
  IF Overlong(k) THEN "ENAMETOOLONG"
  ELSE IF Faults(f, k) # {}
  THEN LET j == First(Faults(f, k))
       IN IF Long(j) THEN "ENAMETOOLONG" ELSE NotPassable(f[j])
  ELSE IF Absent(f[k]) THEN "ENOENT" ELSE "ok"

\* What stat(2) and chroot(2) answer once the name has been looked up.
Follow(nd) ==
  [dir |-> "ok", none |-> "ENOENT", file |-> "ok", loop |-> "ELOOP"][nd.type]

Chroot(nd) ==
  IF Follow(nd) # "ok" THEN Follow(nd)
  ELSE IF nd.type = "file" THEN "ENOTDIR"
  ELSE IF "x" \notin nd.perm THEN "EACCES" ELSE "EPERM"

Unlink(f, n) ==
  IF n = 1 THEN "EBUSY"
  ELSE IF "w" \notin f[n-1].perm THEN "EACCES"
  ELSE IF "t" \in f[n-1].perm THEN "EPERM"
  ELSE IF f[n].type = "dir" /\ ~f[n].link THEN "EISDIR" ELSE "ok"

FsErrnos == {"EACCES", "EBUSY", "EISDIR", "ELOOP", "ENAMETOOLONG", "ENOENT",
             "ENOTDIR", "EPERM"}

\* The errno the file system gives call sc on the path of n components.
SyscallErrno(f, sc, n) ==
  IF Lstat(f, n) # "ok" THEN Lstat(f, n)
  ELSE IF sc = "stat" THEN Follow(f[n])
  ELSE IF sc = "chroot" THEN Chroot(f[n])
  ELSE IF sc = "unlink" THEN Unlink(f, n) ELSE "ok"
=============================================================================
