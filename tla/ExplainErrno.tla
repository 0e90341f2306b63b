---------------------------- MODULE ExplainErrno ----------------------------
(***************************************************************************)
(* Which explanation a failed system call gets before any path is looked   *)
(* at: the callbacks of mod_explain.c, the errno switches of chroot.c,     *)
(* lstat.c, stat.c and unlink.c, and the table of generic.c.  An           *)
(* explanation text is represented by a tag; "none" is a NULL return.      *)
(***************************************************************************)

\* Callbacks that hand over to an explain_*_error function.
Explained == {"chroot", "lstat", "stat", "unlink"}

\* Callbacks that set errno to ENOSYS and return NULL.
Stubbed == {"chmod", "chown", "close", "fchmod", "fchown", "lchown", "mkdir",
            "open", "read", "rename", "rmdir", "write"}

\* The errno values an explain_*_error function hands to explain_path_error.
PathErrnos(sc) ==
  {"EACCES", "ENOENT", "ELOOP", "ENAMETOOLONG", "EPERM"}
    \cup (IF sc = "chroot" THEN {"ENOTDIR"} ELSE {})

\* EXPLAIN_PATH_FL_WANT_SEARCH is among the path_flags of the call.
WantSearch(sc) == sc \in {"chroot", "lstat", "stat"}

\* The errno values generic.c has a text for.
GenericErrnos == {"EAGAIN", "EMFILE", "ENFILE", "EINTR", "EFAULT", "EIO",
                  "ENOMEM", "EPERM"}

\* Mutant of DescribeGeneric: the switch has no default.
DescribeGeneric_NoDefault(err) == IF err = "0" THEN "none" ELSE err

\* explain_describe_generic: errno 0 is not an error and has no text.
DescribeGeneric(err) ==
  IF err = "0" THEN "none"
  ELSE IF err \in GenericErrnos THEN err ELSE "gremlins"

\* describe_nonroot_eperm answers before the path is looked at.
NonRootEperm(sc, err, root) == sc = "chroot" /\ err = "EPERM" /\ ~root

\* The call goes on to explain_path_error.
GoesToPath(sc, err, root) ==
  sc \in Explained /\ err \in PathErrnos(sc) /\ ~NonRootEperm(sc, err, root)

\* The tag of a failure that neither of the above takes.
DescribeOther(sc, err) ==
  IF sc \in Stubbed THEN "none"
  ELSE IF sc = "chroot" /\ err = "ENOMEM" THEN "kernel_memory"
  ELSE DescribeGeneric(err)

OtherTags == GenericErrnos \cup {"none", "gremlins", "kernel_memory"}
=============================================================================
