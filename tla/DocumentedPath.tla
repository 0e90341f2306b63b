--------------------------- MODULE DocumentedPath ---------------------------
(***************************************************************************)
(* What the tests and messages of the repository say of the explanations,  *)
(* where the code does otherwise.  Nobody changes the path in these.       *)
(***************************************************************************)
EXTENDS ExplainPath

\* unlink.pm:542-678 (explain_unlink_eperm_file) deletes another user's file
\* from a sticky directory and expects the log to say that the directory "is
\* not writable by the user".
StickyReported ==
  /\ Undisturbed /\ req.sc = "unlink" /\ req.err = "EPERM"
  /\ "t" \in fs[req.n - 1].perm
  => answer.tag = "dir_unwritable"

\* unlink.pm:286-396 (explain_unlink_eacces_dir) deletes a file from a directory
\* that the user may not search and expects the log to say that a directory or a
\* file "is not searchable by the user".
UnsearchableReported ==
  /\ Undisturbed /\ req.sc = "unlink" /\ req.err = "EACCES"
  /\ Lstat(fs, req.n) = "EACCES" /\ fs[req.n].type = "file"
  => answer.tag \in {"dir_unsearchable", "file_unsearchable"}

\* "directory '...' is not searchable by the user", says the text of path.c:92:
\* the directory it names is one that the user indeed may not search.
NamedDirUnsearchable ==
  Undisturbed /\ answer.tag = "dir_unsearchable"
    => fs[answer.at].type = "dir" /\ "x" \notin fs[answer.at].perm

\* mod_explain.pm:372 and chroot.pm:129 expect a chroot refused to a process
\* without root privileges to be explained by the missing permission; the
\* process survives to log it.
NonRootReported ==
  req.sc = "chroot" /\ req.err = "EPERM" => pc # "faulted"
=============================================================================
