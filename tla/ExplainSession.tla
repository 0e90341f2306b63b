--------------------------- MODULE ExplainSession ---------------------------
(***************************************************************************)
(* One session: the walk of ExplainPath with the limits of PlatformLimits. *)
(* The walk asks the getters of platform.c, which answer with what the     *)
(* last announcement of a directory has stored or with what pathconf(3)    *)
(* says of the path, and a failed chroot(2) is itself explained.  The      *)
(* names of PlatformLimits are the paths of 1 .. MaxN components, and 0    *)
(* for a directory that is elsewhere.                                      *)
(***************************************************************************)
EXTENDS ExplainPath

CONSTANTS
  Untold,    \* what pathconf(3) says of a path it cannot look up
  Elsewhere  \* what it may say of a directory that is not on the path

ASSUME SessionAssumption ==
  /\ Untold \in Limits
  /\ Elsewhere \subseteq Limits /\ Elsewhere # {}

VARIABLES
  dir,        \* the limits of the directory elsewhere
  rootdir,    \* the root directory of the session's process, or -1
  sess,       \* the static variables platform_sess_*
  listening,  \* the listener for "core.chroot" is registered
  stage,      \* "forked", "session", or "chroot": an attempt is under way
  target,     \* the last directory announced, or -2
  told        \* history: what pathconf(3) said of it then

platform == <<dir, rootdir, sess, listening, stage, target, told>>
sessionVars == <<vars, platform>>

Found(f, n) == Lstat(f, n) = "ok" /\ Follow(f[n]) = "ok"

Pathconf ==
  [r \in -1 .. MaxN |-> [n \in 0 .. MaxN |->
     IF n = 0 THEN dir ELSE IF Found(fs, n) THEN FsLimits ELSE Untold]]

Platform ==
  INSTANCE PlatformLimits WITH
    Names <- 0 .. MaxN, Outside <- -1, NoName <- -2,
    Told <- Elsewhere \cup {FsLimits, Untold},
    pathconf <- Pathconf, root <- rootdir, pc <- stage

SessionInit ==
  /\ Init
  /\ dir \in Elsewhere /\ rootdir = -1
  /\ sess = Platform!Unset /\ listening = FALSE
  /\ stage = "forked"
  /\ target = -2 /\ told = Platform!Unset
-----------------------------------------------------------------------------
\* explain_sess_init calls it when the engine is on.
InitLimits ==
  /\ pc = "idle" /\ UNCHANGED <<vars, dir>>
  /\ Platform!explain_platform_init

Announce(path) ==
  /\ pc = "idle" /\ UNCHANGED <<vars, dir>>
  /\ Platform!AnnounceChroot(path)

\* A privileged process is refused for every reason but EPERM.  What the paths
\* name once inside is left to SessionChange.
ChrootSucceeds ==
  /\ target \in Index => SyscallErrno(fs, "chroot", target) = "EPERM"
  /\ pc = "idle" /\ UNCHANGED <<vars, dir>>
  /\ Platform!ChrootSucceeds

\* The attempt fails, and the server asks for the reason.
ChrootFails(err) ==
  /\ IF target = 0 THEN pc = "idle" /\ UNCHANGED vars ELSE Fail("chroot", target, err)
  /\ UNCHANGED dir
  /\ Platform!ChrootFails

\* Any other call fails; none is made between an announcement and the attempt.
CallFails(sc, n, err) ==
  /\ sc # "chroot" /\ stage # "chroot"
  /\ Fail(sc, n, err)
  /\ UNCHANGED platform

SessionChange ==
  /\ Change \/ UNCHANGED vars
  /\ dir' \in Elsewhere
  /\ UNCHANGED <<rootdir, sess, listening, stage, target, told>>

\* The three getters, as explain_path_error calls them.
Getters(path) == [f \in Platform!Fields |-> Platform!Limit(f, path)]

SessionExplain ==
  /\ \/ \E root \in BOOLEAN :
          \/ ExplainOther(root)
          \/ ExplainNonRoot(root)
          \/ EnterPath(root, Getters(req.n))
     \/ Walk
  /\ UNCHANGED platform

\* The process that has ended is not the one that resumes.
SessionResume ==
  /\ pc = "answered" /\ Resume
  /\ UNCHANGED platform

SessionNext ==
  \/ InitLimits
  \/ \E path \in 0 .. MaxN : Announce(path)
  \/ ChrootSucceeds
  \/ \E sc \in Calls, n \in Index :
       \E err \in OtherErrnos \cup {SyscallErrno(fs, sc, n)} :
         \/ sc = "chroot" /\ target \in {0, n} /\ ChrootFails(err)
         \/ CallFails(sc, n, err)
  \/ SessionChange
  \/ SessionExplain
  \/ HandleSignal /\ UNCHANGED platform
  \/ SessionResume

SessionSafety == SessionInit /\ [][SessionNext]_sessionVars

SessionSpec == SessionSafety /\ WF_sessionVars(SessionExplain)
-----------------------------------------------------------------------------
(***************************************************************************)
(* Properties.                                                             *)
(***************************************************************************)

\* However many attempts to confine the session have failed, a length that is
\* complained of is over a limit that pathconf(3) really knows: that of the
\* path's own file system, or of the last directory announced (platform.c:39,
\* 64, path.c:131,154).
LengthOverKnownLimit ==
  /\ answer.tag = "name_too_long" =>
       \E l \in {FsLimits, told} : l.name_max > 0 /\ NameLen[answer.at] > l.name_max
  /\ answer.tag = "path_too_long" =>
       \E l \in {FsLimits, told} : l.path_max > 0 /\ RawLen[answer.at] > l.path_max

\* Why the limits are stored at all (platform.c:127): if the session has been
\* confined to a directory of the same file system, a length that is refused
\* is explained as such, though pathconf(3) of the path itself may say nothing.
JailExplainsLength ==
  /\ Undisturbed /\ req.err = "ENAMETOOLONG" /\ ~AtLimit(req.n)
  /\ rootdir = target /\ told = FsLimits
  => answer.tag \in Reasons.ENAMETOOLONG

\* A session explains as ExplainPath says, whatever the getters answer: they
\* give LimitAnswers, they leave the walk alone and they never hold it up.
WalksAsSpecified == Spec
=============================================================================
