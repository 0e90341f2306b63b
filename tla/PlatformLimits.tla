--------------------------- MODULE PlatformLimits ---------------------------
(***************************************************************************)
(* The limits a session remembers across chroot(2) (platform.c, built with *)
(* HAVE_PATHCONF).  Before the server tries to confine the session to a    *)
(* directory it announces the directory, and the limits found there are    *)
(* kept; the attempt may fail, and the session may then go on and make     *)
(* another.  Meanwhile names appear, vanish and are mounted over.          *)
(***************************************************************************)
EXTENDS Integers

CONSTANTS
  Names,    \* names of files and directories
  Outside,  \* the root directory of a process that is not confined
  NoName,   \* no name
  Told      \* what pathconf(3) may say of a name: a record of the three limits

Fields == {"name_max", "no_trunc", "path_max"}
Roots == Names \cup {Outside}

ASSUME PlatformAssumption ==
  /\ Names # {} /\ Outside \notin Names /\ NoName \notin Roots
  /\ Told \subseteq [Fields -> Int] /\ Told # {}

VARIABLES
  pathconf,   \* pathconf[r][p]: the limits of p when r is the root directory
  root,       \* the root directory of the session's process
  sess,       \* the static variables platform_sess_*
  listening,  \* explain_platform_chroot_ev is registered for "core.chroot"
  pc,         \* "forked" until explain_platform_init has run
  target,     \* the last directory announced since then
  told        \* history: what pathconf(3) said of target when it was announced

vars == <<pathconf, root, sess, listening, pc, target, told>>

Unset == [f \in Fields |-> -1]

TypeOK ==
  /\ pathconf \in [Roots -> [Names -> Told]]
  /\ root \in Roots
  /\ sess \in Told \cup {Unset}
  /\ listening \in BOOLEAN
  /\ pc \in {"forked", "session", "chroot"}
  /\ target \in Names \cup {NoName}
  /\ told \in Told \cup {Unset}

Init ==
  /\ pathconf \in [Roots -> [Names -> Told]]
  /\ root = Outside
  /\ sess = Unset
  /\ listening = FALSE
  /\ pc = "forked"
  /\ target = NoName /\ told = Unset
-----------------------------------------------------------------------------
explain_platform_init ==
  /\ pc = "forked" /\ pc' = "session"
  /\ sess' = Unset
  /\ listening' = TRUE
  /\ UNCHANGED <<pathconf, root, target, told>>

explain_platform_free ==
  /\ pc = "session" /\ pc' = "forked"
  /\ sess' = Unset
  /\ listening' = FALSE
  /\ target' = NoName /\ told' = Unset
  /\ UNCHANGED <<pathconf, root>>

\* Mutant of explain_platform_chroot_ev: limits already known are kept.
explain_platform_chroot_ev_Once(path) ==
  sess' = [f \in Fields |-> IF sess[f] > 0 THEN sess[f] ELSE pathconf[root][path][f]]

\* Mutant of explain_platform_chroot_ev: the directory is looked up as the
\* confined process would name it.
explain_platform_chroot_ev_Inside(path) == sess' = pathconf[path][path]

\* Mutant of explain_platform_chroot_ev: one limit is stored for another.
explain_platform_chroot_ev_Mixed(path) ==
  sess' = [pathconf[root][path] EXCEPT !.no_trunc = pathconf[root][path].name_max]

explain_platform_chroot_ev(path) == sess' = pathconf[root][path]

\* The server announces the directory path, then tries to confine itself.
AnnounceChroot(path) ==
  /\ pc = "session" /\ root = Outside
  /\ pc' = "chroot"
  /\ target' = path /\ told' = pathconf[root][path]
  /\ IF listening THEN explain_platform_chroot_ev(path) ELSE UNCHANGED sess
  /\ UNCHANGED <<pathconf, root, listening>>

ChrootSucceeds ==
  /\ pc = "chroot" /\ pc' = "session"
  /\ root' = target
  /\ UNCHANGED <<pathconf, sess, listening, target, told>>

ChrootFails ==
  /\ pc = "chroot" /\ pc' = "session"
  /\ UNCHANGED <<pathconf, root, sess, listening, target, told>>

\* Other processes; also, a path may come to lie on another file system.
Others ==
  /\ pathconf' \in [Roots -> [Names -> Told]]
  /\ UNCHANGED <<root, sess, listening, pc, target, told>>

Next ==
  \/ explain_platform_init
  \/ explain_platform_free
  \/ \E path \in Names : AnnounceChroot(path)
  \/ ChrootSucceeds
  \/ ChrootFails
  \/ Others

Spec == Init /\ [][Next]_vars
-----------------------------------------------------------------------------
\* Mutant of Limit: any limit that has been stored is used.
Limit_Stored(f, path) == IF sess[f] # 0 THEN sess[f] ELSE pathconf[root][path][f]

\* Mutant of Limit: what has been stored is never used.
Limit_PathOnly(f, path) == pathconf[root][path][f]

\* explain_platform_name_max, _no_trunc and _path_max, for a path that is given.
Limit(f, path) == IF sess[f] > 0 THEN sess[f] ELSE pathconf[root][path][f]
-----------------------------------------------------------------------------
(***************************************************************************)
(* Properties.  "confined" is a session that chroot(2) has succeeded for.  *)
(***************************************************************************)
Confined == pc = "session" /\ target # NoName /\ root = target

\* platform.c:127 registers a listener to look up the limits "BEFORE the
\* chroot(2) happens": whatever pathconf(3) says of a path inside the
\* confinement, and whatever becomes of the directory since, a limit that was
\* known when the directory was announced is the one a confined session uses.
LookedUpBefore ==
  Confined => \A f \in Fields, path \in Names :
    told[f] > 0 => Limit(f, path) = told[f]

\* Before any directory has been announced, a session works with the limits
\* of the path itself, although the variables are there (platform.c:64-68).
OwnLimits ==
  pc = "session" /\ target = NoName =>
    \A f \in Fields, path \in Names : Limit(f, path) = pathconf[root][path][f]

\* However many attempts have failed, no limit comes from a directory other
\* than the last one announced: each announcement replaces all three limits,
\* by "unknown" if need be (platform.c:39-41).
LastAttemptOnly ==
  pc = "session" /\ target # NoName =>
    \A f \in Fields, path \in Names :
      Limit(f, path) \in {pathconf[root][path][f], told[f]}
=============================================================================
