---------------------------- MODULE ExplainPath ----------------------------
(***************************************************************************)
(* A session process explains a failed system call (path.c, with the       *)
(* errno switches of chroot.c, lstat.c, stat.c and unlink.c) while other   *)
(* processes go on changing the file system.  Each lstat(2) of the walk is *)
(* a step of its own, so a change may come between any two of them, and    *)
(* between the failure and the first of them.                              *)
(***************************************************************************)
EXTENDS ExplainErrno, PathFS

CONSTANTS
  Calls,        \* the system calls that fail
  OtherErrnos,  \* errnos a call can fail with whatever its path
  LimitAnswers, \* what the explain_platform_* functions may answer
  WordSize,     \* 2^w for the w bits of an unsigned long
  MaxChanges    \* bound: how often the path changes during one explanation

ASSUME ExplainPathAssumption ==
  /\ Calls # {} /\ Calls \subseteq Explained \cup Stubbed
  /\ {"x", "w"} \in Perms
  /\ OtherErrnos \cap PathErrnos("chroot") = {}
  /\ LimitAnswers # {} /\ LimitAnswers \subseteq Limits
  /\ WordSize \in Nat \ {0} /\ MaxChanges \in Nat

VARIABLES
  fs,         \* the file system along the path
  pc,         \* where the session is
  req,        \* the failed call: its name, errno and number of components
  i,          \* components[i] is the one being looked at
  prev,       \* prev_path as a prefix length; 0 is NULL
  lim,        \* the limits the walk works with
  answer,     \* the explanation
  changes,    \* how often the path has changed since the call failed
  witnessed   \* history: facts that have held since the call failed

vars == <<fs, pc, req, i, prev, lim, answer, changes, witnessed>>
walk == <<i, prev, lim>>

\* Mutant of Unsigned: the limits are kept in signed variables.
Unsigned_Signed(x) == x

\* A long stored in an unsigned long: -1 becomes the largest value.
Unsigned(x) == x % WordSize

\* A text, the prefix it names, and the permissions of the parent it shows.
Answer(tag, at) == [tag |-> tag, at |-> at, shown |-> FALSE, perm |-> {}]
NoAnswer == Answer("none", 0)

PathTags == {"path_too_long", "name_too_long", "dir_missing",
             "dir_unsearchable", "not_a_directory", "file_missing",
             "file_unsearchable", "dir_unwritable", "nonroot"}

Answers == [tag : PathTags \cup OtherTags, at : 0 .. MaxN,
            shown : BOOLEAN, perm : Perms]

Facts == [kind : {"absent", "denied", "nondir", "mode"}, at : Index, perm : Perms]
Fact(kind, k, p) == [kind |-> kind, at |-> k, perm |-> p]

\* The permissions lstat(2) shows: those of a symbolic link are 0777.
Mode(nd) == IF nd.link THEN {"x", "w"} ELSE nd.perm

\* What is true of the path of n components in the file system f.
Truths(f, n) ==
  LET lstat == [k \in 1 .. n |-> Lstat(f, k)]
      at(res) == {k \in 1 .. n : lstat[k] = res}
  IN {Fact("absent", k, {}) : k \in at("ENOENT")} \cup
     {Fact("denied", k, {}) : k \in at("EACCES")} \cup
     {Fact("nondir", k, {}) : k \in {m \in at("ok") :
         ~f[m].link /\ f[m].type # "dir"}} \cup
     {Fact("mode", k, Mode(f[k])) : k \in at("ok") \ {n}}

\* The call has failed and its explanation is not there yet.
Explaining == pc \in {"failed", "walk", "parent"}

NoCall == [sc |-> CHOOSE c \in Calls : TRUE, err |-> "0", n |-> 1]

TypeOK ==
  /\ fs \in FileSystems
  /\ pc \in {"idle", "failed", "walk", "parent", "answered", "faulted", "ended"}
  /\ req \in [sc : Calls, err : FsErrnos \cup OtherErrnos \cup {"0"}, n : Index]
  /\ i \in Index /\ prev \in 0 .. MaxN
  /\ lim \in Limits
  /\ answer \in Answers
  /\ changes \in 0 .. MaxChanges
  /\ witnessed \subseteq Facts

Init ==
  /\ fs \in FileSystems
  /\ pc = "idle"
  /\ req = NoCall
  /\ i = 1 /\ prev = 0 /\ lim = FsLimits
  /\ answer = NoAnswer
  /\ changes = 0 /\ witnessed = {}
-----------------------------------------------------------------------------
\* The session's call sc on the path of n components fails with err.
Fail(sc, n, err) ==
  /\ pc = "idle"
  /\ err \in OtherErrnos \cup ({SyscallErrno(fs, sc, n)} \ {"ok"})
  /\ pc' = "failed"
  /\ req' = [sc |-> sc, err |-> err, n |-> n]
  /\ witnessed' = Truths(fs, n) \cup
                  (IF err = "EACCES" THEN {Fact("denied", n, {})} ELSE {})
  /\ UNCHANGED <<fs, walk, answer, changes>>

\* Everything other processes do to the path between two calls of the session.
Change ==
  /\ pc = "idle" \/ (Explaining /\ changes < MaxChanges)
  /\ fs' \in FileSystems \ {fs}
  /\ IF Explaining
     THEN /\ changes' = changes + 1
          /\ witnessed' = witnessed \cup Truths(fs', req.n)
     ELSE UNCHANGED <<changes, witnessed>>
  /\ UNCHANGED <<pc, req, walk, answer>>

\* The explanation is logged and forgotten, or another session takes over
\* from the one that has ended.
Resume ==
  /\ pc \in {"answered", "faulted", "ended"}
  /\ pc' = "idle"
  /\ req' = NoCall
  /\ i' = 1 /\ prev' = 0 /\ lim' = FsLimits
  /\ answer' = NoAnswer
  /\ changes' = 0 /\ witnessed' = {}
  /\ UNCHANGED fs
-----------------------------------------------------------------------------
Return(a) ==
  /\ pc' = "answered"
  /\ answer' = a
  /\ UNCHANGED <<fs, req, changes, witnessed>>

\* A failure that is explained without looking at the path.
ExplainOther(root) ==
  /\ pc = "failed"
  /\ ~GoesToPath(req.sc, req.err, root)
  /\ ~NonRootEperm(req.sc, req.err, root)
  /\ Return(Answer(DescribeOther(req.sc, req.err), 0))
  /\ UNCHANGED walk

(***************************************************************************)
(* describe_nonroot_eperm calls the variadic pstrcat without the NULL that *)
(* ends its arguments, so pstrcat goes on to whatever the argument area    *)
(* holds: a zero, text that is appended, or an address that faults.        *)
(***************************************************************************)
ExplainNonRoot(root) ==
  /\ pc = "failed"
  /\ NonRootEperm(req.sc, req.err, root)
  /\ \/ Return(Answer("nonroot", 0))
     \/ /\ pc' = "faulted"
        /\ UNCHANGED <<fs, req, answer, changes, witnessed>>
  /\ UNCHANGED walk

PathTooLong(n, l) ==
  LET path_max == Unsigned(l.path_max)
  IN path_max > 0 /\ RawLen[n] > path_max

\* explain_path_error up to the loop.
EnterPath(root, l) ==
  /\ pc = "failed"
  /\ GoesToPath(req.sc, req.err, root)
  /\ lim' = l
  /\ IF req.err = "ENAMETOOLONG" /\ PathTooLong(req.n, l)
     THEN Return(Answer("path_too_long", req.n))
     ELSE /\ pc' = "walk"
          /\ UNCHANGED <<fs, req, answer, changes, witnessed>>
  /\ UNCHANGED <<i, prev>>
-----------------------------------------------------------------------------
\* pr_signals_handle at the top of the loop: a signal that has arrived may end
\* the process in the middle of the walk.
HandleSignal ==
  /\ pc = "walk" /\ pc' = "ended"
  /\ UNCHANGED <<fs, req, walk, answer, changes, witnessed>>

DescribeEaccesFile(sc, n) ==
  Answer(IF WantSearch(sc) THEN "file_unsearchable" ELSE "dir_unwritable", n)

\* Mutant of NameTooLong: the errno of the call is not looked at.
NameTooLong_AnyErrno(k) ==
  NameLen[k] > Unsigned(lim.name_max) /\ Unsigned(lim.no_trunc) = 1

\* Mutant of NameTooLong: the leaf is not looked at.
NameTooLong_Leading(k) ==
  /\ req.err = "ENAMETOOLONG" /\ k < req.n
  /\ NameLen[k] > Unsigned(lim.name_max)
  /\ Unsigned(lim.no_trunc) = 1

NameTooLong(k) ==
  /\ req.err = "ENAMETOOLONG"
  /\ NameLen[k] > Unsigned(lim.name_max)
  /\ Unsigned(lim.no_trunc) = 1

\* One turn of the loop that ends before lstat(2) is called.
LongName ==
  /\ pc = "walk" /\ NameTooLong(i)
  /\ Return(Answer("name_too_long", i))
  /\ UNCHANGED walk

\* A turn that calls lstat(2) on the first i components, with result res.
Look(res) == pc = "walk" /\ ~NameTooLong(i) /\ Lstat(fs, i) = res

\* Mutant of DescribeLstat: the default case takes the path for missing.
DescribeLstat_AllMissing(res) ==
  IF res # "EACCES"
  THEN Answer(IF i < req.n THEN "dir_missing" ELSE "file_missing", i)
  ELSE IF i < req.n THEN Answer("dir_unsearchable", i)
  ELSE DescribeEaccesFile(req.sc, i)

\* Mutant of DescribeLstat: the path named is one component too long.
DescribeLstat_NextNamed(res) ==
  IF res = "ENOENT" /\ i < req.n THEN Answer("dir_missing", i + 1)
  ELSE IF res = "ENOENT" THEN Answer("file_missing", i)
  ELSE IF res = "EACCES" /\ i < req.n THEN Answer("dir_unsearchable", i + 1)
  ELSE IF res = "EACCES" THEN DescribeEaccesFile(req.sc, i)
  ELSE NoAnswer

\* The switch on the errno of lstat(2), for a leading component and the leaf.
DescribeLstat(res) ==
  IF res = "ENOENT"
  THEN Answer(IF i < req.n THEN "dir_missing" ELSE "file_missing", i)
  ELSE IF res # "EACCES" THEN NoAnswer
  ELSE IF i < req.n THEN Answer("dir_unsearchable", i)
  ELSE DescribeEaccesFile(req.sc, i)

LookFails ==
  /\ \E res \in {"ENOENT", "EACCES", "ENOTDIR", "ELOOP", "ENAMETOOLONG"} :
       Look(res) /\ Return(DescribeLstat(res))
  /\ UNCHANGED walk

NotDirectory ==
  /\ Look("ok") /\ i < req.n
  /\ ~fs[i].link /\ fs[i].type # "dir"
  /\ Return(Answer("not_a_directory", i))
  /\ UNCHANGED walk

\* Mutant of Descend: the index of the loop is not advanced.
Descend_Stays ==
  /\ Look("ok") /\ i < req.n
  /\ fs[i].link \/ fs[i].type = "dir"
  /\ prev' = i
  /\ UNCHANGED <<fs, pc, req, i, lim, answer, changes, witnessed>>

Descend ==
  /\ Look("ok") /\ i < req.n
  /\ fs[i].link \/ fs[i].type = "dir"
  /\ prev' = i
  /\ i' = i + 1
  /\ UNCHANGED <<fs, pc, req, lim, answer, changes, witnessed>>

\* Mutant of LeafDenied: the errno of the call is not looked at.
LeafDenied_AnyErrno ==
  /\ Look("ok") /\ i = req.n
  /\ pc' = "parent"
  /\ answer' = DescribeEaccesFile(req.sc, i)
  /\ UNCHANGED <<fs, req, walk, changes, witnessed>>

\* The leaf is there; only EACCES leads to an explanation.
LeafDenied ==
  /\ Look("ok") /\ i = req.n /\ req.err = "EACCES"
  /\ pc' = "parent"
  /\ answer' = DescribeEaccesFile(req.sc, i)
  /\ UNCHANGED <<fs, req, walk, changes, witnessed>>

LeafUnexplained ==
  /\ Look("ok") /\ i = req.n /\ req.err # "EACCES"
  /\ Return(NoAnswer)
  /\ UNCHANGED walk

\* Mutant of ShowParent: the explanation is lost when lstat(2) fails.
ShowParent_Loses ==
  /\ pc = "parent"
  /\ Return(IF prev # 0 /\ Lstat(fs, prev) = "ok"
            THEN [answer EXCEPT !.shown = TRUE, !.perm = Mode(fs[prev])]
            ELSE NoAnswer)
  /\ UNCHANGED walk

\* Mutant of ShowParent: the permissions shown are those of the leaf.
ShowParent_Leaf ==
  /\ pc = "parent"
  /\ Return(IF prev # 0 /\ Lstat(fs, i) = "ok"
            THEN [answer EXCEPT !.shown = TRUE, !.perm = Mode(fs[i])]
            ELSE answer)
  /\ UNCHANGED walk

\* The second lstat(2), on prev_path; it fails when prev_path is NULL.
ShowParent ==
  /\ pc = "parent"
  /\ Return(IF prev # 0 /\ Lstat(fs, prev) = "ok"
            THEN [answer EXCEPT !.shown = TRUE, !.perm = Mode(fs[prev])]
            ELSE answer)
  /\ UNCHANGED walk
-----------------------------------------------------------------------------
Walk ==
  \/ LongName
  \/ LookFails
  \/ NotDirectory
  \/ Descend
  \/ LeafDenied
  \/ LeafUnexplained
  \/ ShowParent

Explain ==
  \/ \E root \in BOOLEAN :
       \/ ExplainOther(root)
       \/ ExplainNonRoot(root)
       \/ \E l \in LimitAnswers : EnterPath(root, l)
  \/ Walk

Next ==
  \/ \E sc \in Calls, n \in Index :
       \E err \in OtherErrnos \cup {SyscallErrno(fs, sc, n)} : Fail(sc, n, err)
  \/ Change
  \/ Resume
  \/ HandleSignal
  \/ Explain

\* The walk is a loop of the session's only thread, and lstat(2) returns.
Fairness == WF_vars(Explain)

Safety == Init /\ [][Next]_vars

Spec == Safety /\ Fairness
-----------------------------------------------------------------------------
(***************************************************************************)
(* Properties.                                                             *)
(***************************************************************************)

\* What a text asserts of the path.  A "not searchable" or "not writable"
\* text stands for the operation on that prefix having been denied.
Claims == [absent |-> {"dir_missing", "file_missing"},
           denied |-> {"dir_unsearchable", "file_unsearchable", "dir_unwritable"},
           nondir |-> {"not_a_directory"}]

Asserts(a) ==
  {Fact(kind, a.at, {}) : kind \in {c \in DOMAIN Claims : a.tag \in Claims[c]}}
    \cup (IF a.shown THEN {Fact("mode", a.at - 1, a.perm)} ELSE {})

\* Whatever other processes do to the path during the walk of path.c:157-281,
\* every assertion of the explanation was true at some moment between the
\* failure of the call and the return of the explanation.
ClaimsWitnessed == Asserts(answer) \subseteq witnessed

\* The texts that explain an errno.
Reasons == [ENAMETOOLONG |-> {"path_too_long", "name_too_long"},
            ENOENT       |-> Claims.absent,
            EACCES       |-> Claims.denied,
            ENOTDIR      |-> Claims.nondir]

Undisturbed == pc = "answered" /\ changes = 0 /\ GoesToPath(req.sc, req.err, TRUE)
Answered == answer.tag # "none"

\* The one length that the kernel refuses and path.c:136 takes for allowed.
AtLimit(n) == RawLen[n] = FsLimits.path_max

\* path.c re-derives the reason from fresh lstat(2) calls.  If nobody changed
\* the path and the limits are those of its file system, the reason found is
\* one for the errno the call really failed with.  For a path as long as the
\* limit path.c:136 has no reason, and what the walk finds may be another.
ReasonMatchesErrno ==
  /\ Undisturbed /\ lim = FsLimits /\ ~AtLimit(req.n)
  /\ Answered /\ answer.tag # "nonroot"
  => req.err \in DOMAIN Reasons /\ answer.tag \in Reasons[req.err]

\* If nobody changed the path, the component that is named is the first one
\* at which it goes wrong: those before it are there and lead onwards
\* (path.c:199-233).
FirstFaultNamed ==
  Undisturbed /\ Answered /\ answer.tag \notin {"nonroot", "path_too_long"}
    => \A k \in 1 .. answer.at - 1 :
         Lstat(fs, k) = "ok" /\ (fs[k].link \/ fs[k].type = "dir")

\* How far the component that is named is from the one at which the kernel
\* stopped, if nobody changed the path: it is that one, but the one behind it if
\* the kernel stopped at a directory that may not be searched or at a link that
\* leads nowhere, which lstat(2) itself does not fail at (path.c:196-225).
FaultLocated ==
  Undisturbed /\ answer.tag \in UNION {Claims[c] : c \in DOMAIN Claims} =>
    LET faults == Faults(fs, req.n)
        j == First(faults)
    IN answer.at = IF faults = {} THEN req.n
                   ELSE IF fs[j].link \/ fs[j].type = "dir" THEN j + 1 ELSE j

\* Failures that explain_path_error takes and always has a reason for when
\* nobody changed the path: EACCES; ENOENT, unless it is the target of a
\* symbolic link that is missing; ENAMETOOLONG, if the limits are known.
ReasonFound ==
  /\ Undisturbed
  /\ \/ req.err = "EACCES"
     \/ req.err = "ENOENT" /\ ~fs[req.n].link
     \/ req.err = "ENAMETOOLONG" /\ lim = FsLimits /\ ~AtLimit(req.n)
  => Answered

\* The permissions shown beside "directory containing ... is not writable"
\* bear it out when nobody changed the path and the parent is no symbolic
\* link: path.c:265 reads them with a second lstat(2), after the walk.
ShownModeBearsOut ==
  Undisturbed /\ answer.tag = "dir_unwritable" /\ answer.shown
    => "w" \notin answer.perm \/ fs[req.n - 1].link

\* pathconf(3) tells the limits of the path's file system or none, and no
\* length is as large as an unsigned long gets.
LimitsHonest ==
  /\ FsLimits.name_max \in 0 .. WordSize - 1 /\ FsLimits.path_max \in 0 .. WordSize - 1
  /\ \A k \in Index : NameLen[k] < WordSize /\ RawLen[k] < WordSize
  /\ \A l \in LimitAnswers : /\ l.name_max \in {-1, FsLimits.name_max}
                             /\ l.path_max \in {-1, FsLimits.path_max}

\* Limits that pathconf(3) could not tell arrive as -1 in an unsigned long
\* (path.c:118,129).  They never make a name or a path look too long: the
\* length a text complains of really is over the file system's limit.
LengthClaimsHold ==
  /\ answer.tag = "name_too_long" => NameLen[answer.at] > FsLimits.name_max
  /\ answer.tag = "path_too_long" => RawLen[answer.at] > FsLimits.path_max

\* How many steps an explanation can still take.
StepsLeft ==
  IF pc = "failed" THEN req.n + 2
  ELSE IF pc = "walk" THEN req.n - i + 2
  ELSE IF pc = "parent" THEN 1 ELSE 0

\* Other processes cannot lead the walk in circles: every step takes it nearer
\* to its end, and whatever they do to the path between two steps gives it no
\* more to do (path.c:157-281), so it calls lstat(2) at most n + 1 times.
WalkShortens ==
  [][Explaining => IF fs' = fs THEN StepsLeft' < StepsLeft ELSE StepsLeft' = StepsLeft]_vars

\* A failed call is answered (or ends the process) however often the path
\* changes under the walk.
ExplanationReturns == Explaining ~> pc \in {"answered", "faulted", "ended"}

(***************************************************************************)
(* The explainer keeps the promise stated in PromptExplanation.            *)
(***************************************************************************)
Promise ==
  INSTANCE PromptExplanation WITH
    open <- Explaining,
    given <- IF pc = "answered" THEN Asserts(answer) ELSE {}

\* The walk of path.c implements the promise, step by step: one answer to one
\* failure, and nothing asserted that was never true while it was open.
KeepsPromise == Promise!Spec
=============================================================================
