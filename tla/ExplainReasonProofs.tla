------------------------ MODULE ExplainReasonProofs ------------------------
(***************************************************************************)
(* Proofs that the walk finds the reason of the errno, for paths of any    *)
(* length that nobody changes.  They rest on how the kernel resolves a     *)
(* path: what goes wrong at a prefix goes wrong for the whole path.        *)
(***************************************************************************)
EXTENDS ExplainPathProofs

(***************************************************************************)
(* The limits are known, and an unsigned long holds them.                  *)
(***************************************************************************)
LimitsKnown ==
  /\ WordSize > 1
  /\ FsLimits.name_max \in 0 .. WordSize - 1
  /\ FsLimits.path_max \in 1 .. WordSize - 1

(***************************************************************************)
(* Resolving a path.                                                       *)
(***************************************************************************)

\* The first fault, if there is one, is a component of the path.
LEMMA FirstFault ==
  ASSUME NEW f \in FileSystems, NEW k \in Index, Faults(f, k) # {}
  PROVE  /\ First(Faults(f, k)) \in Faults(f, k)
         /\ First(Faults(f, k)) \in 1 .. k
         /\ \A h \in Faults(f, k) : First(Faults(f, k)) <= h
<1>1. Faults(f, k) \in SUBSET Nat /\ Faults(f, k) \subseteq 1 .. k
  BY PathFSAssumption DEF Faults, Index
<1>2. QED
  BY <1>1, FirstIsLeast

\* A component that is a fault, with none before it, decides the answer.
LEMMA FaultDecides ==
  ASSUME NEW f \in FileSystems, NEW n \in Index, NEW j \in 1 .. n, ~Overlong(n),
         j \in Faults(f, n), \A h \in 1 .. j - 1 : h \notin Faults(f, n)
  PROVE  Lstat(f, n) = IF Long(j) THEN "ENAMETOOLONG" ELSE NotPassable(f[j])
<1>1. First(Faults(f, n)) = j
  <2>1. First(Faults(f, n)) \in 1 .. n /\ First(Faults(f, n)) <= j
    BY FirstFault
  <2>2. First(Faults(f, n)) \notin 1 .. j - 1
    BY FirstFault
  <2>3. QED
    BY <2>1, <2>2
<1>2. QED
  BY <1>1 DEF Lstat

\* What fails for a prefix fails for the path in the same way.
LEMMA LstatExtends ==
  ASSUME NEW f \in FileSystems, NEW n \in Index, NEW k \in 1 .. n, ~Overlong(n),
         Lstat(f, k) # "ok"
  PROVE  Lstat(f, n) = Lstat(f, k)
<1>1. k \in Index /\ ~Overlong(k)
  <2>1. k \in Index /\ k <= n
    BY PathFSAssumption DEF Index
  <2>2. RawLen[k] \in Nat /\ RawLen[n] \in Nat /\ RawLen[k] <= RawLen[n]
    BY <2>1, PathFSAssumption
  <2>3. FsLimits.path_max \in Int
    BY PathFSAssumption DEF Limits
  <2>4. QED
    BY <2>1, <2>2, <2>3 DEF Overlong
<1>2. k \in Nat /\ n \in Nat /\ k <= n
  BY PathFSAssumption DEF Index
<1>3. \A h \in 1 .. k - 1 : h \in Faults(f, n) <=> h \in Faults(f, k)
  BY <1>2 DEF Faults
<1>4. CASE Faults(f, k) # {}
  <2> DEFINE j == First(Faults(f, k))
  <2>1. j \in Faults(f, k) /\ j \in 1 .. k /\ \A h \in Faults(f, k) : j <= h
    BY <1>1, <1>4, FirstFault
  <2>2. j \in Faults(f, n) /\ j \in 1 .. n
    BY <1>2, <2>1 DEF Faults
  <2>3. \A h \in 1 .. j - 1 : h \notin Faults(f, n)
    BY <1>2, <1>3, <2>1
  <2>4. Lstat(f, n) = IF Long(j) THEN "ENAMETOOLONG" ELSE NotPassable(f[j])
    BY <2>2, <2>3, FaultDecides
  <2>5. Lstat(f, k) = IF Long(j) THEN "ENAMETOOLONG" ELSE NotPassable(f[j])
    BY <1>1, <1>4 DEF Lstat
  <2>6. QED
    BY <2>4, <2>5
<1>5. CASE Faults(f, k) = {} /\ k < n
  <2>1. Absent(f[k]) /\ Lstat(f, k) = "ENOENT"
    BY <1>1, <1>5 DEF Lstat
  <2>2. k \in Faults(f, n) /\ ~Long(k)
    BY <1>2, <1>5, <2>1 DEF Faults, Absent, Passable
  <2>3. \A h \in 1 .. k - 1 : h \notin Faults(f, n)
    BY <1>3, <1>5
  <2>4. Lstat(f, n) = NotPassable(f[k])
    BY <2>2, <2>3, FaultDecides
  <2>5. QED
    BY <2>1, <2>4 DEF NotPassable, Absent
<1>6. QED
  BY <1>2, <1>4, <1>5

\* Where lstat(2) succeeds nothing goes wrong.
LEMMA OkMeansNoFault ==
  ASSUME NEW f \in FileSystems, NEW k \in Index, Lstat(f, k) = "ok"
  PROVE  ~Overlong(k) /\ Faults(f, k) = {} /\ ~Absent(f[k])
<1>1. Faults(f, k) = {}
  <2>1. SUFFICES ASSUME Faults(f, k) # {} PROVE Lstat(f, k) # "ok"
    OBVIOUS
  <2> DEFINE j == First(Faults(f, k))
  <2>2. j \in Index
    BY <2>1, FirstFault, PathFSAssumption DEF Index
  <2>3. NotPassable(f[j]) # "ok"
    BY <2>2, NodeTypes DEF NotPassable
  <2>4. QED
    BY <2>1, <2>3 DEF Lstat
<1>2. QED
  BY <1>1 DEF Lstat

\* A leading component that is neither a link nor a directory ends the path.
LEMMA NondirDecides ==
  ASSUME NEW f \in FileSystems, NEW n \in Index, NEW k \in 1 .. n, k # n, ~Overlong(n),
         Lstat(f, k) = "ok", ~f[k].link, f[k].type # "dir"
  PROVE  Lstat(f, n) = "ENOTDIR"
<1>1. k \in Index /\ k \in Nat /\ n \in Nat /\ k < n
  BY PathFSAssumption DEF Index
<1>2. Faults(f, k) = {} /\ ~Absent(f[k])
  BY <1>1, OkMeansNoFault
<1>3. f[k].type = "file"
  <2>1. f[k] \in Node
    BY <1>1 DEF FileSystems
  <2>2. QED
    BY <1>2, <2>1 DEF Node, Absent
<1>4. k \in Faults(f, n) /\ ~Long(k)
  BY <1>1, <1>2, <1>3 DEF Faults, Passable
<1>5. \A h \in 1 .. k - 1 : h \notin Faults(f, n)
  BY <1>1, <1>2 DEF Faults
<1>6. Lstat(f, n) = NotPassable(f[k])
  BY <1>4, <1>5, FaultDecides
<1>7. QED
  BY <1>3, <1>6 DEF NotPassable

\* What a call answers once lstat(2) succeeds.
LEMMA AfterLookup ==
  ASSUME NEW f \in FileSystems, NEW sc, NEW n \in Index, Lstat(f, n) = "ok"
  PROVE  /\ SyscallErrno(f, sc, n) # "ENAMETOOLONG"
         /\ SyscallErrno(f, sc, n) = "ENOENT" => f[n].link
<1>1. f[n].type \in {"none", "file", "dir", "loop"}
  BY NodeTypes
<1>2. Follow(f[n]) \in {"ok", "ENOENT", "ELOOP"}
      /\ (Follow(f[n]) = "ENOENT" => f[n].type = "none")
  BY <1>1 DEF Follow
<1>3. ~Absent(f[n])
  BY OkMeansNoFault
<1>4. Chroot(f[n]) # "ENAMETOOLONG"
      /\ (Chroot(f[n]) = "ENOENT" => Follow(f[n]) = "ENOENT")
  BY <1>2 DEF Chroot
<1>5. Unlink(f, n) \notin {"ENAMETOOLONG", "ENOENT"}
  BY DEF Unlink
<1>6. QED
  BY <1>2, <1>3, <1>4, <1>5 DEF SyscallErrno, Absent

(***************************************************************************)
(* The invariant.  As long as nobody changes the path, the errno that is   *)
(* being explained is the one the path gives (Cause); past the comparison  *)
(* of the whole path its length is no reason any more (Room); and the      *)
(* parent is shown only for a leaf that is there but was denied (Denied).  *)
(***************************************************************************)
Goes == GoesToPath(req.sc, req.err, TRUE)

Cause ==
  pc \in {"failed", "walk", "parent", "answered"} /\ changes = 0 /\ Goes =>
    req.err = SyscallErrno(fs, req.sc, req.n)

Room ==
  /\ pc \in {"walk", "parent"} /\ changes = 0
  /\ req.err = "ENAMETOOLONG" => lim = FsLimits /\ ~AtLimit(req.n)
  => ~Overlong(req.n)

Denied ==
  pc = "parent" =>
    req.err = "EACCES" /\ (changes = 0 => Lstat(fs, req.n) = "ok")

Reasoned == ReasonMatchesErrno /\ ReasonFound

ReasonInv ==
  /\ PrefixInv
  /\ pc \in {"walk", "parent"} => Goes
  /\ Cause /\ Room /\ Denied
  /\ Reasoned

\* The errnos that go to the path are not given for other reasons.
LEMMA PathErrnosDiffer ==
  ASSUME NEW sc, NEW err, GoesToPath(sc, err, TRUE)
  PROVE  err \notin OtherErrnos /\ sc \in Explained
  BY ExplainPathAssumption DEF GoesToPath, PathErrnos

\* A path that is refused for its length alone is over the limit of path.c:136,
\* or as long as the limit.
LEMMA OverlongIsTooLong ==
  ASSUME LimitsKnown, NEW n \in Index, Overlong(n), ~AtLimit(n)
  PROVE  PathTooLong(n, FsLimits)
<1>1. FsLimits.path_max \in 1 .. WordSize - 1 /\ WordSize \in Nat /\ RawLen[n] \in Nat
  BY PathFSAssumption, ExplainPathAssumption DEF LimitsKnown
<1>2. FsLimits.path_max % WordSize = FsLimits.path_max
  BY <1>1
<1>3. RawLen[n] > FsLimits.path_max
  BY <1>1 DEF Overlong, AtLimit
<1>4. QED
  BY <1>1, <1>2, <1>3 DEF PathTooLong, Unsigned

\* A name the kernel refuses is one that path.c:175 takes for too long.
LEMMA LongIsTooLong ==
  ASSUME LimitsKnown, NEW k \in Index, Long(k), lim = FsLimits,
         req.err = "ENAMETOOLONG"
  PROVE  NameTooLong(k)
<1>1. /\ FsLimits.name_max \in 0 .. WordSize - 1 /\ WordSize \in Nat /\ WordSize > 1
      /\ NameLen[k] \in Nat
  BY PathFSAssumption, ExplainPathAssumption DEF LimitsKnown
<1>2. FsLimits.name_max % WordSize = FsLimits.name_max /\ 1 % WordSize = 1
  BY <1>1
<1>3. QED
  BY <1>1, <1>2 DEF NameTooLong, Long, Unsigned

\* If the walk has come to component i, only a name that the walk would have
\* complained of makes lstat(2) answer with ENAMETOOLONG there.
LEMMA NameNotOverlooked ==
  ASSUME LimitsKnown, ReasonInv, pc = "walk", changes = 0, ~Overlong(req.n),
         req.err = "ENAMETOOLONG", lim = FsLimits, ~NameTooLong(i)
  PROVE  Lstat(fs, i) # "ENAMETOOLONG"
<1>1. SUFFICES ASSUME Lstat(fs, i) = "ENAMETOOLONG" PROVE FALSE
  OBVIOUS
<1>2. fs \in FileSystems /\ i \in Index /\ req.n \in Index /\ i <= req.n /\ LeadsTo(i)
  BY DEF ReasonInv, PrefixInv, WalkInv, TypeOK
<1>3. ~Overlong(i)
  BY <1>2, PathFSAssumption DEF Overlong, Index, Limits
<1>4. Faults(fs, i) # {}
  BY <1>1, <1>3 DEF Lstat
<1> DEFINE j == First(Faults(fs, i))
<1>5. j \in Faults(fs, i) /\ j \in 1 .. i /\ j \in Index
  BY <1>2, <1>4, FirstFault, PathFSAssumption DEF Index
<1>6. Long(j)
  <2>1. NotPassable(fs[j]) # "ENAMETOOLONG"
    BY <1>2, <1>5, NodeTypes DEF NotPassable
  <2>2. QED
    BY <1>1, <1>3, <1>4, <2>1 DEF Lstat
<1>7. j # i
  BY <1>2, <1>6, LongIsTooLong
<1>8. Lstat(fs, j) = "ok"
  BY <1>2, <1>5, <1>7, PathFSAssumption DEF LeadsTo, Index
<1>9. j \in Faults(fs, j)
  BY <1>5, <1>6 DEF Faults
<1>10. QED
  BY <1>2, <1>5, <1>8, <1>9, OkMeansNoFault

(***************************************************************************)
(* Each step keeps the invariant.                                          *)
(***************************************************************************)

\* The texts each errno is explained by.
LEMMA ReasonsOf ==
  /\ \A tag \in Claims.absent : "ENOENT" \in DOMAIN Reasons /\ tag \in Reasons["ENOENT"]
  /\ \A tag \in Claims.denied : "EACCES" \in DOMAIN Reasons /\ tag \in Reasons["EACCES"]
  /\ \A tag \in Claims.nondir : "ENOTDIR" \in DOMAIN Reasons /\ tag \in Reasons["ENOTDIR"]
  /\ \A tag \in {"path_too_long", "name_too_long"} :
       "ENAMETOOLONG" \in DOMAIN Reasons /\ tag \in Reasons["ENAMETOOLONG"]
  BY DEF Reasons, Claims

\* A text that gives the reason may be returned.
LEMMA ReturnKeepsReason ==
  ASSUME ReasonInv, PrefixInv', Explaining, NEW a, Return(a), lim' = lim,
         changes = 0 /\ Goes /\ lim = FsLimits /\ ~AtLimit(req.n)
           /\ a.tag \notin {"none", "nonroot"}
           => req.err \in DOMAIN Reasons /\ a.tag \in Reasons[req.err],
         changes = 0 /\ Goes
           /\ (\/ req.err = "EACCES"
               \/ req.err = "ENOENT" /\ ~fs[req.n].link
               \/ req.err = "ENAMETOOLONG" /\ lim = FsLimits /\ ~AtLimit(req.n))
           => a.tag # "none"
  PROVE  ReasonInv'
<1>1. /\ pc' = "answered" /\ answer' = a
      /\ fs' = fs /\ req' = req /\ changes' = changes
  BY DEF Return
<1>2. ReasonMatchesErrno'
  BY <1>1 DEF ReasonMatchesErrno, Undisturbed, Answered, Goes, AtLimit
<1>3. ReasonFound'
  BY <1>1 DEF ReasonFound, Undisturbed, Answered, Goes, AtLimit
<1>4. Cause'
  BY <1>1 DEF ReasonInv, Cause, Goes, Explaining
<1>5. QED
  BY <1>1, <1>2, <1>3, <1>4 DEF ReasonInv, Room, Denied, Reasoned

\* The comparison of the whole path leaves no path that is refused for it.
LEMMA RoomAfterComparison ==
  ASSUME LimitsKnown, ReasonInv, pc = "failed", changes = 0, Goes,
         ~(req.err = "ENAMETOOLONG" /\ PathTooLong(req.n, FsLimits)),
         req.err = "ENAMETOOLONG" => ~AtLimit(req.n)
  PROVE  ~Overlong(req.n)
<1>1. req.n \in Index /\ req.err = SyscallErrno(fs, req.sc, req.n)
  BY DEF ReasonInv, PrefixInv, WalkInv, TypeOK, Cause
<1>2. CASE req.err = "ENAMETOOLONG"
  BY <1>1, <1>2, OverlongIsTooLong
<1>3. CASE req.err # "ENAMETOOLONG"
  BY <1>1, <1>3 DEF SyscallErrno, Lstat
<1>4. QED
  BY <1>2, <1>3

\* A failed lstat(2) of the walk fails as the call did.
LEMMA LookFailsAsCalled ==
  ASSUME ReasonInv, pc = "walk", changes = 0,
         req.err = "ENAMETOOLONG" => lim = FsLimits /\ ~AtLimit(req.n),
         Lstat(fs, i) # "ok"
  PROVE  req.err = Lstat(fs, i) /\ ~Overlong(req.n)
<1>1. /\ fs \in FileSystems /\ req.n \in Index /\ i \in 1 .. req.n
      /\ req.err = SyscallErrno(fs, req.sc, req.n)
      /\ ~Overlong(req.n)
  BY PathFSAssumption DEF ReasonInv, PrefixInv, WalkInv, TypeOK, Cause, Room, Index
<1>2. Lstat(fs, req.n) = Lstat(fs, i)
  BY <1>1, LstatExtends
<1>3. QED
  BY <1>1, <1>2 DEF SyscallErrno

LEMMA ReasonInvStep ==
  ASSUME LimitsKnown, ReasonInv, [Next]_vars
  PROVE  ReasonInv'
<1>1. PrefixInv'
  BY PrefixInvStep DEF ReasonInv
<1>2. TypeOK /\ fs \in FileSystems /\ req.n \in Index
  BY DEF ReasonInv, PrefixInv, WalkInv, TypeOK
<1>3. CASE UNCHANGED vars
  BY <1>1, <1>3
  DEF ReasonInv, vars, Goes, Cause, Room, Denied, Reasoned, ReasonMatchesErrno,
      ReasonFound, Undisturbed, Answered, AtLimit
<1>4. ASSUME pc' \in {"idle", "faulted", "ended"}
      PROVE  ReasonInv'
  BY <1>1, <1>4
  DEF ReasonInv, Cause, Room, Denied, Reasoned, ReasonMatchesErrno,
      ReasonFound, Undisturbed
<1>5. ASSUME NEW sc \in Calls, NEW n \in Index,
             NEW err \in OtherErrnos \cup {SyscallErrno(fs, sc, n)},
             Fail(sc, n, err)
      PROVE  ReasonInv'
  <2>1. pc' = "failed" /\ fs' = fs /\ req' = [sc |-> sc, err |-> err, n |-> n]
    BY <1>5 DEF Fail
  <2>2. Cause'
    BY <2>1, PathErrnosDiffer DEF Cause, Goes
  <2>3. QED
    BY <1>1, <2>1, <2>2
    DEF ReasonInv, Room, Denied, Reasoned, ReasonMatchesErrno, ReasonFound,
        Undisturbed
<1>6. CASE Change
  <2>1. changes' # 0 \/ pc' = "idle"
    BY <1>2, <1>6, ExplainPathAssumption DEF Change, TypeOK
  <2>2. pc' = pc /\ req' = req
    BY <1>6 DEF Change
  <2>3. pc' # "answered"
    BY <1>6, <2>2 DEF Change, Explaining
  <2>4. QED
    BY <1>1, <2>1, <2>2, <2>3
    DEF ReasonInv, Goes, Cause, Room, Denied, Reasoned, ReasonMatchesErrno,
        ReasonFound, Undisturbed
<1>7. CASE Resume \/ HandleSignal
  BY <1>4, <1>7 DEF Resume, HandleSignal
<1>8. ASSUME NEW root \in BOOLEAN, ExplainOther(root) PROVE ReasonInv'
  <2>1. ~Goes
    BY <1>8 DEF ExplainOther, GoesToPath, NonRootEperm, Goes
  <2>2. QED
    BY <1>1, <1>8, <2>1, ReturnKeepsReason DEF ExplainOther, Explaining, walk, Answer
<1>9. ASSUME NEW root \in BOOLEAN, ExplainNonRoot(root) PROVE ReasonInv'
  <2>1. CASE Return(Answer("nonroot", 0))
    BY <1>1, <1>9, <2>1, ReturnKeepsReason DEF ExplainNonRoot, Explaining, walk, Answer
  <2>2. QED
    BY <1>4, <1>9, <2>1 DEF ExplainNonRoot
<1>10. ASSUME NEW root \in BOOLEAN, NEW l \in LimitAnswers, EnterPath(root, l)
       PROVE  ReasonInv'
  <2>1. Goes /\ pc = "failed" /\ lim' = l
    BY <1>10 DEF EnterPath, GoesToPath, NonRootEperm, Goes
  <2>2. CASE req.err = "ENAMETOOLONG" /\ PathTooLong(req.n, l)
    <3>1. Return(Answer("path_too_long", req.n))
      BY <1>10, <2>2 DEF EnterPath
    <3>2. answer'.tag = "path_too_long" /\ ~answer'.shown /\ req' = req /\ pc' = "answered"
      BY <3>1 DEF Return, Answer
    <3>3. Reasoned'
      BY <2>2, <3>2, ReasonsOf
      DEF Reasoned, ReasonMatchesErrno, ReasonFound, Answered
    <3>4. Cause'
      BY <2>1, <3>1 DEF ReasonInv, Cause, Goes, Return
    <3>5. QED
      BY <1>1, <3>2, <3>3, <3>4 DEF ReasonInv, Room, Denied
  <2>3. CASE ~(req.err = "ENAMETOOLONG" /\ PathTooLong(req.n, l))
    <3>1. pc' = "walk" /\ fs' = fs /\ req' = req /\ changes' = changes
      BY <1>10, <2>3 DEF EnterPath
    <3>2. Room'
      BY <2>1, <2>3, <3>1, RoomAfterComparison DEF Room, AtLimit, Overlong
    <3>3. Cause' /\ Goes'
      BY <2>1, <3>1 DEF ReasonInv, Cause, Goes
    <3>4. QED
      BY <1>1, <3>1, <3>2, <3>3
      DEF ReasonInv, Denied, Reasoned, ReasonMatchesErrno, ReasonFound,
          Undisturbed
  <2>4. QED
    BY <2>2, <2>3
<1>11. CASE LongName
  <2>1. req.err = "ENAMETOOLONG" /\ pc = "walk" /\ Return(Answer("name_too_long", i))
        /\ lim' = lim
    BY <1>11 DEF LongName, NameTooLong, walk
  <2>2. QED
    BY <1>1, <2>1, ReasonsOf, ReturnKeepsReason DEF Explaining, Answer
<1>12. CASE LookFails
  <2>1. PICK res \in Results \ {"ok"} :
          /\ pc = "walk" /\ ~NameTooLong(i) /\ Lstat(fs, i) = res
          /\ Return(DescribeLstat(res)) /\ lim' = lim
    BY <1>12 DEF LookFails, Look, Results, walk
  <2>2. /\ ~DescribeLstat(res).shown
        /\ res = "ENOENT" => DescribeLstat(res).tag \in Claims.absent
        /\ res = "EACCES" => DescribeLstat(res).tag \in Claims.denied
        /\ res \notin {"ENOENT", "EACCES"} => DescribeLstat(res).tag = "none"
    BY DEF DescribeLstat, DescribeEaccesFile, Answer, NoAnswer, Claims
  <2>3. ASSUME changes = 0,
               req.err = "ENAMETOOLONG" => lim = FsLimits /\ ~AtLimit(req.n)
        PROVE  req.err = res /\ req.err # "ENAMETOOLONG"
    BY <2>1, <2>3, LookFailsAsCalled, NameNotOverlooked
  <2>4. "none" \notin Claims.absent \cup Claims.denied
    BY DEF Claims
  <2>5. QED
    BY <1>1, <2>1, <2>2, <2>3, <2>4, ReasonsOf, ReturnKeepsReason DEF Explaining
<1>13. CASE NotDirectory
  <2>1. pc = "walk" /\ Lstat(fs, i) = "ok" /\ i < req.n /\ lim' = lim
        /\ ~fs[i].link /\ fs[i].type # "dir" /\ Return(Answer("not_a_directory", i))
    BY <1>13 DEF NotDirectory, Look, walk
  <2>2. ASSUME changes = 0, lim = FsLimits, ~AtLimit(req.n)
        PROVE  req.err = "ENOTDIR"
    <3>1. ~Overlong(req.n) /\ req.err = SyscallErrno(fs, req.sc, req.n)
      BY <2>1, <2>2 DEF ReasonInv, Cause, Room
    <3>2. i \in 1 .. req.n /\ i # req.n
      BY <1>2, <2>1, PathFSAssumption DEF TypeOK, Index
    <3>3. Lstat(fs, req.n) = "ENOTDIR"
      BY <1>2, <2>1, <3>1, <3>2, NondirDecides
    <3>4. QED
      BY <3>1, <3>3 DEF SyscallErrno
  <2>3. "not_a_directory" \in Claims.nondir
    BY DEF Claims
  <2>4. QED
    BY <1>1, <2>1, <2>2, <2>3, ReasonsOf, ReturnKeepsReason DEF Explaining, Answer
<1>14. CASE Descend
  <2>1. pc = "walk" /\ pc' = "walk" /\ UNCHANGED <<fs, req, lim, changes>>
    BY <1>14 DEF Descend, Look
  <2>2. QED
    BY <1>1, <2>1
    DEF ReasonInv, Goes, Cause, Room, Denied, Reasoned, ReasonMatchesErrno,
        ReasonFound, Undisturbed, AtLimit, Overlong
<1>15. CASE LeafDenied
  <2>1. /\ pc = "walk" /\ pc' = "parent" /\ UNCHANGED <<fs, req, lim, changes>>
        /\ Lstat(fs, i) = "ok" /\ i = req.n /\ req.err = "EACCES"
    BY <1>15 DEF LeafDenied, Look, walk
  <2>2. QED
    BY <1>1, <2>1
    DEF ReasonInv, Goes, Cause, Room, Denied, Reasoned, ReasonMatchesErrno,
        ReasonFound, Undisturbed, AtLimit, Overlong
<1>16. CASE LeafUnexplained
  <2>1. pc = "walk" /\ Lstat(fs, i) = "ok" /\ i = req.n /\ req.err # "EACCES"
        /\ Return(NoAnswer) /\ lim' = lim
    BY <1>16 DEF LeafUnexplained, Look, walk
  <2>2. ASSUME changes = 0
        PROVE  req.err # "ENAMETOOLONG" /\ (req.err = "ENOENT" => fs[req.n].link)
    <3>1. req.err = SyscallErrno(fs, req.sc, req.n)
      BY <2>1, <2>2 DEF ReasonInv, Cause
    <3>2. QED
      BY <1>2, <2>1, <3>1, AfterLookup
  <2>3. QED
    BY <1>1, <2>1, <2>2, ReturnKeepsReason DEF Explaining, NoAnswer, Answer
<1>17. CASE ShowParent
  <2>1. /\ pc = "parent" /\ req.err = "EACCES" /\ Goes
        /\ answer = DescribeEaccesFile(req.sc, i) /\ i = req.n /\ prev = req.n - 1
        /\ changes = 0 => Lstat(fs, req.n) = "ok"
                          /\ req.err = SyscallErrno(fs, req.sc, req.n)
    BY <1>17 DEF ReasonInv, PrefixInv, WalkInv, Denied, Cause, ShowParent
  <2>2. /\ pc' = "answered" /\ UNCHANGED <<fs, req, changes, lim>>
        /\ answer'.tag = answer.tag
        /\ answer'.shown => answer'.perm = Mode(fs[prev]) /\ prev # 0
    BY <1>17, <2>1 DEF ShowParent, Return, DescribeEaccesFile, Answer, walk
  <2>3. answer'.tag \in Claims.denied /\ answer'.tag # "none"
        /\ (answer'.tag = "dir_unwritable" => ~WantSearch(req.sc))
    BY <2>1, <2>2 DEF DescribeEaccesFile, Answer, Claims
  <2>4. ReasonMatchesErrno' /\ ReasonFound'
    BY <2>1, <2>2, <2>3, ReasonsOf DEF ReasonMatchesErrno, ReasonFound, Answered
  <2>5. Cause'
    BY <2>1, <2>2 DEF Cause
  <2>6. QED
    BY <1>1, <2>2, <2>4, <2>5 DEF ReasonInv, Room, Denied, Reasoned
<1>18. QED
  BY <1>3, <1>5, <1>6, <1>7, <1>8, <1>9, <1>10, <1>11, <1>12, <1>13, <1>14,
     <1>15, <1>16, <1>17 DEF Next, Explain, Walk

\* If the limits are known the invariant always holds.
LEMMA ReasonInvariant ==
  ASSUME LimitsKnown
  PROVE  Safety => []ReasonInv
<1>1. Init => ReasonInv
  BY WalkInvInit
  DEF Init, ReasonInv, PrefixInv, FirstFaultNamed, Cause, Room, Denied, Reasoned,
      ReasonMatchesErrno, ReasonFound, Undisturbed
<1>2. ReasonInv /\ [Next]_vars => ReasonInv'
  BY ReasonInvStep
<1>3. QED
  BY <1>1, <1>2, PTL DEF Safety

\* A reason that is given explains the errno of the call, for paths of any
\* length that nobody changes and that are not as long as the limit.
THEOREM ReasonsMatch ==
  ASSUME LimitsKnown
  PROVE  Spec => []ReasonMatchesErrno
<1>1. ReasonInv => ReasonMatchesErrno
  BY DEF ReasonInv, Reasoned
<1>2. QED
  BY <1>1, ReasonInvariant, PTL DEF Spec

\* Where path.c has texts for an errno and the path bears it out, one is given.
THEOREM ReasonsAreFound ==
  ASSUME LimitsKnown
  PROVE  Spec => []ReasonFound
<1>1. ReasonInv => ReasonFound
  BY DEF ReasonInv, Reasoned
<1>2. QED
  BY <1>1, ReasonInvariant, PTL DEF Spec
=============================================================================
