------------------------- MODULE ExplainFaultProofs -------------------------
(***************************************************************************)
(* Proofs that the walk finds the component at which the kernel stopped,   *)
(* and that the permissions it shows bear its text out, for paths of any   *)
(* length that nobody changes.  Nothing is assumed of the limits.          *)
(***************************************************************************)
EXTENDS ExplainReasonProofs

(***************************************************************************)
(* Where the walk stops.                                                   *)
(***************************************************************************)

\* The component the walk names when the kernel stops at the first fault.
Named(n) ==
  LET j == First(Faults(fs, n))
  IN IF Faults(fs, n) = {} THEN n
     ELSE IF fs[j].link \/ fs[j].type = "dir" THEN j + 1 ELSE j

ClaimTags == UNION {Claims[c] : c \in DOMAIN Claims}

\* The tags of texts that assert something of the path.
LEMMA ClaimTagsAre ==
  ClaimTags = {"dir_missing", "file_missing", "dir_unsearchable",
               "file_unsearchable", "dir_unwritable", "not_a_directory"}
<1>1. DOMAIN Claims = {"absent", "denied", "nondir"}
  BY DEF Claims
<1>2. ClaimTags = Claims["absent"] \cup Claims["denied"] \cup Claims["nondir"]
  BY <1>1 DEF ClaimTags
<1>3. QED
  BY <1>2 DEF Claims

\* A fault of the path with none before it is the first one.
LEMMA FirstFaultIs ==
  ASSUME NEW f \in FileSystems, NEW n \in Index, NEW j \in Faults(f, n),
         \A h \in 1 .. j - 1 : h \notin Faults(f, n)
  PROVE  First(Faults(f, n)) = j
<1>1. /\ First(Faults(f, n)) \in Faults(f, n)
      /\ First(Faults(f, n)) \in 1 .. n
      /\ First(Faults(f, n)) <= j
  BY FirstFault
<1>2. j \in 1 .. n
  BY DEF Faults
<1>3. First(Faults(f, n)) \notin 1 .. j - 1
  BY <1>1
<1>4. QED
  BY <1>1, <1>2, <1>3

\* A prefix at which lstat(2) is the first to fail with ENOENT or EACCES, and
\* whose own resolution goes wrong, has the first fault just before it.
LEMMA FaultJustBefore ==
  ASSUME fs \in FileSystems, NEW k \in Index, LeadsTo(k),
         Lstat(fs, k) \in {"ENOENT", "EACCES"}, Faults(fs, k) # {}
  PROVE  /\ First(Faults(fs, k)) = k - 1
         /\ k - 1 \in Index /\ ~Passable(fs[k - 1])
         /\ Lstat(fs, k) = NotPassable(fs[k - 1])
<1> DEFINE j == First(Faults(fs, k))
<1>1. j \in Faults(fs, k) /\ j \in 1 .. k /\ j \in Index /\ k \in Nat
  BY FirstFault, PathFSAssumption DEF Index
<1>2. ~Long(j) /\ Lstat(fs, k) = NotPassable(fs[j])
  BY DEF Lstat
<1>3. j < k /\ ~Passable(fs[j])
  BY <1>1, <1>2 DEF Faults
<1>4. ASSUME j # k - 1 PROVE FALSE
  <2> HIDE DEF j
  <2>1. j + 1 \in 1 .. k - 1 /\ j + 1 \in Index
    BY <1>1, <1>3, <1>4, PathFSAssumption DEF Index
  <2>2. Lstat(fs, j + 1) = "ok"
    BY <2>1 DEF LeadsTo
  <2>3. j \in Faults(fs, j + 1)
    BY <1>1, <1>3 DEF Faults
  <2>4. Faults(fs, j + 1) = {}
    BY <2>1, <2>2, OkMeansNoFault
  <2>5. QED
    BY <2>3, <2>4
<1>5. QED
  BY <1>1, <1>2, <1>3, <1>4

\* Where lstat(2) fails with ENOENT or EACCES for the first time is the
\* component that is to be named.
LEMMA LookLocates ==
  ASSUME fs \in FileSystems, NEW n \in Index, NEW k \in 1 .. n, LeadsTo(k),
         Lstat(fs, k) \in {"ENOENT", "EACCES"}
  PROVE  k = Named(n)
<1>1. k \in Index /\ k \in Nat /\ n \in Nat /\ k <= n
  BY PathFSAssumption DEF Index
<1>2. \A h \in 1 .. k - 1 : h \in Faults(fs, n) <=> h \in Faults(fs, k)
  BY <1>1 DEF Faults
<1>3. CASE Faults(fs, k) # {}
  <2>1. /\ First(Faults(fs, k)) = k - 1
        /\ k - 1 \in Index /\ ~Passable(fs[k - 1])
        /\ Lstat(fs, k) = NotPassable(fs[k - 1])
    BY <1>1, <1>3, FaultJustBefore
  <2>2. \A h \in Faults(fs, k) : k - 1 <= h
    BY <1>1, <1>3, <2>1, FirstFault
  <2>3. k - 1 \in Faults(fs, n) /\ k - 1 \in 1 .. k - 1
    BY <1>1, <2>1 DEF Faults, Index
  <2>4. \A h \in 1 .. (k - 1) - 1 : h \notin Faults(fs, n)
    BY <1>1, <1>2, <2>2
  <2>5. First(Faults(fs, n)) = k - 1
    BY <2>3, <2>4, FirstFaultIs
  <2>6. fs[k - 1].link \/ fs[k - 1].type = "dir"
    BY <2>3 DEF LeadsTo
  <2>7. QED
    BY <1>1, <2>3, <2>5, <2>6 DEF Named
<1>4. CASE Faults(fs, k) = {}
  <2>1. Absent(fs[k])
    BY <1>4 DEF Lstat
  <2>2. CASE k = n
    BY <1>4, <2>2 DEF Named
  <2>3. CASE k < n
    <3>1. k \in Faults(fs, n)
      BY <1>1, <2>1, <2>3 DEF Faults, Passable, Absent
    <3>2. First(Faults(fs, n)) = k
      BY <1>2, <1>4, <3>1, FirstFaultIs
    <3>3. QED
      BY <2>1, <3>1, <3>2 DEF Named, Absent
  <2>4. QED
    BY <1>1, <2>2, <2>3
<1>5. QED
  BY <1>3, <1>4

\* A leading component that is there and leads nowhere is the one to name.
LEMMA NondirLocates ==
  ASSUME fs \in FileSystems, NEW n \in Index, NEW k \in 1 .. n, k # n,
         Lstat(fs, k) = "ok", ~fs[k].link, fs[k].type # "dir"
  PROVE  k = Named(n)
<1>1. k \in Index /\ k \in Nat /\ n \in Nat /\ k < n
  BY PathFSAssumption DEF Index
<1>2. Faults(fs, k) = {}
  BY <1>1, OkMeansNoFault
<1>3. k \in Faults(fs, n)
  BY <1>1 DEF Faults, Passable
<1>4. \A h \in 1 .. k - 1 : h \notin Faults(fs, n)
  BY <1>1, <1>2 DEF Faults
<1>5. First(Faults(fs, n)) = k
  BY <1>3, <1>4, FirstFaultIs
<1>6. QED
  BY <1>3, <1>5 DEF Named

(***************************************************************************)
(* The invariant.  The two properties are about the answer,                *)
(* so they need that the errno is still the one the path gives (Cause) and *)
(* that the parent is shown only for a leaf that is there (Denied).        *)
(***************************************************************************)
FaultInv ==
  /\ PrefixInv
  /\ pc \in {"walk", "parent"} => Goes
  /\ Cause /\ Denied
  /\ FaultLocated /\ ShownModeBearsOut

\* What an answer has to say of a path that nobody has changed.
Located(a) ==
  changes = 0 /\ Goes =>
    /\ a.tag \in ClaimTags => a.at = Named(req.n)
    /\ a.tag = "dir_unwritable" /\ a.shown =>
         "w" \notin a.perm \/ fs[req.n - 1].link

\* An answer that says so may be returned.
LEMMA ReturnKeepsFault ==
  ASSUME FaultInv, PrefixInv', Explaining, NEW a, Return(a), Located(a)
  PROVE  FaultInv'
<1>1. /\ pc' = "answered" /\ answer' = a
      /\ fs' = fs /\ req' = req /\ changes' = changes
  BY DEF Return
<1>2. FaultLocated'
  BY <1>1 DEF FaultLocated, Undisturbed, Located, Goes, ClaimTags, Named
<1>3. ShownModeBearsOut'
  BY <1>1 DEF ShownModeBearsOut, Undisturbed, Located, Goes
<1>4. Cause'
  BY <1>1 DEF FaultInv, Cause, Goes, Explaining
<1>5. QED
  BY <1>1, <1>2, <1>3, <1>4 DEF FaultInv, Denied

\* An answer without a text about the path says nothing that could be wrong.
LEMMA SilentLocated ==
  ASSUME NEW tag, NEW k, tag \notin ClaimTags
  PROVE  Located(Answer(tag, k))
<1>1. tag # "dir_unwritable"
  BY ClaimTagsAre
<1>2. QED
  BY <1>1 DEF Located, Answer

\* What DescribeLstat makes of the answer of lstat(2) is located.
LEMMA LookLocated ==
  ASSUME FaultInv, pc = "walk"
  PROVE  Located(DescribeLstat(Lstat(fs, i)))
<1> DEFINE res == Lstat(fs, i)
           a == DescribeLstat(Lstat(fs, i))
<1>1. SUFFICES ASSUME changes = 0, Goes
               PROVE  /\ a.tag \in ClaimTags => a.at = Named(req.n)
                      /\ ~a.shown
  BY DEF Located
<1>2. fs \in FileSystems /\ req.n \in Index /\ i \in 1 .. req.n /\ LeadsTo(i)
  BY <1>1, PathFSAssumption DEF FaultInv, PrefixInv, WalkInv, TypeOK, Index
<1>3. a.tag \in ClaimTags => res \in {"ENOENT", "EACCES"} /\ a.at = i
  BY ClaimTagsAre DEF DescribeLstat, DescribeEaccesFile, NoAnswer, Answer
<1>4. ~a.shown
  BY DEF DescribeLstat, DescribeEaccesFile, NoAnswer, Answer
<1>5. a.tag \in ClaimTags => a.at = Named(req.n)
  BY <1>2, <1>3, LookLocates
<1>6. QED
  BY <1>4, <1>5

\* If nobody changed the path, the permissions of the parent are shown, and
\* write permission is missing from them.
LEMMA ParentLocated ==
  ASSUME FaultInv, pc = "parent", changes = 0
  PROVE  /\ answer = DescribeEaccesFile(req.sc, req.n)
         /\ req.n = Named(req.n)
         /\ ~WantSearch(req.sc) =>
              /\ prev = req.n - 1 /\ prev # 0 /\ Lstat(fs, prev) = "ok"
              /\ "w" \notin fs[req.n - 1].perm
<1>1. /\ fs \in FileSystems /\ req.n \in Index /\ i = req.n /\ prev = req.n - 1
      /\ answer = DescribeEaccesFile(req.sc, req.n)
      /\ LeadsTo(req.n) /\ Goes /\ req.err = "EACCES"
      /\ Lstat(fs, req.n) = "ok" /\ req.err = SyscallErrno(fs, req.sc, req.n)
  BY DEF FaultInv, PrefixInv, WalkInv, TypeOK, Cause, Denied
<1>2. req.n = Named(req.n)
  BY <1>1, OkMeansNoFault DEF Named
<1>3. ASSUME ~WantSearch(req.sc)
      PROVE  prev # 0 /\ Lstat(fs, prev) = "ok" /\ "w" \notin fs[req.n - 1].perm
  <2>1. req.sc = "unlink"
    BY <1>1, <1>3 DEF Goes, GoesToPath, Explained, WantSearch
  <2>2. Unlink(fs, req.n) = "EACCES"
    BY <1>1, <2>1 DEF SyscallErrno
  <2>3. req.n # 1 /\ "w" \notin fs[req.n - 1].perm
    BY <2>2 DEF Unlink
  <2>4. req.n - 1 \in 1 .. req.n - 1
    BY <1>1, <2>3, PathFSAssumption DEF Index
  <2>5. QED
    BY <1>1, <2>3, <2>4 DEF LeadsTo
<1>4. QED
  BY <1>1, <1>2, <1>3

(***************************************************************************)
(* Each step keeps the invariant.                                          *)
(***************************************************************************)
LEMMA FaultInvStep ==
  ASSUME FaultInv, [Next]_vars
  PROVE  FaultInv'
<1>1. PrefixInv'
  BY PrefixInvStep DEF FaultInv
<1>2. TypeOK /\ fs \in FileSystems /\ req.n \in Index
  BY DEF FaultInv, PrefixInv, WalkInv, TypeOK
<1>3. CASE UNCHANGED vars
  BY <1>1, <1>3
  DEF FaultInv, vars, Goes, Cause, Denied, FaultLocated, ShownModeBearsOut, Undisturbed
<1>4. ASSUME pc' \in {"idle", "faulted", "ended"}
      PROVE  FaultInv'
  BY <1>1, <1>4
  DEF FaultInv, Cause, Denied, FaultLocated, ShownModeBearsOut,
      Undisturbed
<1>5. ASSUME NEW sc \in Calls, NEW n \in Index,
             NEW err \in OtherErrnos \cup {SyscallErrno(fs, sc, n)},
             Fail(sc, n, err)
      PROVE  FaultInv'
  <2>1. pc' = "failed" /\ fs' = fs /\ req' = [sc |-> sc, err |-> err, n |-> n]
    BY <1>5 DEF Fail
  <2>2. Cause'
    BY <2>1, PathErrnosDiffer DEF Cause, Goes
  <2>3. QED
    BY <1>1, <2>1, <2>2
    DEF FaultInv, Denied, FaultLocated, ShownModeBearsOut,
        Undisturbed
<1>6. CASE Change
  <2>1. changes' # 0 \/ pc' = "idle"
    BY <1>2, <1>6, ExplainPathAssumption DEF Change, TypeOK
  <2>2. pc' = pc /\ req' = req
    BY <1>6 DEF Change
  <2>3. pc' # "answered"
    BY <1>6, <2>2 DEF Change, Explaining
  <2>4. QED
    BY <1>1, <2>1, <2>2, <2>3
    DEF FaultInv, Goes, Cause, Denied, FaultLocated, ShownModeBearsOut, Undisturbed
<1>7. CASE Resume \/ HandleSignal
  BY <1>4, <1>7 DEF Resume, HandleSignal
<1>8. ASSUME NEW root \in BOOLEAN, ExplainOther(root) PROVE FaultInv'
  <2>1. ~Goes
    BY <1>8 DEF ExplainOther, GoesToPath, NonRootEperm, Goes
  <2>2. Located(Answer(DescribeOther(req.sc, req.err), 0))
    BY <2>1 DEF Located
  <2>3. QED
    BY <1>1, <1>8, <2>2, ReturnKeepsFault DEF ExplainOther, Explaining
<1>9. ASSUME NEW root \in BOOLEAN, ExplainNonRoot(root) PROVE FaultInv'
  <2>1. CASE Return(Answer("nonroot", 0))
    <3>1. Located(Answer("nonroot", 0))
      BY ClaimTagsAre, SilentLocated
    <3>2. QED
      BY <1>1, <1>9, <2>1, <3>1, ReturnKeepsFault DEF ExplainNonRoot, Explaining
  <2>2. QED
    BY <1>4, <1>9, <2>1 DEF ExplainNonRoot
<1>10. ASSUME NEW root \in BOOLEAN, NEW l \in LimitAnswers, EnterPath(root, l)
       PROVE  FaultInv'
  <2>1. CASE Return(Answer("path_too_long", req.n))
    <3>1. Located(Answer("path_too_long", req.n))
      BY ClaimTagsAre, SilentLocated
    <3>2. QED
      BY <1>1, <1>10, <2>1, <3>1, ReturnKeepsFault DEF EnterPath, Explaining
  <2>2. CASE pc' = "walk" /\ UNCHANGED <<fs, req, answer, changes, witnessed>>
    <3>1. Goes /\ pc = "failed"
      BY <1>10 DEF EnterPath, GoesToPath, NonRootEperm, Goes
    <3>2. Cause' /\ Goes'
      BY <2>2, <3>1 DEF FaultInv, Cause, Goes
    <3>3. QED
      BY <1>1, <2>2, <3>2
      DEF FaultInv, Denied, FaultLocated, ShownModeBearsOut,
          Undisturbed
  <2>3. QED
    BY <1>10, <2>1, <2>2 DEF EnterPath
<1>11. CASE LongName
  <2>1. Located(Answer("name_too_long", i))
    BY ClaimTagsAre, SilentLocated
  <2>2. QED
    BY <1>1, <1>11, <2>1, ReturnKeepsFault DEF LongName, Explaining
<1>12. CASE LookFails
  <2>1. pc = "walk" /\ Return(DescribeLstat(Lstat(fs, i)))
    BY <1>12 DEF LookFails, Look
  <2>2. QED
    BY <1>1, <2>1, LookLocated, ReturnKeepsFault DEF Explaining
<1>13. CASE NotDirectory
  <2>1. pc = "walk" /\ Lstat(fs, i) = "ok" /\ i < req.n
        /\ ~fs[i].link /\ fs[i].type # "dir" /\ Return(Answer("not_a_directory", i))
    BY <1>13 DEF NotDirectory, Look
  <2>2. i \in 1 .. req.n /\ i # req.n
    BY <1>2, <2>1, PathFSAssumption DEF TypeOK, Index
  <2>3. i = Named(req.n)
    BY <1>2, <2>1, <2>2, NondirLocates
  <2>4. Located(Answer("not_a_directory", i))
    BY <2>3 DEF Located, Answer
  <2>5. QED
    BY <1>1, <2>1, <2>4, ReturnKeepsFault DEF Explaining
<1>14. CASE Descend
  <2>1. pc = "walk" /\ pc' = "walk" /\ UNCHANGED <<fs, req, changes>>
    BY <1>14 DEF Descend, Look
  <2>2. QED
    BY <1>1, <2>1
    DEF FaultInv, Goes, Cause, Denied, FaultLocated, ShownModeBearsOut, Undisturbed
<1>15. CASE LeafDenied
  <2>1. /\ pc = "walk" /\ pc' = "parent" /\ UNCHANGED <<fs, req, changes>>
        /\ Lstat(fs, i) = "ok" /\ i = req.n /\ req.err = "EACCES"
    BY <1>15 DEF LeafDenied, Look
  <2>2. QED
    BY <1>1, <2>1
    DEF FaultInv, Goes, Cause, Denied, FaultLocated, ShownModeBearsOut, Undisturbed
<1>16. CASE LeafUnexplained
  <2>1. Located(NoAnswer)
    BY ClaimTagsAre, SilentLocated DEF NoAnswer
  <2>2. QED
    BY <1>1, <1>16, <2>1, ReturnKeepsFault DEF LeafUnexplained, Look, Explaining
<1>17. CASE ShowParent
  <2> DEFINE shown == prev # 0 /\ Lstat(fs, prev) = "ok"
             a == IF shown
                  THEN [answer EXCEPT !.shown = TRUE, !.perm = Mode(fs[prev])]
                  ELSE answer
  <2>1. pc = "parent" /\ Return(a)
    BY <1>17 DEF ShowParent
  <2>2. Located(a)
    <3>1. SUFFICES ASSUME changes = 0 PROVE Located(a)
      BY DEF Located
    <3>2. /\ answer = DescribeEaccesFile(req.sc, req.n)
          /\ req.n = Named(req.n)
          /\ ~WantSearch(req.sc) =>
               shown /\ prev = req.n - 1 /\ "w" \notin fs[req.n - 1].perm
      BY <2>1, <3>1, ParentLocated
    <3>3. /\ a.at = req.n /\ a.tag = answer.tag
          /\ shown => a.shown /\ a.perm = Mode(fs[prev])
      BY <3>2 DEF DescribeEaccesFile, Answer
    <3>4. answer.tag = "dir_unwritable" => ~WantSearch(req.sc)
      BY <3>2 DEF DescribeEaccesFile, Answer
    <3>5. QED
      BY <3>2, <3>3, <3>4 DEF Located, Mode
  <2>3. QED
    BY <1>1, <2>1, <2>2, ReturnKeepsFault DEF Explaining
<1>18. QED
  BY <1>3, <1>5, <1>6, <1>7, <1>8, <1>9, <1>10, <1>11, <1>12, <1>13, <1>14,
     <1>15, <1>16, <1>17 DEF Next, Explain, Walk

LEMMA FaultInvariant == Safety => []FaultInv
<1>1. Init => FaultInv
  BY WalkInvInit
  DEF Init, FaultInv, PrefixInv, FirstFaultNamed, Cause, Denied, FaultLocated,
      ShownModeBearsOut, Undisturbed
<1>2. FaultInv /\ [Next]_vars => FaultInv'
  BY FaultInvStep
<1>3. QED
  BY <1>1, <1>2, PTL DEF Safety

\* The component that is named is the one at which the kernel stopped, or the
\* one behind it, for paths of any length and whatever the limits.
THEOREM FaultsAreLocated == Spec => []FaultLocated
<1>1. FaultInv => FaultLocated
  BY DEF FaultInv
<1>2. QED
  BY <1>1, FaultInvariant, PTL DEF Spec

\* The permissions that are shown bear the text out, whatever the limits.
THEOREM ModesBearOut == Spec => []ShownModeBearsOut
<1>1. FaultInv => ShownModeBearsOut
  BY DEF FaultInv
<1>2. QED
  BY <1>1, FaultInvariant, PTL DEF Spec
=============================================================================
