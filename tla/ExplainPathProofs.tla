------------------------- MODULE ExplainPathProofs -------------------------
(***************************************************************************)
(* Proofs about the walk, for paths of any length, any permissions, any    *)
(* limits and any number of changes: the types, and that nothing is        *)
(* asserted that was not true while the explanation was being made.        *)
(***************************************************************************)
EXTENDS ExplainPath, NaturalFacts

(***************************************************************************)
(* The kernel's answers.                                                   *)
(***************************************************************************)

\* First chooses the least element of a set of naturals.
LEMMA FirstIsLeast ==
  ASSUME NEW S \in SUBSET Nat, S # {}
  PROVE  First(S) \in S /\ \A h \in S : First(S) <= h
  BY LeastElement DEF First

Results == {"ok", "ENOENT", "EACCES", "ENOTDIR", "ELOOP", "ENAMETOOLONG"}

\* What a prefix names has one of the four types.
LEMMA NodeTypes ==
  ASSUME NEW f \in FileSystems, NEW k \in Index
  PROVE  /\ f[k].type \in {"none", "file", "dir", "loop"}
         /\ f[k].link \in BOOLEAN
         /\ f[k].perm \in Perms
  BY DEF FileSystems, Node

\* lstat(2) answers with a node or one of five errnos.
LEMMA LstatAnswers ==
  ASSUME NEW f \in FileSystems, NEW k \in Index
  PROVE  Lstat(f, k) \in Results
<1>1. CASE Overlong(k) \/ Faults(f, k) = {}
  BY <1>1 DEF Lstat, Results
<1>2. CASE ~Overlong(k) /\ Faults(f, k) # {}
  <2> DEFINE j == First(Faults(f, k))
  <2>1. Faults(f, k) \in SUBSET Nat /\ Faults(f, k) \subseteq Index
    BY PathFSAssumption DEF Faults, Index
  <2>2. j \in Faults(f, k) /\ j \in Index
    BY <1>2, <2>1, FirstIsLeast
  <2>3. CASE Long(j)
    BY <1>2, <2>3 DEF Lstat, Results
  <2>4. CASE ~Long(j)
    <3>1. Lstat(f, k) = NotPassable(f[j])
      BY <1>2, <2>4 DEF Lstat
    <3>2. f[j].type \in {"none", "file", "dir", "loop"}
      BY <2>2, NodeTypes
    <3>3. QED
      BY <3>1, <3>2 DEF NotPassable, Results
  <2>5. QED
    BY <2>3, <2>4
<1>3. QED
  BY <1>1, <1>2

\* The errno of a failed call is one of those listed.
LEMMA ErrnoListed ==
  ASSUME NEW f \in FileSystems, NEW sc, NEW n \in Index
  PROVE  SyscallErrno(f, sc, n) \in FsErrnos \cup {"ok"}
<1>1. Lstat(f, n) \in FsErrnos \cup {"ok"}
  BY LstatAnswers DEF Results, FsErrnos
<1>2. f[n].type \in {"none", "file", "dir", "loop"}
  BY NodeTypes
<1>3. Follow(f[n]) \in FsErrnos \cup {"ok"}
  BY <1>2 DEF Follow, FsErrnos
<1>4. Chroot(f[n]) \in FsErrnos \cup {"ok"}
  BY <1>3 DEF Chroot, FsErrnos
<1>5. Unlink(f, n) \in FsErrnos \cup {"ok"}
  BY DEF Unlink, FsErrnos
<1>6. QED
  BY <1>1, <1>3, <1>4, <1>5 DEF SyscallErrno, FsErrnos

(***************************************************************************)
(* What is true of a path.                                                 *)
(***************************************************************************)

\* All that is true of a path can be asserted.
LEMMA TruthsAreFacts ==
  ASSUME NEW f \in FileSystems, NEW n \in Index
  PROVE  Truths(f, n) \subseteq Facts
<1>1. ASSUME NEW kind \in {"absent", "denied", "nondir", "mode"},
             NEW k \in Index, NEW p \in Perms
      PROVE  Fact(kind, k, p) \in Facts
  BY <1>1 DEF Fact, Facts
<1>2. 1 .. n \subseteq Index
  BY PathFSAssumption DEF Index
<1>3. \A k \in Index : Mode(f[k]) \in Perms
  BY NodeTypes, ExplainPathAssumption DEF Mode
<1>4. {} \in Perms
  BY PathFSAssumption
<1>5. QED
  BY <1>1, <1>2, <1>3, <1>4 DEF Truths
(***************************************************************************)
(* Types.                                                                  *)
(***************************************************************************)

\* A text built by the walk is an answer.
LEMMA AnswerType ==
  ASSUME NEW tag \in PathTags \cup OtherTags, NEW k \in 0 .. MaxN
  PROVE  Answer(tag, k) \in Answers
  BY PathFSAssumption DEF Answer, Answers

LEMMA ZeroInRange == 0 \in 0 .. MaxN /\ 1 \in Index /\ Index \subseteq 0 .. MaxN
  BY PathFSAssumption DEF Index

\* "none" is the answer before and after an explanation.
LEMMA NoAnswerType ==
  NoAnswer \in Answers
<1>1. "none" \in PathTags \cup OtherTags
  BY DEF OtherTags
<1>2. QED
  BY <1>1, ZeroInRange, AnswerType DEF NoAnswer

\* A failure that is not about the path gets one of the other texts.
LEMMA OtherTagType ==
  ASSUME NEW sc, NEW err
  PROVE  DescribeOther(sc, err) \in PathTags \cup OtherTags
  BY DEF DescribeOther, DescribeGeneric, OtherTags

\* The program's texts about a leaf are answers.
LEMMA DescribeType ==
  ASSUME TypeOK, NEW res
  PROVE  /\ DescribeEaccesFile(req.sc, i) \in Answers
         /\ DescribeLstat(res) \in Answers
<1>1. i \in 0 .. MaxN
  BY ZeroInRange DEF TypeOK
<1>2. {"dir_missing", "dir_unsearchable", "file_missing", "file_unsearchable",
       "dir_unwritable"} \subseteq PathTags \cup OtherTags
  BY DEF PathTags
<1>3. DescribeEaccesFile(req.sc, i) \in Answers
  BY <1>1, <1>2, AnswerType DEF DescribeEaccesFile
<1>4. QED
  BY <1>1, <1>2, <1>3, AnswerType, NoAnswerType DEF DescribeLstat

\* Every action of ExplainPath keeps the types.
LEMMA TypeStep ==
  ASSUME TypeOK, [Next]_vars
  PROVE  TypeOK'
<1>1. TypeOK /\ [Next]_vars
  OBVIOUS
<1>2. CASE UNCHANGED vars
  BY <1>1, <1>2 DEF TypeOK, vars
<1>3. ASSUME NEW sc \in Calls, NEW n \in Index,
             NEW err \in OtherErrnos \cup {SyscallErrno(fs, sc, n)},
             Fail(sc, n, err)
      PROVE  TypeOK'
  <2>1. err \in FsErrnos \cup OtherErrnos
    BY <1>1, <1>3, ErrnoListed DEF Fail, TypeOK
  <2>2. Truths(fs, n) \subseteq Facts
    BY <1>1, TruthsAreFacts DEF TypeOK
  <2>3. Fact("denied", n, {}) \in Facts
    BY PathFSAssumption DEF Fact, Facts
  <2>4. witnessed' \subseteq Facts
    BY <1>3, <2>2, <2>3 DEF Fail
  <2>5. QED
    BY <1>1, <1>3, <2>1, <2>4 DEF Fail, TypeOK, walk
<1>4. CASE Change
  <2>1. fs' \in FileSystems
    BY <1>4 DEF Change
  <2>2. Truths(fs', req.n) \subseteq Facts
    BY <1>1, <2>1, TruthsAreFacts DEF TypeOK
  <2>3. changes' \in 0 .. MaxChanges /\ witnessed' \subseteq Facts
    <3>1. CASE ~Explaining
      BY <1>1, <1>4, <3>1 DEF Change, TypeOK
    <3>2. CASE Explaining
      <4>1. changes < MaxChanges /\ changes' = changes + 1
        BY <1>4, <3>2 DEF Change, Explaining
      <4>2. changes' \in 0 .. MaxChanges
        BY <1>1, <4>1, ExplainPathAssumption DEF TypeOK
      <4>3. QED
        BY <1>1, <1>4, <2>2, <3>2, <4>2 DEF Change, TypeOK
    <3>3. QED
      BY <3>1, <3>2
  <2>4. QED
    BY <1>1, <1>4, <2>1, <2>3 DEF Change, TypeOK, walk
<1>5. CASE Resume
  <2>1. NoCall \in [sc : Calls, err : FsErrnos \cup OtherErrnos \cup {"0"}, n : Index]
    BY ExplainPathAssumption, ZeroInRange DEF NoCall
  <2>2. QED
    BY <1>1, <1>5, <2>1, NoAnswerType, ZeroInRange, PathFSAssumption,
       ExplainPathAssumption DEF Resume, TypeOK
<1>6. ASSUME NEW a \in Answers, Return(a), UNCHANGED walk
      PROVE  TypeOK'
  BY <1>1, <1>6 DEF Return, walk, TypeOK
<1>7. ASSUME NEW root \in BOOLEAN, ExplainOther(root) PROVE TypeOK'
  <2>1. Answer(DescribeOther(req.sc, req.err), 0) \in Answers
    BY AnswerType, OtherTagType, ZeroInRange
  <2>2. QED
    BY <1>6, <1>7, <2>1 DEF ExplainOther
<1>8. ASSUME NEW root \in BOOLEAN, ExplainNonRoot(root) PROVE TypeOK'
  <2>1. Answer("nonroot", 0) \in Answers
    BY AnswerType, ZeroInRange DEF PathTags
  <2>2. CASE Return(Answer("nonroot", 0))
    BY <1>6, <1>8, <2>1, <2>2 DEF ExplainNonRoot
  <2>3. CASE pc' = "faulted" /\ UNCHANGED <<fs, req, answer, changes, witnessed>>
    BY <1>1, <1>8, <2>3 DEF ExplainNonRoot, TypeOK, walk
  <2>4. QED
    BY <1>8, <2>2, <2>3 DEF ExplainNonRoot
<1>9. ASSUME NEW root \in BOOLEAN, NEW l \in LimitAnswers, EnterPath(root, l)
      PROVE  TypeOK'
  <2>1. Answer("path_too_long", req.n) \in Answers
    <3>1. req.n \in 0 .. MaxN
      BY <1>1, ZeroInRange DEF TypeOK
    <3>2. QED
      BY <3>1, AnswerType DEF PathTags
  <2>2. l \in Limits
    BY ExplainPathAssumption
  <2>3. QED
    BY <1>1, <1>9, <2>1, <2>2 DEF EnterPath, Return, TypeOK
<1>10. CASE LongName
  <2>1. Answer("name_too_long", i) \in Answers
    BY <1>1, AnswerType, ZeroInRange DEF PathTags, TypeOK
  <2>2. QED
    BY <1>6, <1>10, <2>1 DEF LongName
<1>11. CASE LookFails
  BY <1>1, <1>6, <1>11, DescribeType DEF LookFails
<1>12. CASE NotDirectory
  <2>1. Answer("not_a_directory", i) \in Answers
    BY <1>1, AnswerType, ZeroInRange DEF PathTags, TypeOK
  <2>2. QED
    BY <1>6, <1>12, <2>1 DEF NotDirectory
<1>13. CASE Descend
  <2>1. i + 1 \in Index /\ i \in 0 .. MaxN
    BY <1>1, <1>13, PathFSAssumption DEF Descend, TypeOK, Index
  <2>2. QED
    BY <1>1, <1>13, <2>1 DEF Descend, TypeOK
<1>14. CASE LeafDenied
  BY <1>1, <1>14, DescribeType DEF LeafDenied, TypeOK, walk
<1>15. CASE LeafUnexplained
  BY <1>6, <1>15, NoAnswerType DEF LeafUnexplained
<1>16. CASE ShowParent
  <2>1. CASE prev # 0 /\ Lstat(fs, prev) = "ok"
    <3>1. prev \in Index
      BY <1>1, <2>1, PathFSAssumption DEF TypeOK, Index
    <3>2. Mode(fs[prev]) \in Perms
      BY <1>1, <3>1, NodeTypes, ExplainPathAssumption DEF Mode, TypeOK
    <3>3. [answer EXCEPT !.shown = TRUE, !.perm = Mode(fs[prev])] \in Answers
      BY <1>1, <3>2 DEF TypeOK, Answers
    <3>4. QED
      BY <1>6, <1>16, <2>1, <3>3 DEF ShowParent
  <2>2. CASE ~(prev # 0 /\ Lstat(fs, prev) = "ok")
    BY <1>1, <1>6, <1>16, <2>2 DEF ShowParent, TypeOK
  <2>3. QED
    BY <2>1, <2>2
<1>17. CASE HandleSignal
  BY <1>1, <1>17 DEF HandleSignal, TypeOK, walk
<1>18. QED
  BY <1>1, <1>2, <1>3, <1>4, <1>5, <1>7, <1>8, <1>9, <1>10, <1>11, <1>12,
     <1>13, <1>14, <1>15, <1>16, <1>17 DEF Next, Explain, Walk

LEMMA TypeInit == ASSUME Init PROVE TypeOK
<1>1. Init
  OBVIOUS
<1>2. NoCall \in [sc : Calls, err : FsErrnos \cup OtherErrnos \cup {"0"}, n : Index]
  BY ExplainPathAssumption, ZeroInRange DEF NoCall
<1>3. QED
  BY <1>1, <1>2, NoAnswerType, ZeroInRange, PathFSAssumption,
     ExplainPathAssumption DEF Init, TypeOK

\* The variables keep their types, whatever the constants.
THEOREM TypeCorrect == Spec => []TypeOK
<1>1. Init => TypeOK
  BY TypeInit
<1>2. TypeOK /\ [Next]_vars => TypeOK'
  BY TypeStep
<1>3. QED
  BY <1>1, <1>2, PTL DEF Spec, Safety

(***************************************************************************)
(* Nothing is asserted that was not true.  ClaimsWitnessed alone is not    *)
(* inductive: an assertion is taken from the file system of the moment, so *)
(* the invariant says that all that is true of the path has been recorded, *)
(* and what a second lstat(2) may be added to.                             *)
(***************************************************************************)
WalkInv ==
  /\ TypeOK
  /\ ClaimsWitnessed
  /\ i <= req.n /\ prev = i - 1
  /\ pc \in {"idle", "failed"} => i = 1
  /\ pc \in {"idle", "failed", "walk"} => answer = NoAnswer
  /\ pc = "parent" => /\ i = req.n
                      /\ answer = DescribeEaccesFile(req.sc, i)
  /\ Explaining =>
       /\ Truths(fs, req.n) \subseteq witnessed
       /\ req.err = "EACCES" => Fact("denied", req.n, {}) \in witnessed

\* What a text without permissions asserts.
LEMMA AssertsOfTag ==
  ASSUME NEW tag, NEW k
  PROVE  /\ tag \notin Claims.absent \cup Claims.denied \cup Claims.nondir
              => Asserts(Answer(tag, k)) = {}
         /\ tag \in Claims.absent => Asserts(Answer(tag, k)) = {Fact("absent", k, {})}
         /\ tag \in Claims.denied => Asserts(Answer(tag, k)) = {Fact("denied", k, {})}
         /\ tag \in Claims.nondir => Asserts(Answer(tag, k)) = {Fact("nondir", k, {})}
  BY DEF Asserts, Answer, Claims
\* An explanation whose assertions have all been recorded may be returned.
LEMMA ReturnKeepsInv ==
  ASSUME WalkInv, TypeOK', Explaining, NEW a, Return(a), UNCHANGED <<i, prev>>,
         Asserts(a) \subseteq witnessed
  PROVE  WalkInv'
<1>1. ClaimsWitnessed'
  BY DEF Return, ClaimsWitnessed
<1>2. ~Explaining' /\ pc' = "answered"
  BY DEF Return, Explaining
<1>3. QED
  BY <1>1, <1>2 DEF WalkInv, Return

\* A text about a leaf or a missing prefix asserts what lstat(2) has answered.
LEMMA DescribeWitnessed ==
  ASSUME WalkInv, pc = "walk"
  PROVE  Asserts(DescribeLstat(Lstat(fs, i))) \subseteq witnessed
<1>1. i \in 1 .. req.n /\ Truths(fs, req.n) \subseteq witnessed
  BY PathFSAssumption DEF WalkInv, TypeOK, Index, Explaining
<1>2. Lstat(fs, i) = "ENOENT" => Fact("absent", i, {}) \in witnessed
  BY <1>1 DEF Truths
<1>3. Lstat(fs, i) = "EACCES" => Fact("denied", i, {}) \in witnessed
  BY <1>1 DEF Truths
<1>4. CASE Lstat(fs, i) = "ENOENT"
  <2>1. PICK tag \in Claims.absent :
          DescribeLstat(Lstat(fs, i)) = Answer(tag, i)
    BY <1>4 DEF DescribeLstat, Claims
  <2>2. QED
    BY <1>2, <1>4, <2>1, AssertsOfTag
<1>5. CASE Lstat(fs, i) = "EACCES"
  <2>1. PICK tag \in Claims.denied :
          DescribeLstat(Lstat(fs, i)) = Answer(tag, i)
    BY <1>5 DEF DescribeLstat, DescribeEaccesFile, Claims
  <2>2. QED
    BY <1>3, <1>5, <2>1, AssertsOfTag
<1>6. CASE Lstat(fs, i) \notin {"ENOENT", "EACCES"}
  BY <1>6, AssertsOfTag DEF DescribeLstat, NoAnswer, Claims
<1>7. QED
  BY <1>4, <1>5, <1>6

\* Every action of ExplainPath keeps the invariant.
LEMMA WalkInvStep ==
  ASSUME WalkInv, [Next]_vars
  PROVE  WalkInv'
<1>1. TypeOK'
  BY TypeStep DEF WalkInv
<1>2. CASE UNCHANGED vars
  BY <1>1, <1>2 DEF WalkInv, ClaimsWitnessed, Explaining, vars, DescribeEaccesFile
<1>3. ASSUME NEW sc \in Calls, NEW n \in Index,
             NEW err \in OtherErrnos \cup {SyscallErrno(fs, sc, n)},
             Fail(sc, n, err)
      PROVE  WalkInv'
  <2>1. answer' = NoAnswer /\ i' = 1 /\ prev' = 0 /\ req'.n = n
    BY <1>3 DEF WalkInv, Fail, walk
  <2>2. ClaimsWitnessed'
    BY <2>1, AssertsOfTag DEF ClaimsWitnessed, NoAnswer, Claims
  <2>3. /\ Truths(fs', req'.n) \subseteq witnessed'
        /\ req'.err = "EACCES" => Fact("denied", req'.n, {}) \in witnessed'
    BY <1>3 DEF Fail
  <2>4. i' <= req'.n
    BY <2>1, PathFSAssumption DEF Index
  <2>5. QED
    BY <1>1, <1>3, <2>1, <2>2, <2>3, <2>4 DEF WalkInv, Fail
<1>4. CASE Change
  <2>1. CASE Explaining
    BY <1>1, <1>4, <2>1
    DEF WalkInv, Change, ClaimsWitnessed, Explaining, walk, DescribeEaccesFile
  <2>2. CASE ~Explaining
    BY <1>1, <1>4, <2>2
    DEF WalkInv, Change, ClaimsWitnessed, Explaining, walk
  <2>3. QED
    BY <2>1, <2>2
<1>5. CASE Resume
  <2>1. ClaimsWitnessed'
    BY <1>5, AssertsOfTag DEF Resume, ClaimsWitnessed, NoAnswer, Claims
  <2>2. QED
    BY <1>1, <1>5, <2>1 DEF WalkInv, Resume, Explaining, NoCall
<1>6. ASSUME NEW root \in BOOLEAN, ExplainOther(root) PROVE WalkInv'
  <2>1. DescribeOther(req.sc, req.err) \in OtherTags
    BY DEF DescribeOther, DescribeGeneric, OtherTags
  <2>2. Asserts(Answer(DescribeOther(req.sc, req.err), 0)) = {}
    BY <2>1, AssertsOfTag DEF OtherTags, GenericErrnos, Claims
  <2>3. QED
    BY <1>1, <1>6, <2>2, ReturnKeepsInv DEF ExplainOther, Explaining, walk
<1>7. ASSUME NEW root \in BOOLEAN, ExplainNonRoot(root) PROVE WalkInv'
  <2>1. CASE Return(Answer("nonroot", 0))
    <3>1. Asserts(Answer("nonroot", 0)) = {}
      BY AssertsOfTag DEF Claims
    <3>2. QED
      BY <1>1, <1>7, <2>1, <3>1, ReturnKeepsInv DEF ExplainNonRoot, Explaining, walk
  <2>2. CASE pc' = "faulted" /\ UNCHANGED <<fs, req, answer, changes, witnessed>>
    BY <1>1, <1>7, <2>2
    DEF WalkInv, ExplainNonRoot, ClaimsWitnessed, Explaining, walk
  <2>3. QED
    BY <1>7, <2>1, <2>2 DEF ExplainNonRoot
<1>8. ASSUME NEW root \in BOOLEAN, NEW l \in LimitAnswers, EnterPath(root, l)
      PROVE  WalkInv'
  <2>1. CASE Return(Answer("path_too_long", req.n))
    <3>1. Asserts(Answer("path_too_long", req.n)) = {}
      BY AssertsOfTag DEF Claims
    <3>2. QED
      BY <1>1, <1>8, <2>1, <3>1, ReturnKeepsInv DEF EnterPath, Explaining
  <2>2. CASE pc' = "walk" /\ UNCHANGED <<fs, req, answer, changes, witnessed>>
    BY <1>1, <1>8, <2>2 DEF WalkInv, EnterPath, ClaimsWitnessed, Explaining
  <2>3. QED
    BY <1>8, <2>1, <2>2 DEF EnterPath
<1>9. CASE LongName
  <2>1. Asserts(Answer("name_too_long", i)) = {}
    BY AssertsOfTag DEF Claims
  <2>2. QED
    BY <1>1, <1>9, <2>1, ReturnKeepsInv DEF LongName, Explaining, walk
<1>10. CASE LookFails
  <2>1. pc = "walk" /\ Return(DescribeLstat(Lstat(fs, i))) /\ UNCHANGED walk
    BY <1>10 DEF LookFails, Look
  <2>2. Asserts(DescribeLstat(Lstat(fs, i))) \subseteq witnessed
    BY <2>1, DescribeWitnessed
  <2>3. QED
    BY <1>1, <2>1, <2>2, ReturnKeepsInv DEF Explaining, walk
<1>11. CASE NotDirectory
  <2>1. i \in 1 .. req.n /\ Truths(fs, req.n) \subseteq witnessed
    BY <1>11, PathFSAssumption DEF WalkInv, TypeOK, Index, Explaining, NotDirectory, Look
  <2>2. Fact("nondir", i, {}) \in Truths(fs, req.n)
    BY <1>11, <2>1 DEF NotDirectory, Look, Truths
  <2>3. Asserts(Answer("not_a_directory", i)) = {Fact("nondir", i, {})}
    BY AssertsOfTag DEF Claims
  <2>4. QED
    BY <1>1, <1>11, <2>1, <2>2, <2>3, ReturnKeepsInv
    DEF NotDirectory, Look, Explaining, walk
<1>12. CASE Descend
  <2>1. i' <= req'.n /\ prev' = i' - 1
    BY <1>12, PathFSAssumption DEF WalkInv, TypeOK, Index, Descend
  <2>2. QED
    BY <1>1, <1>12, <2>1 DEF WalkInv, Descend, Look, ClaimsWitnessed, Explaining
<1>13. CASE LeafDenied
  <2>1. PICK tag \in Claims.denied : DescribeEaccesFile(req.sc, i) = Answer(tag, i)
    BY DEF DescribeEaccesFile, Claims
  <2>2. Fact("denied", i, {}) \in witnessed
    BY <1>13 DEF WalkInv, LeafDenied, Look, Explaining
  <2>3. ClaimsWitnessed'
    BY <1>13, <2>1, <2>2, AssertsOfTag DEF LeafDenied, ClaimsWitnessed
  <2>4. QED
    BY <1>1, <1>13, <2>3
    DEF WalkInv, LeafDenied, Look, Explaining, walk, DescribeEaccesFile
<1>14. CASE LeafUnexplained
  <2>1. Asserts(NoAnswer) = {}
    BY AssertsOfTag DEF Claims, NoAnswer
  <2>2. QED
    BY <1>1, <1>14, <2>1, ReturnKeepsInv DEF LeafUnexplained, Look, Explaining, walk
<1>15. CASE ShowParent
  <2>1. CASE prev # 0 /\ Lstat(fs, prev) = "ok"
    <3> DEFINE a == [answer EXCEPT !.shown = TRUE, !.perm = Mode(fs[prev])]
    <3>1. prev \in (1 .. req.n) \ {req.n} /\ Truths(fs, req.n) \subseteq witnessed
      BY <1>15, <2>1, PathFSAssumption
      DEF WalkInv, TypeOK, Index, ShowParent, Explaining
    <3>2. Fact("mode", prev, Mode(fs[prev])) \in witnessed
      BY <2>1, <3>1 DEF Truths
    <3>3. answer.at - 1 = prev /\ answer.shown = FALSE
      BY <1>15 DEF WalkInv, ShowParent, DescribeEaccesFile, Answer
    <3>4. Asserts(a) = Asserts(answer) \cup {Fact("mode", prev, Mode(fs[prev]))}
      BY <1>15, <3>3 DEF WalkInv, ShowParent, DescribeEaccesFile, Answer, Asserts
    <3>5. Asserts(a) \subseteq witnessed
      BY <3>2, <3>4 DEF WalkInv, ClaimsWitnessed
    <3>6. QED
      BY <1>1, <1>15, <2>1, <3>5, ReturnKeepsInv DEF ShowParent, Explaining, walk
  <2>2. CASE ~(prev # 0 /\ Lstat(fs, prev) = "ok")
    BY <1>1, <1>15, <2>2, ReturnKeepsInv
    DEF ShowParent, WalkInv, ClaimsWitnessed, Explaining, walk
  <2>3. QED
    BY <2>1, <2>2
<1>16. CASE HandleSignal
  BY <1>1, <1>16 DEF WalkInv, HandleSignal, ClaimsWitnessed, Explaining, walk
<1>17. QED
  BY <1>2, <1>3, <1>4, <1>5, <1>6, <1>7, <1>8, <1>9, <1>10, <1>11, <1>12,
     <1>13, <1>14, <1>15, <1>16 DEF Next, Explain, Walk

LEMMA WalkInvInit == ASSUME Init PROVE WalkInv
<1>1. TypeOK /\ answer = NoAnswer
  BY TypeInit DEF Init
<1>2. ClaimsWitnessed
  BY <1>1, AssertsOfTag DEF ClaimsWitnessed, NoAnswer, Claims
<1>3. QED
  BY <1>1, <1>2 DEF Init, WalkInv, Explaining, NoCall

\* The invariant holds whatever the scheduling.
THEOREM WalkInvariant == Safety => []WalkInv
<1>1. Init => WalkInv
  BY WalkInvInit
<1>2. WalkInv /\ [Next]_vars => WalkInv'
  BY WalkInvStep
<1>3. QED
  BY <1>1, <1>2, PTL DEF Safety

\* Every assertion of an explanation was true while it was being made, for
\* paths of any length and any number of changes.
THEOREM ClaimsTrue == Spec => []ClaimsWitnessed
<1>1. WalkInv => ClaimsWitnessed
  BY DEF WalkInv
<1>2. QED
  BY <1>1, WalkInvariant, PTL DEF Spec

(***************************************************************************)
(* The walk implements PromptExplanation.                                  *)
(***************************************************************************)

\* A step of the walk is a step of the promise, or none.
LEMMA PromiseStep ==
  ASSUME WalkInv, WalkInv', [Next]_vars
  PROVE  [Promise!Next]_(Promise!promise)
<1> USE DEF Promise!promise
<1>1. CASE UNCHANGED vars
  BY <1>1 DEF vars, Explaining
<1>2. witnessed' \in SUBSET Facts /\ witnessed \in SUBSET Facts
  BY DEF WalkInv, TypeOK
<1>3. ASSUME NEW a, Return(a), Explaining
      PROVE  Promise!Give
  BY <1>3 DEF WalkInv, ClaimsWitnessed, Promise!Give, Return, Explaining
<1>4. ASSUME NEW sc \in Calls, NEW n \in Index,
             NEW err \in OtherErrnos \cup {SyscallErrno(fs, sc, n)},
             Fail(sc, n, err)
      PROVE  Promise!Ask
  BY <1>2, <1>4 DEF Fail, Promise!Ask, Explaining
<1>5. ASSUME Change, Explaining PROVE Promise!Observe
  BY <1>2, <1>5 DEF Change, Promise!Observe, Explaining
<1>6. ASSUME Change, ~Explaining PROVE UNCHANGED Promise!promise
  BY <1>6 DEF Change, Explaining
<1>7. ASSUME Resume PROVE Promise!Forget
  BY <1>7 DEF Resume, Promise!Forget, Explaining
<1>8. ASSUME NEW root \in BOOLEAN, ExplainOther(root) PROVE Promise!Give
  BY <1>3, <1>8 DEF ExplainOther, Explaining
<1>9. ASSUME NEW root \in BOOLEAN, ExplainNonRoot(root) PROVE Promise!Give
  <2>1. CASE pc' = "faulted" /\ UNCHANGED <<fs, req, answer, changes, witnessed>>
    BY <1>9, <2>1 DEF ExplainNonRoot, Promise!Give, Explaining
  <2>2. QED
    BY <1>3, <1>9, <2>1 DEF ExplainNonRoot, Explaining
<1>10. ASSUME NEW root \in BOOLEAN, NEW l \in LimitAnswers, EnterPath(root, l)
       PROVE  Promise!Give \/ UNCHANGED Promise!promise
  <2>1. CASE pc' = "walk" /\ UNCHANGED <<fs, req, answer, changes, witnessed>>
    BY <1>10, <2>1 DEF EnterPath, Explaining
  <2>2. QED
    BY <1>3, <1>10, <2>1 DEF EnterPath, Explaining
<1>11. ASSUME LongName \/ LookFails \/ NotDirectory \/ LeafUnexplained \/ ShowParent
       PROVE  Promise!Give
  BY <1>3, <1>11
  DEF LongName, LookFails, NotDirectory, LeafUnexplained, ShowParent, Look, Explaining
<1>12. ASSUME Descend \/ LeafDenied PROVE UNCHANGED Promise!promise
  BY <1>12 DEF Descend, LeafDenied, Look, Explaining
<1>13. ASSUME HandleSignal PROVE Promise!Give
  BY <1>13 DEF WalkInv, HandleSignal, Promise!Give, Explaining
<1>14. QED
  BY <1>1, <1>4, <1>5, <1>6, <1>7, <1>8, <1>9, <1>10, <1>11, <1>12, <1>13
  DEF Next, Explain, Walk, Promise!Next

\* It keeps the promise whatever the scheduling.
LEMMA WalkImplements == Safety => KeepsPromise
<1>1. Init => Promise!Init
  BY DEF Init, Promise!Init, Explaining
<1>2. WalkInv /\ WalkInv' /\ [Next]_vars => [Promise!Next]_(Promise!promise)
  BY PromiseStep
<1>3. QED
  BY <1>1, <1>2, WalkInvariant, PTL DEF Safety, KeepsPromise, Promise!Spec

\* The walk of path.c keeps the promise of PromptExplanation.
THEOREM Implements == Spec => KeepsPromise
  BY WalkImplements, PTL DEF Spec

(***************************************************************************)
(* The walk comes to an end.                                               *)
(***************************************************************************)

\* A step of an explanation takes it nearer to its end, or changes the path.
LEMMA StepShortens ==
  ASSUME WalkInv, Explaining, [Next]_vars, vars' # vars
  PROVE  IF fs' = fs THEN StepsLeft' < StepsLeft ELSE StepsLeft' = StepsLeft
<1>1. req.n \in Nat /\ req.n >= 1 /\ i \in Nat /\ i <= req.n
  BY PathFSAssumption DEF WalkInv, TypeOK, Index
<1>2. StepsLeft \in Nat /\ StepsLeft > 0
  BY <1>1 DEF StepsLeft, Explaining
<1>3. ASSUME pc' \notin {"failed", "walk", "parent"} PROVE StepsLeft' = 0
  BY <1>3 DEF StepsLeft
<1>4. ASSUME NEW a, Return(a) PROVE fs' = fs /\ StepsLeft' < StepsLeft
  BY <1>2, <1>3, <1>4 DEF Return
<1>5. CASE \E sc \in Calls, n \in Index :
             \E err \in OtherErrnos \cup {SyscallErrno(fs, sc, n)} : Fail(sc, n, err)
  BY <1>5 DEF Fail, Explaining
<1>6. CASE Resume
  BY <1>6 DEF Resume, Explaining
<1>7. CASE Change
  <2>1. fs' # fs /\ pc' = pc /\ req' = req /\ i' = i
    BY <1>7 DEF Change, walk
  <2>2. QED
    BY <2>1 DEF StepsLeft
<1>8. CASE HandleSignal
  BY <1>2, <1>3, <1>8 DEF HandleSignal
<1>9. ASSUME NEW root \in BOOLEAN, ExplainOther(root) \/ ExplainNonRoot(root)
      PROVE  fs' = fs /\ StepsLeft' < StepsLeft
  BY <1>2, <1>3, <1>4, <1>9 DEF ExplainOther, ExplainNonRoot
<1>10. ASSUME NEW root \in BOOLEAN, NEW l \in LimitAnswers, EnterPath(root, l)
       PROVE  fs' = fs /\ StepsLeft' < StepsLeft
  <2>1. CASE pc' = "walk" /\ UNCHANGED <<fs, req, answer, changes, witnessed>>
    <3>1. pc = "failed" /\ i' = i
      BY <1>10 DEF EnterPath
    <3>2. StepsLeft = req.n + 2 /\ StepsLeft' = req.n - i + 2
      BY <2>1, <3>1 DEF StepsLeft
    <3>3. i = 1
      BY <3>1 DEF WalkInv
    <3>4. QED
      BY <1>1, <2>1, <3>2, <3>3
  <2>2. QED
    BY <1>4, <1>10, <2>1 DEF EnterPath
<1>11. CASE LongName \/ LookFails \/ NotDirectory \/ LeafUnexplained \/ ShowParent
  BY <1>4, <1>11 DEF LongName, LookFails, NotDirectory, LeafUnexplained, ShowParent
<1>12. CASE Descend
  <2>1. pc = "walk" /\ pc' = "walk" /\ i' = i + 1 /\ req' = req /\ fs' = fs
    BY <1>12 DEF Descend, Look
  <2>2. StepsLeft = req.n - i + 2 /\ StepsLeft' = req.n - (i + 1) + 2
    BY <2>1 DEF StepsLeft
  <2>3. QED
    BY <1>1, <2>1, <2>2
<1>13. CASE LeafDenied
  <2>1. pc = "walk" /\ pc' = "parent" /\ fs' = fs
    BY <1>13 DEF LeafDenied, Look
  <2>2. StepsLeft = req.n - i + 2 /\ StepsLeft' = 1
    BY <2>1 DEF StepsLeft
  <2>3. QED
    BY <1>1, <2>1, <2>2
<1>14. QED
  BY <1>5, <1>6, <1>7, <1>8, <1>9, <1>10, <1>11, <1>12, <1>13 DEF Next, Explain, Walk

\* Every step of the walk shortens it and no change lengthens it, for paths of
\* any length: the safety half of that an explanation returns.
THEOREM AlwaysShortens == Spec => WalkShortens
<1>1. WalkInv /\ [Next]_vars =>
        [Explaining => IF fs' = fs THEN StepsLeft' < StepsLeft ELSE StepsLeft' = StepsLeft]_vars
  BY StepShortens
<1>2. QED
  BY <1>1, WalkInvariant, PTL DEF Spec, Safety, WalkShortens

(***************************************************************************)
(* The component that is named is the first at which the path goes wrong.  *)
(***************************************************************************)

\* The prefixes before k are there and lead onwards.
LeadsTo(k) ==
  \A h \in 1 .. k - 1 : Lstat(fs, h) = "ok" /\ (fs[h].link \/ fs[h].type = "dir")

\* The walk has seen that what is before i leads to it.
PrefixInv ==
  /\ WalkInv
  /\ pc \in {"walk", "parent"} /\ changes = 0 => LeadsTo(i)
  /\ FirstFaultNamed

\* An explanation of components[i] may be returned.
LEMMA ReturnKeepsPrefix ==
  ASSUME PrefixInv, WalkInv', pc \in {"walk", "parent"}, NEW a, Return(a),
         a.at = i \/ a.tag = "none"
  PROVE  PrefixInv'
<1>1. ASSUME changes = 0, a.at = i PROVE LeadsTo(answer.at)'
  BY <1>1 DEF PrefixInv, LeadsTo, Return
<1>2. FirstFaultNamed'
  BY <1>1 DEF FirstFaultNamed, Undisturbed, Answered, Return, LeadsTo
<1>3. QED
  BY <1>2 DEF PrefixInv, Return

LEMMA PrefixInvStep ==
  ASSUME PrefixInv, [Next]_vars
  PROVE  PrefixInv'
<1>1. WalkInv'
  BY WalkInvStep DEF PrefixInv
<1> USE DEF FirstFaultNamed, Undisturbed, Answered
<1>2. CASE UNCHANGED vars
  BY <1>1, <1>2 DEF PrefixInv, vars, LeadsTo
<1>3. ASSUME NEW sc \in Calls, NEW n \in Index,
             NEW err \in OtherErrnos \cup {SyscallErrno(fs, sc, n)},
             Fail(sc, n, err)
      PROVE  PrefixInv'
  BY <1>1, <1>3 DEF PrefixInv, Fail
<1>4. CASE Change
  <2>1. changes' # 0 \/ pc' = "idle"
    BY <1>4, ExplainPathAssumption DEF Change, PrefixInv, WalkInv, TypeOK
  <2>2. QED
    BY <1>1, <1>4, <2>1 DEF PrefixInv, Change
<1>5. CASE Resume
  BY <1>1, <1>5 DEF PrefixInv, Resume
<1>6. ASSUME NEW root \in BOOLEAN, ExplainOther(root) PROVE PrefixInv'
  <2>1. ~GoesToPath(req.sc, req.err, TRUE)
    BY <1>6 DEF ExplainOther, GoesToPath, NonRootEperm
  <2>2. QED
    BY <1>1, <1>6, <2>1 DEF PrefixInv, ExplainOther, Return
<1>7. ASSUME NEW root \in BOOLEAN, ExplainNonRoot(root) PROVE PrefixInv'
  <2>1. CASE Return(Answer("nonroot", 0))
    BY <1>1, <2>1 DEF PrefixInv, Return, Answer
  <2>2. CASE pc' = "faulted"
    BY <1>1, <2>2 DEF PrefixInv
  <2>3. QED
    BY <1>7, <2>1, <2>2 DEF ExplainNonRoot
<1>8. ASSUME NEW root \in BOOLEAN, NEW l \in LimitAnswers, EnterPath(root, l)
      PROVE  PrefixInv'
  <2>1. i' = 1
    BY <1>8 DEF PrefixInv, WalkInv, EnterPath
  <2>2. CASE Return(Answer("path_too_long", req.n))
    BY <1>1, <2>2 DEF PrefixInv, Return, Answer
  <2>3. CASE pc' = "walk" /\ UNCHANGED <<fs, req, answer, changes, witnessed>>
    BY <1>1, <2>1, <2>3 DEF PrefixInv, LeadsTo
  <2>4. QED
    BY <1>8, <2>2, <2>3 DEF EnterPath
<1>9. CASE LongName
  BY <1>1, <1>9, ReturnKeepsPrefix DEF LongName, Answer
<1>10. CASE LookFails
  <2>1. PICK res : pc = "walk" /\ Return(DescribeLstat(res))
    BY <1>10 DEF LookFails, Look
  <2>2. DescribeLstat(res).at = i \/ DescribeLstat(res).tag = "none"
    BY DEF DescribeLstat, DescribeEaccesFile, NoAnswer, Answer
  <2>3. QED
    BY <1>1, <2>1, <2>2, ReturnKeepsPrefix
<1>11. CASE NotDirectory
  BY <1>1, <1>11, ReturnKeepsPrefix DEF NotDirectory, Look, Answer
<1>12. CASE Descend
  <2>1. i \in Nat /\ i' = i + 1 /\ pc = "walk" /\ pc' = "walk" /\ fs' = fs
    BY <1>12, PathFSAssumption
    DEF PrefixInv, WalkInv, TypeOK, Index, Descend, Look
  <2>2. ASSUME changes' = 0 PROVE LeadsTo(i)'
    <3>1. LeadsTo(i)
      BY <1>12, <2>1, <2>2 DEF PrefixInv, Descend
    <3>2. \A h \in 1 .. i' - 1 : h \in 1 .. i - 1 \/ h = i
      BY <2>1
    <3>3. QED
      BY <1>12, <2>1, <3>1, <3>2 DEF LeadsTo, Descend, Look
  <2>3. QED
    BY <1>1, <2>1, <2>2 DEF PrefixInv
<1>13. CASE LeafDenied
  BY <1>1, <1>13 DEF PrefixInv, LeafDenied, Look, walk, LeadsTo
<1>14. CASE LeafUnexplained
  BY <1>1, <1>14, ReturnKeepsPrefix DEF LeafUnexplained, Look, NoAnswer, Answer
<1>15. CASE ShowParent
  <2>1. answer.at = i
    BY <1>15 DEF PrefixInv, WalkInv, ShowParent, DescribeEaccesFile, Answer
  <2>2. [answer EXCEPT !.shown = TRUE, !.perm = Mode(fs[prev])].at = i
    BY <1>15, <2>1 DEF PrefixInv, WalkInv, ShowParent, DescribeEaccesFile, Answer
  <2>3. QED
    BY <1>1, <1>15, <2>1, <2>2, ReturnKeepsPrefix DEF ShowParent
<1>16. CASE HandleSignal
  BY <1>1, <1>16 DEF PrefixInv, HandleSignal
<1>17. QED
  BY <1>2, <1>3, <1>4, <1>5, <1>6, <1>7, <1>8, <1>9, <1>10, <1>11, <1>12,
     <1>13, <1>14, <1>15, <1>16 DEF Next, Explain, Walk

\* If nobody changes the path, the component named is the first at fault.
THEOREM FirstFaultIsNamed == Spec => []FirstFaultNamed
<1>1. Init => PrefixInv
  BY WalkInvInit DEF Init, PrefixInv, FirstFaultNamed, Undisturbed
<1>2. PrefixInv /\ [Next]_vars => PrefixInv'
  BY PrefixInvStep
<1>3. PrefixInv => FirstFaultNamed
  BY DEF PrefixInv
<1>4. QED
  BY <1>1, <1>2, <1>3, PTL DEF Spec, Safety

(***************************************************************************)
(* A length that is complained of really is over the limit.                *)
(***************************************************************************)

\* The limits the walk works with are answers, or those it starts from.
LengthInv ==
  /\ TypeOK
  /\ lim \in LimitAnswers \cup {FsLimits}
  /\ LengthClaimsHold

\* What is longer than a limit kept in an unsigned long is longer than it.
LEMMA UnsignedLimit ==
  ASSUME NEW W \in Nat \ {0}, NEW max \in 0 .. W - 1, NEW len \in 0 .. W - 1,
         NEW x \in {-1, max}, len > x % W
  PROVE  len > max
<1>1. CASE x = -1
  <2>1. (-1) % W = W - 1
    OBVIOUS
  <2>2. QED
    BY <1>1, <2>1
<1>2. CASE x = max
  <2>1. max % W = max
    OBVIOUS
  <2>2. QED
    BY <1>2, <2>1
<1>3. QED
  BY <1>1, <1>2
LEMMA LengthStep ==
  ASSUME LimitsHonest, LengthInv, [Next]_vars
  PROVE  LengthInv'
<1> USE DEF LengthClaimsHold
<1>1. TypeOK'
  BY TypeStep DEF LengthInv
<1>2. /\ lim.name_max \in {-1, FsLimits.name_max}
      /\ \A l \in LimitAnswers : l.path_max \in {-1, FsLimits.path_max}
  BY DEF LimitsHonest, LengthInv
<1>3. /\ FsLimits.name_max \in 0 .. WordSize - 1
      /\ FsLimits.path_max \in 0 .. WordSize - 1
      /\ \A k \in Index : /\ NameLen[k] \in 0 .. WordSize - 1
                          /\ RawLen[k] \in 0 .. WordSize - 1
  <2>1. \A k \in Index : NameLen[k] \in Nat /\ RawLen[k] \in Nat
    BY PathFSAssumption
  <2>2. QED
    BY <2>1, ExplainPathAssumption DEF LimitsHonest
<1>4. CASE UNCHANGED vars
  BY <1>1, <1>4 DEF LengthInv, vars
<1>5. ASSUME NEW a, Return(a), lim' = lim,
             a.tag \notin {"name_too_long", "path_too_long"}
      PROVE  LengthInv'
  BY <1>1, <1>5 DEF LengthInv, Return
<1>6. ASSUME NEW a, a.tag = answer.tag, a.at = answer.at, Return(a), lim' = lim
      PROVE  LengthInv'
  BY <1>1, <1>6 DEF LengthInv, Return
<1>7. ASSUME answer' = answer, lim' = lim PROVE LengthInv'
  BY <1>1, <1>7 DEF LengthInv
<1>8. CASE Resume
  BY <1>1, <1>8 DEF LengthInv, Resume, NoAnswer, Answer
<1>9. ASSUME NEW root \in BOOLEAN, ExplainOther(root) PROVE LengthInv'
  <2>1. DescribeOther(req.sc, req.err) \notin {"name_too_long", "path_too_long"}
    BY DEF DescribeOther, DescribeGeneric, GenericErrnos
  <2>2. QED
    BY <1>5, <1>9, <2>1 DEF ExplainOther, Answer, walk
<1>10. ASSUME NEW root \in BOOLEAN, ExplainNonRoot(root) PROVE LengthInv'
  BY <1>5, <1>7, <1>10 DEF ExplainNonRoot, Answer, walk
<1>11. ASSUME NEW root \in BOOLEAN, NEW l \in LimitAnswers, EnterPath(root, l)
       PROVE  LengthInv'
  <2>1. CASE ~PathTooLong(req.n, l)
    BY <1>1, <1>11, <2>1 DEF LengthInv, EnterPath
  <2>2. CASE PathTooLong(req.n, l)
    <3>1. req.n \in Index
      BY DEF LengthInv, TypeOK
    <3>2. RawLen[req.n] > FsLimits.path_max
      BY <1>2, <1>3, <2>2, <3>1, UnsignedLimit, ExplainPathAssumption
      DEF PathTooLong, Unsigned
    <3>3. QED
      BY <1>1, <1>11, <3>2 DEF LengthInv, EnterPath, Return, Answer
  <2>3. QED
    BY <2>1, <2>2
<1>12. CASE LongName
  <2>1. i \in Index
    BY DEF LengthInv, TypeOK
  <2>2. NameLen[i] > FsLimits.name_max
    BY <1>2, <1>3, <1>12, <2>1, UnsignedLimit, ExplainPathAssumption
    DEF LongName, NameTooLong, Unsigned
  <2>3. QED
    BY <1>1, <1>12, <2>2 DEF LengthInv, LongName, Return, Answer, walk
<1>13. CASE LookFails
  <2>1. PICK res : Return(DescribeLstat(res)) /\ UNCHANGED walk
    BY <1>13 DEF LookFails
  <2>2. DescribeLstat(res).tag \notin {"name_too_long", "path_too_long"}
    BY DEF DescribeLstat, DescribeEaccesFile, NoAnswer, Answer
  <2>3. QED
    BY <1>5, <2>1, <2>2 DEF walk
<1>14. CASE NotDirectory \/ LeafUnexplained
  BY <1>5, <1>14 DEF NotDirectory, LeafUnexplained, NoAnswer, Answer, walk
<1>15. CASE LeafDenied
  <2>1. DescribeEaccesFile(req.sc, i).tag \notin {"name_too_long", "path_too_long"}
    BY DEF DescribeEaccesFile, Answer
  <2>2. QED
    BY <1>1, <1>15, <2>1 DEF LengthInv, LeafDenied, walk
<1>16. CASE ShowParent
  <2>1. answer \in Answers
    BY DEF LengthInv, TypeOK
  <2>2. QED
    BY <1>6, <1>16, <2>1 DEF ShowParent, Answers, walk
<1>17. CASE Change \/ Descend \/ HandleSignal
  BY <1>7, <1>17 DEF Change, Descend, HandleSignal, walk
<1>18. ASSUME NEW sc \in Calls, NEW n \in Index,
              NEW err \in OtherErrnos \cup {SyscallErrno(fs, sc, n)},
              Fail(sc, n, err)
       PROVE  LengthInv'
  BY <1>7, <1>18 DEF Fail, walk
<1>19. QED
  BY <1>4, <1>8, <1>9, <1>10, <1>11, <1>12, <1>13, <1>14, <1>15, <1>16,
     <1>17, <1>18 DEF Next, Explain, Walk

\* If pathconf(3) tells the limits of the path's file system or nothing, a
\* length the explanation complains of is over the limit, for any word size.
THEOREM LengthsAreOver ==
  ASSUME LimitsHonest
  PROVE  Spec => []LengthClaimsHold
<1>1. Init => LengthInv
  BY TypeInit DEF Init, LengthInv, LengthClaimsHold, NoAnswer, Answer
<1>2. LengthInv /\ [Next]_vars => LengthInv'
  BY LengthStep
<1>3. LengthInv => LengthClaimsHold
  BY DEF LengthInv
<1>4. QED
  BY <1>1, <1>2, <1>3, PTL DEF Spec, Safety
=============================================================================
