------------------------ MODULE ExplainSessionProofs ------------------------
(***************************************************************************)
(* Proofs about a session, for any directories, any number of attempts to  *)
(* confine it and any answers of pathconf(3): it explains as ExplainPath   *)
(* says, so that what is proved of the walk holds of the session, and the  *)
(* lengths it complains of are over a limit that somebody has told it.     *)
(***************************************************************************)
EXTENDS ExplainSession, ExplainReasonProofs

Stored == Elsewhere \cup {FsLimits, Untold, Platform!Unset}

(***************************************************************************)
(* The walk is ready for whatever the getters can answer for its path.     *)
(***************************************************************************)
AnswersCovered ==
  \A a \in Stored, b \in {FsLimits, Untold} :
    [f \in Platform!Fields |-> IF a[f] > 0 THEN a[f] ELSE b[f]] \in LimitAnswers

(***************************************************************************)
(* What is stored is what was told of the last directory announced.        *)
(***************************************************************************)
SessInv ==
  /\ WalkInv
  /\ dir \in Elsewhere
  /\ sess = told /\ told \in Stored
  /\ stage \in {"forked", "session", "chroot"}
  /\ stage # "forked" => listening
  /\ stage = "forked" => told = Platform!Unset
  /\ target \in 0 .. MaxN \cup {-2}
  /\ stage = "chroot" => target # -2
  /\ rootdir \in -1 .. MaxN

\* pathconf(3) of a path that is walked tells its limits, or what can be told
\* without looking it up.
LEMMA PathconfTells ==
  ASSUME SessInv
  PROVE  /\ \A n \in Index : Pathconf[rootdir][n] \in {FsLimits, Untold}
         /\ \A n \in 0 .. MaxN : Pathconf[rootdir][n] \in Stored
<1>1. MaxN \in Nat
  BY PathFSAssumption
<1>2. \A n \in 0 .. MaxN : Pathconf[rootdir][n] =
        IF n = 0 THEN dir ELSE IF Found(fs, n) THEN FsLimits ELSE Untold
  BY DEF Pathconf, SessInv
<1>3. QED
  BY <1>1, <1>2 DEF Index, Stored, SessInv

\* The getters answer with something the walk is ready for.
LEMMA GettersCovered ==
  ASSUME AnswersCovered, SessInv, NEW n \in Index
  PROVE  Getters(n) \in LimitAnswers
<1>1. sess \in Stored /\ Pathconf[rootdir][n] \in {FsLimits, Untold}
  BY PathconfTells DEF SessInv
<1>2. Getters(n) = [f \in Platform!Fields |->
                      IF sess[f] > 0 THEN sess[f] ELSE Pathconf[rootdir][n][f]]
  BY DEF Getters, Platform!Limit
<1>3. QED
  BY <1>1, <1>2 DEF AnswersCovered

\* A step of the session is a step of the walk, or none.
LEMMA StepOfWalk ==
  ASSUME AnswersCovered, SessInv, [SessionNext]_sessionVars
  PROVE  [Next]_vars
<1>1. req.n \in Index
  BY DEF SessInv, WalkInv, TypeOK
<1>2. ASSUME InitLimits \/ ChrootSucceeds \/ \E path \in 0 .. MaxN : Announce(path)
      PROVE  UNCHANGED vars
  BY <1>2 DEF InitLimits, ChrootSucceeds, Announce
<1>3. ASSUME NEW sc \in Calls, NEW n \in Index,
             NEW err \in OtherErrnos \cup {SyscallErrno(fs, sc, n)},
             CallFails(sc, n, err) \/ (sc = "chroot" /\ target \in {0, n} /\ ChrootFails(err))
      PROVE  [Next]_vars
  <2>1. CASE CallFails(sc, n, err)
    BY <1>3, <2>1 DEF CallFails, Next
  <2>2. CASE sc = "chroot" /\ target = n /\ ChrootFails(err)
    BY <1>3, <2>2 DEF ChrootFails, Next
  <2>3. CASE target = 0 /\ ChrootFails(err)
    BY <2>3 DEF ChrootFails
  <2>4. QED
    BY <1>3, <2>1, <2>2, <2>3
<1>4. CASE SessionExplain
  <2>1. Explain
    BY <1>1, <1>4, GettersCovered DEF SessionExplain, Explain
  <2>2. QED
    BY <2>1 DEF Next
<1>5. CASE SessionChange
  BY <1>5 DEF SessionChange, Next
<1>6. CASE HandleSignal \/ SessionResume
  BY <1>6 DEF SessionResume, Next
<1>7. CASE UNCHANGED sessionVars
  BY <1>7 DEF sessionVars
<1>8. QED
  BY <1>2, <1>3, <1>4, <1>5, <1>6, <1>7 DEF SessionNext

LEMMA SessInvInit == ASSUME SessionInit PROVE SessInv
<1>1. MaxN \in Nat
  BY PathFSAssumption
<1>2. WalkInv
  BY WalkInvInit DEF SessionInit
<1>3. QED
  BY <1>1, <1>2 DEF SessionInit, SessInv, Stored

LEMMA SessInvStep ==
  ASSUME AnswersCovered, SessInv, [SessionNext]_sessionVars
  PROVE  SessInv'
<1>1. WalkInv'
  BY StepOfWalk, WalkInvStep DEF SessInv
<1>2. CASE UNCHANGED sessionVars
  BY <1>1, <1>2 DEF SessInv, sessionVars, platform
<1>3. CASE InitLimits
  BY <1>1, <1>3 DEF SessInv, InitLimits, Platform!explain_platform_init
<1>4. ASSUME NEW path \in 0 .. MaxN, Announce(path) PROVE SessInv'
  <2>1. /\ told' = Pathconf[rootdir][path] /\ sess' = told'
        /\ target' = path /\ stage' = "chroot" /\ listening
        /\ UNCHANGED <<dir, rootdir, listening>>
    BY <1>4 DEF SessInv, Announce, Platform!AnnounceChroot,
                Platform!explain_platform_chroot_ev
  <2>2. told' \in Stored
    BY <2>1, PathconfTells
  <2>3. path # -2
    BY PathFSAssumption
  <2>4. QED
    BY <1>1, <2>1, <2>2, <2>3 DEF SessInv, Stored
<1>5. CASE ChrootSucceeds
  <2>1. target \in -1 .. MaxN
    BY <1>5, PathFSAssumption DEF SessInv, ChrootSucceeds, Platform!ChrootSucceeds
  <2>2. QED
    BY <1>1, <1>5, <2>1 DEF SessInv, ChrootSucceeds, Platform!ChrootSucceeds
<1>6. CASE SessionChange
  BY <1>1, <1>6 DEF SessInv, SessionChange
<1>7. ASSUME UNCHANGED platform PROVE SessInv'
  BY <1>1, <1>7 DEF SessInv, platform
<1>8. ASSUME NEW sc \in Calls, NEW n \in Index,
             NEW err \in OtherErrnos \cup {SyscallErrno(fs, sc, n)},
             CallFails(sc, n, err) \/ (sc = "chroot" /\ target \in {0, n} /\ ChrootFails(err))
      PROVE  SessInv'
  <2>1. CASE CallFails(sc, n, err)
    BY <1>7, <2>1 DEF CallFails
  <2>2. CASE ChrootFails(err)
    BY <1>1, <2>2 DEF SessInv, ChrootFails, Platform!ChrootFails
  <2>3. QED
    BY <1>8, <2>1, <2>2
<1>9. CASE SessionExplain \/ SessionResume
  BY <1>7, <1>9 DEF SessionExplain, SessionResume
<1>10. QED
  BY <1>2, <1>3, <1>4, <1>5, <1>6, <1>7, <1>8, <1>9 DEF SessionNext

LEMMA SessionInvariant ==
  ASSUME AnswersCovered
  PROVE  SessionSafety => []SessInv
<1>1. SessionInit => SessInv
  BY SessInvInit
<1>2. SessInv /\ [SessionNext]_sessionVars => SessInv'
  BY SessInvStep
<1>3. QED
  BY <1>1, <1>2, PTL DEF SessionSafety

\* A session explains as ExplainPath says: each of its steps is one of the
\* walk, or none.  Fairness is left to the model checker.
THEOREM ExplainsAsTheWalk ==
  ASSUME AnswersCovered
  PROVE  SessionSpec => Safety
<1>1. SessionInit => Init
  BY DEF SessionInit
<1>2. SessInv /\ [SessionNext]_sessionVars => [Next]_vars
  BY StepOfWalk
<1>3. QED
  BY <1>1, <1>2, SessionInvariant, PTL DEF SessionSpec, SessionSafety, Safety

\* Whatever limits a session has stored, what it asserts of a path was true
\* while the explanation was being made.
THEOREM SessionClaimsTrue ==
  ASSUME AnswersCovered
  PROVE  SessionSpec => []ClaimsWitnessed
<1>1. WalkInv => ClaimsWitnessed
  BY DEF WalkInv
<1>2. QED
  BY <1>1, ExplainsAsTheWalk, WalkInvariant, PTL

\* A session keeps the promise of PromptExplanation.
THEOREM SessionImplements ==
  ASSUME AnswersCovered
  PROVE  SessionSpec => KeepsPromise
BY ExplainsAsTheWalk, WalkImplements, PTL

(***************************************************************************)
(* Lengths.  A limit is unknown, or something an unsigned long holds, and  *)
(* a path that cannot be looked up has no limits of its own.               *)
(***************************************************************************)
Lengths == {"name_max", "path_max"}

LimitsPlain ==
  /\ \A k \in Index : NameLen[k] < WordSize /\ RawLen[k] < WordSize
  /\ \A l \in Elsewhere \cup {FsLimits}, f \in Lengths :
       l[f] = -1 \/ l[f] \in 1 .. WordSize - 1
  /\ \A f \in Lengths : Untold[f] \in {-1, FsLimits[f]}

\* A limit somebody has told, or none.
Heard(l) == \A f \in Lengths : l[f] \in {-1, FsLimits[f], told[f]}

LengthsInv ==
  /\ SessInv
  /\ pc = "walk" => Heard(lim)
  /\ LengthOverKnownLimit

\* What is longer than a limit that was heard of is longer than one known.
LEMMA HeardLimit ==
  ASSUME LimitsPlain, told \in Stored, NEW f \in Lengths,
         NEW x \in {-1, FsLimits[f], told[f]},
         NEW len \in Nat, len < WordSize, len > Unsigned(x)
  PROVE  \E l \in {FsLimits, told} : l[f] > 0 /\ len > l[f]
<1>1. WordSize \in Nat \ {0}
  BY ExplainPathAssumption
<1>2. x # -1
  <2>1. (-1) % WordSize = WordSize - 1
    BY <1>1
  <2>2. QED
    BY <1>1, <2>1 DEF Unsigned
<1>3. x \in 1 .. WordSize - 1
  <2>1. FsLimits[f] = -1 \/ FsLimits[f] \in 1 .. WordSize - 1
    BY DEF LimitsPlain
  <2>2. told[f] = -1 \/ told[f] = FsLimits[f] \/ told[f] \in 1 .. WordSize - 1
    <3>1. CASE told = Platform!Unset
      BY <3>1 DEF Platform!Unset, Platform!Fields, Lengths
    <3>2. CASE told = Untold
      BY <3>2 DEF LimitsPlain
    <3>3. CASE told \in Elsewhere \cup {FsLimits}
      BY <3>3 DEF LimitsPlain
    <3>4. QED
      BY <3>1, <3>2, <3>3 DEF Stored
  <2>3. QED
    BY <1>2, <2>1, <2>2
<1>4. x % WordSize = x
  BY <1>1, <1>3
<1>5. len > x /\ x > 0
  BY <1>3, <1>4 DEF Unsigned
<1>6. QED
  BY <1>2, <1>5

\* The getters tell what was heard of.
LEMMA GettersHeard ==
  ASSUME LimitsPlain, SessInv, NEW n \in Index
  PROVE  Heard(Getters(n))
<1>1. ASSUME NEW f \in Lengths
      PROVE  Getters(n)[f] \in {-1, FsLimits[f], told[f]}
  <2>1. Getters(n)[f] \in {sess[f], Pathconf[rootdir][n][f]}
    BY DEF Getters, Platform!Limit, Platform!Fields, Lengths
  <2>2. sess[f] = told[f]
    BY DEF SessInv
  <2>3. Pathconf[rootdir][n][f] \in {-1, FsLimits[f]}
    BY PathconfTells DEF LimitsPlain
  <2>4. QED
    BY <2>1, <2>2, <2>3
<1>2. QED
  BY <1>1 DEF Heard

LEMMA LengthsInvStep ==
  ASSUME AnswersCovered, LimitsPlain, LengthsInv, [SessionNext]_sessionVars
  PROVE  LengthsInv'
<1>1. SessInv' /\ SessInv /\ told \in Stored /\ req.n \in Index /\ i \in Index
  BY SessInvStep DEF LengthsInv, SessInv, WalkInv, TypeOK
<1>2. \A k \in Index : NameLen[k] \in Nat /\ RawLen[k] \in Nat
  BY PathFSAssumption
<1>3. pc \in {"idle", "failed", "walk"} => answer.tag = "none"
  BY <1>1 DEF SessInv, WalkInv, NoAnswer, Answer
<1>4. ASSUME answer'.tag \notin {"name_too_long", "path_too_long"}, pc' # "walk"
      PROVE  LengthsInv'
  BY <1>1, <1>4 DEF LengthsInv, LengthOverKnownLimit
<1>5. ASSUME answer' = answer, lim' = lim, told' = told, pc' = "walk" => pc = "walk"
      PROVE  LengthsInv'
  BY <1>1, <1>5 DEF LengthsInv, LengthOverKnownLimit, Heard
<1>6. ASSUME NEW a, Return(a), a.tag \notin {"name_too_long", "path_too_long"}
      PROVE  LengthsInv'
  BY <1>4, <1>6 DEF Return
<1>7. CASE UNCHANGED sessionVars
  BY <1>5, <1>7 DEF sessionVars, vars, platform
<1>8. CASE InitLimits \/ ChrootSucceeds \/ \E path \in 0 .. MaxN : Announce(path)
  <2>1. pc = "idle" /\ pc' = pc /\ answer' = answer
    BY <1>8 DEF InitLimits, ChrootSucceeds, Announce, vars
  <2>2. QED
    BY <1>3, <1>4, <2>1
<1>9. CASE SessionChange
  BY <1>5, <1>9 DEF SessionChange, Change, vars, walk
<1>10. ASSUME NEW sc \in Calls, NEW n \in Index,
              NEW err \in OtherErrnos \cup {SyscallErrno(fs, sc, n)},
              CallFails(sc, n, err) \/ (sc = "chroot" /\ target \in {0, n} /\ ChrootFails(err))
       PROVE  LengthsInv'
  <2>1. CASE CallFails(sc, n, err)
    BY <1>5, <2>1 DEF CallFails, Fail, walk, platform
  <2>2. CASE ChrootFails(err)
    BY <1>5, <2>2 DEF ChrootFails, Platform!ChrootFails, Fail, walk, vars
  <2>3. QED
    BY <1>10, <2>1, <2>2
<1>11. ASSUME UNCHANGED platform, HandleSignal PROVE LengthsInv'
  BY <1>5, <1>11 DEF HandleSignal, walk, platform
<1>12. CASE SessionResume
  BY <1>4, <1>12 DEF SessionResume, Resume, NoAnswer, Answer
<1>13. CASE SessionExplain
  <2>1. told' = told
    BY <1>13 DEF SessionExplain, platform
  <2>2. ASSUME NEW root \in BOOLEAN, ExplainOther(root) PROVE LengthsInv'
    <3>1. DescribeOther(req.sc, req.err) \notin {"name_too_long", "path_too_long"}
      BY DEF DescribeOther, DescribeGeneric, GenericErrnos
    <3>2. QED
      BY <1>6, <2>2, <3>1 DEF ExplainOther, Answer
  <2>3. ASSUME NEW root \in BOOLEAN, ExplainNonRoot(root) PROVE LengthsInv'
    <3>1. CASE Return(Answer("nonroot", 0))
      BY <1>6, <3>1 DEF Answer
    <3>2. QED
      BY <1>5, <2>1, <2>3, <3>1 DEF ExplainNonRoot, walk
  <2>4. ASSUME NEW root \in BOOLEAN, EnterPath(root, Getters(req.n)) PROVE LengthsInv'
    <3> DEFINE l == Getters(req.n)
    <3>1. Heard(l)
      BY <1>1, GettersHeard
    <3>2. CASE Return(Answer("path_too_long", req.n)) /\ PathTooLong(req.n, l)
      <4>1. RawLen[req.n] > Unsigned(l.path_max) /\ l.path_max \in {-1, FsLimits.path_max, told.path_max}
        BY <3>1, <3>2 DEF PathTooLong, Heard, Lengths
      <4>2. \E k \in {FsLimits, told} : k.path_max > 0 /\ RawLen[req.n] > k.path_max
        BY <1>1, <1>2, <4>1, HeardLimit DEF LimitsPlain, Lengths
      <4>3. QED
        BY <1>1, <2>1, <3>2, <4>2 DEF LengthsInv, LengthOverKnownLimit, Return, Answer
    <3>3. CASE pc' = "walk" /\ answer' = answer
      <4>1. answer'.tag = "none" /\ lim' = l
        BY <1>3, <2>4, <3>3 DEF EnterPath
      <4>2. QED
        BY <1>1, <2>1, <3>1, <4>1 DEF LengthsInv, LengthOverKnownLimit, Heard
    <3>4. QED
      BY <2>4, <3>2, <3>3 DEF EnterPath
  <2>5. CASE LongName
    <3>1. /\ pc = "walk" /\ Return(Answer("name_too_long", i))
          /\ NameLen[i] > Unsigned(lim.name_max)
          /\ lim.name_max \in {-1, FsLimits.name_max, told.name_max}
      BY <2>5 DEF LongName, NameTooLong, LengthsInv, Heard, Lengths
    <3>2. \E k \in {FsLimits, told} : k.name_max > 0 /\ NameLen[i] > k.name_max
      BY <1>1, <1>2, <3>1, HeardLimit DEF LimitsPlain, Lengths
    <3>3. QED
      BY <1>1, <2>1, <3>1, <3>2 DEF LengthsInv, LengthOverKnownLimit, Return, Answer
  <2>6. CASE LookFails
    <3>1. PICK res : Return(DescribeLstat(res))
      BY <2>6 DEF LookFails
    <3>2. DescribeLstat(res).tag \notin {"name_too_long", "path_too_long"}
      BY DEF DescribeLstat, DescribeEaccesFile, NoAnswer, Answer
    <3>3. QED
      BY <1>6, <3>1, <3>2
  <2>7. CASE NotDirectory \/ LeafUnexplained
    BY <1>6, <2>7 DEF NotDirectory, LeafUnexplained, NoAnswer, Answer
  <2>8. CASE Descend
    BY <1>5, <2>1, <2>8 DEF Descend, Look
  <2>9. CASE LeafDenied
    <3>1. DescribeEaccesFile(req.sc, i).tag \notin {"name_too_long", "path_too_long"}
      BY DEF DescribeEaccesFile, Answer
    <3>2. QED
      BY <1>4, <2>9, <3>1 DEF LeafDenied
  <2>10. CASE ShowParent
    <3>1. answer'.tag = answer.tag /\ pc' = "answered"
          /\ answer.tag \notin {"name_too_long", "path_too_long"}
      BY <1>1, <2>10
      DEF ShowParent, Return, SessInv, WalkInv, DescribeEaccesFile, Answer
    <3>2. QED
      BY <1>4, <3>1
  <2>11. QED
    BY <1>13, <2>2, <2>3, <2>4, <2>5, <2>6, <2>7, <2>8, <2>9, <2>10
    DEF SessionExplain, Walk
<1>14. QED
  BY <1>7, <1>8, <1>9, <1>10, <1>11, <1>12, <1>13 DEF SessionNext

\* A length a session complains of is over the limit of the path's own file
\* system or over that of the last directory announced, for any number of
\* attempts to confine it and any directories.
THEOREM OnlyKnownLimits ==
  ASSUME AnswersCovered, LimitsPlain
  PROVE  SessionSpec => []LengthOverKnownLimit
<1>1. SessionInit => LengthsInv
  <2>1. SUFFICES ASSUME SessionInit PROVE LengthsInv
    OBVIOUS
  <2>2. pc = "idle" /\ answer.tag = "none"
    BY <2>1 DEF SessionInit, Init, NoAnswer, Answer
  <2>3. QED
    BY <2>1, <2>2, SessInvInit DEF LengthsInv, LengthOverKnownLimit
<1>2. LengthsInv /\ [SessionNext]_sessionVars => LengthsInv'
  BY LengthsInvStep
<1>3. LengthsInv => LengthOverKnownLimit
  BY DEF LengthsInv
<1>4. QED
  BY <1>1, <1>2, <1>3, PTL DEF SessionSpec, SessionSafety

(***************************************************************************)
(* Confinement.  If the limits of the path's file system have been stored, *)
(* all three of them known, it is them the walk works with.                *)
(***************************************************************************)
AllKnown == LimitsKnown /\ FsLimits.name_max > 0 /\ FsLimits.no_trunc > 0

JailInv ==
  /\ SessInv
  /\ pc \in {"walk", "parent"} \/ (pc = "answered" /\ Goes /\ req.err # "EPERM") =>
       (told = FsLimits => lim = FsLimits)
  /\ answer.tag = "nonroot" => req.err = "EPERM"

\* Limits that are stored are preferred to those of the path.
LEMMA StoredPreferred ==
  ASSUME AllKnown, SessInv, told = FsLimits, NEW n \in Index
  PROVE  Getters(n) = FsLimits
<1>1. FsLimits \in [name_max : Int, no_trunc : Int, path_max : Int]
  BY PathFSAssumption DEF Limits
<1>2. Getters(n) = [f \in Platform!Fields |->
                      IF FsLimits[f] > 0 THEN FsLimits[f] ELSE Pathconf[rootdir][n][f]]
  BY DEF Getters, Platform!Limit, SessInv
<1>3. \A f \in {"name_max", "no_trunc", "path_max"} : FsLimits[f] > 0
  BY <1>1 DEF AllKnown, LimitsKnown
<1>4. Getters(n) = [f \in {"name_max", "no_trunc", "path_max"} |-> FsLimits[f]]
  BY <1>2, <1>3 DEF Platform!Fields
<1>5. QED
  BY <1>1, <1>4

LEMMA JailInvStep ==
  ASSUME AnswersCovered, AllKnown, JailInv, [SessionNext]_sessionVars
  PROVE  JailInv'
<1>1. SessInv' /\ SessInv /\ req.n \in Index
  BY SessInvStep DEF JailInv, SessInv, WalkInv, TypeOK
<1>2. pc \in {"idle", "failed", "walk"} => answer.tag = "none"
  BY <1>1 DEF SessInv, WalkInv, NoAnswer, Answer
<1>3. ASSUME pc' \in {"idle", "failed"}, answer'.tag # "nonroot"
      PROVE  JailInv'
  BY <1>1, <1>3 DEF JailInv
<1>4. ASSUME UNCHANGED <<req, lim, told>>, answer' = answer,
             pc' = pc \/ pc = "walk"
      PROVE  JailInv'
  BY <1>1, <1>4 DEF JailInv, Goes
<1>5. ASSUME NEW a, Return(a), UNCHANGED <<lim, told>>, a.tag # "nonroot",
             pc \in {"walk", "parent"}
      PROVE  JailInv'
  BY <1>1, <1>5 DEF JailInv, Return
<1>6. CASE UNCHANGED sessionVars
  BY <1>4, <1>6 DEF sessionVars, vars, platform
<1>7. CASE InitLimits \/ ChrootSucceeds \/ \E path \in 0 .. MaxN : Announce(path)
  <2>1. pc = "idle" /\ pc' = pc /\ answer' = answer
    BY <1>7 DEF InitLimits, ChrootSucceeds, Announce, vars
  <2>2. QED
    BY <1>2, <1>3, <2>1
<1>8. CASE SessionChange
  BY <1>4, <1>8 DEF SessionChange, Change, vars, walk
<1>9. ASSUME NEW sc \in Calls, NEW n \in Index,
             NEW err \in OtherErrnos \cup {SyscallErrno(fs, sc, n)},
             CallFails(sc, n, err) \/ (sc = "chroot" /\ target \in {0, n} /\ ChrootFails(err))
      PROVE  JailInv'
  <2>1. CASE CallFails(sc, n, err)
    BY <1>2, <1>3, <2>1 DEF CallFails, Fail
  <2>2. CASE ChrootFails(err)
    <3>1. pc = "idle" /\ pc' \in {"idle", "failed"} /\ answer' = answer
      BY <2>2 DEF ChrootFails, Fail, vars
    <3>2. QED
      BY <1>2, <1>3, <3>1
  <2>3. QED
    BY <1>9, <2>1, <2>2
<1>10. ASSUME UNCHANGED platform, HandleSignal PROVE JailInv'
  BY <1>4, <1>10 DEF HandleSignal, walk, platform
<1>11. CASE SessionResume
  BY <1>3, <1>11 DEF SessionResume, Resume, NoAnswer, Answer
<1>12. CASE SessionExplain
  <2>1. told' = told
    BY <1>12 DEF SessionExplain, platform
  <2>2. ASSUME NEW root \in BOOLEAN, ExplainOther(root) PROVE JailInv'
    <3>1. ~Goes /\ req' = req /\ pc' = "answered"
      BY <2>2 DEF ExplainOther, GoesToPath, NonRootEperm, Goes, Return
    <3>2. answer'.tag # "nonroot"
      BY <2>2 DEF ExplainOther, Return, Answer, DescribeOther, DescribeGeneric, GenericErrnos
    <3>3. QED
      BY <1>1, <3>1, <3>2 DEF JailInv, Goes
  <2>3. ASSUME NEW root \in BOOLEAN, ExplainNonRoot(root) PROVE JailInv'
    <3>1. req.sc = "chroot" /\ req.err = "EPERM" /\ req' = req /\ lim' = lim
          /\ pc' \in {"answered", "faulted"}
      BY <2>3 DEF ExplainNonRoot, NonRootEperm, Return, walk
    <3>2. QED
      BY <1>1, <3>1 DEF JailInv
  <2>4. ASSUME NEW root \in BOOLEAN, EnterPath(root, Getters(req.n)) PROVE JailInv'
    <3>1. lim' = Getters(req.n) /\ pc = "failed"
      BY <2>4 DEF EnterPath
    <3>2. answer'.tag # "nonroot"
      BY <1>2, <2>4, <3>1 DEF EnterPath, Return, Answer
    <3>3. QED
      BY <1>1, <2>1, <3>1, <3>2, StoredPreferred DEF JailInv
  <2>5. CASE LongName
    BY <1>5, <2>1, <2>5 DEF LongName, Answer, walk
  <2>6. CASE LookFails
    <3>1. PICK res : Return(DescribeLstat(res)) /\ pc = "walk" /\ lim' = lim
      BY <2>6 DEF LookFails, Look, walk
    <3>2. DescribeLstat(res).tag # "nonroot"
      BY DEF DescribeLstat, DescribeEaccesFile, NoAnswer, Answer
    <3>3. QED
      BY <1>5, <2>1, <3>1, <3>2
  <2>7. CASE NotDirectory \/ LeafUnexplained
    BY <1>5, <2>1, <2>7 DEF NotDirectory, LeafUnexplained, Look, NoAnswer, Answer, walk
  <2>8. CASE Descend
    BY <1>4, <2>1, <2>8 DEF Descend, Look
  <2>9. CASE LeafDenied
    BY <1>1, <2>1, <2>9
    DEF JailInv, LeafDenied, Look, DescribeEaccesFile, Answer, walk
  <2>10. CASE ShowParent
    <3>1. /\ answer'.tag = answer.tag /\ answer.tag # "nonroot"
          /\ pc = "parent" /\ lim' = lim /\ req' = req
      BY <1>1, <2>10
      DEF ShowParent, Return, SessInv, WalkInv, DescribeEaccesFile, Answer, walk
    <3>2. QED
      BY <1>1, <2>1, <3>1 DEF JailInv
  <2>11. QED
    BY <1>12, <2>2, <2>3, <2>4, <2>5, <2>6, <2>7, <2>8, <2>9, <2>10
    DEF SessionExplain, Walk
<1>13. QED
  BY <1>6, <1>7, <1>8, <1>9, <1>10, <1>11, <1>12 DEF SessionNext

\* A session confined to a directory of the path's file system explains every
\* length that is refused and is not the limit itself, for any directories and
\* whatever pathconf(3) says of the path from inside.
THEOREM ConfinedLengths ==
  ASSUME AnswersCovered, AllKnown
  PROVE  SessionSpec => []JailExplainsLength
<1>1. SessionInit => JailInv
  <2>1. SUFFICES ASSUME SessionInit PROVE JailInv
    OBVIOUS
  <2>2. pc = "idle" /\ answer.tag = "none"
    BY <2>1 DEF SessionInit, Init, NoAnswer, Answer
  <2>3. QED
    BY <2>1, <2>2, SessInvInit DEF JailInv
<1>2. JailInv /\ [SessionNext]_sessionVars => JailInv'
  BY JailInvStep
<1>3. JailInv /\ ReasonInv => JailExplainsLength
  <2>1. SUFFICES ASSUME JailInv, ReasonInv, Undisturbed,
                        req.err = "ENAMETOOLONG", ~AtLimit(req.n), told = FsLimits
                 PROVE  answer.tag \in Reasons.ENAMETOOLONG
    BY DEF JailExplainsLength
  <2>2. lim = FsLimits /\ answer.tag # "nonroot"
    BY <2>1 DEF JailInv, Undisturbed, Goes
  <2>3. Answered
    BY <2>1, <2>2 DEF ReasonInv, Reasoned, ReasonFound
  <2>4. QED
    BY <2>1, <2>2, <2>3 DEF ReasonInv, Reasoned, ReasonMatchesErrno
<1>4. LimitsKnown
  BY DEF AllKnown
<1>5. Safety => []ReasonInv
  BY <1>4, ReasonInvariant
<1>6. QED
  BY <1>1, <1>2, <1>3, <1>5, ExplainsAsTheWalk, PTL DEF SessionSpec, SessionSafety
=============================================================================
