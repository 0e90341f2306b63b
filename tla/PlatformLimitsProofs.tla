------------------------ MODULE PlatformLimitsProofs ------------------------
(***************************************************************************)
(* Proofs about the limits of a session, for any directories, any answers  *)
(* of pathconf(3) and any number of attempts to confine the session.       *)
(***************************************************************************)
EXTENDS PlatformLimits, TLAPS

(***************************************************************************)
(* What is stored is what was told of the last announced directory, from   *)
(* the moment explain_platform_init has run; it takes the listener to be   *)
(* registered for as long as a directory can be announced.                 *)
(***************************************************************************)
LimitsInv ==
  /\ TypeOK
  /\ sess = told
  /\ pc # "forked" => listening
  /\ target = NoName => told = Unset
  /\ pc = "forked" => target = NoName
  /\ pc = "chroot" => target # NoName

LEMMA LimitsInit == ASSUME Init PROVE LimitsInv
  BY DEF Init, LimitsInv, TypeOK, Roots

LEMMA LimitsStep ==
  ASSUME LimitsInv, [Next]_vars
  PROVE  LimitsInv'
<1> USE DEF LimitsInv, TypeOK
<1>1. CASE UNCHANGED vars
  BY <1>1 DEF vars
<1>2. CASE explain_platform_init
  BY <1>2 DEF explain_platform_init
<1>3. CASE explain_platform_free
  BY <1>3 DEF explain_platform_free
<1>4. ASSUME NEW path \in Names, AnnounceChroot(path) PROVE LimitsInv'
  <2>1. pathconf[root][path] \in Told
    OBVIOUS
  <2>2. sess' = pathconf[root][path] /\ told' = pathconf[root][path]
    BY <1>4 DEF AnnounceChroot, explain_platform_chroot_ev
  <2>3. path # NoName
    BY PlatformAssumption DEF Roots
  <2>4. QED
    BY <1>4, <2>1, <2>2, <2>3 DEF AnnounceChroot
<1>5. CASE ChrootSucceeds
  <2>1. target \in Roots /\ target # NoName => root' \in Roots
    BY <1>5 DEF ChrootSucceeds
  <2>2. QED
    BY <1>5, <2>1 DEF ChrootSucceeds, Roots
<1>6. CASE ChrootFails
  BY <1>6 DEF ChrootFails
<1>7. CASE Others
  BY <1>7 DEF Others
<1>8. QED
  BY <1>1, <1>2, <1>3, <1>4, <1>5, <1>6, <1>7 DEF Next

THEOREM LimitsInvariant == Spec => []LimitsInv
<1>1. Init => LimitsInv
  BY LimitsInit
<1>2. LimitsInv /\ [Next]_vars => LimitsInv'
  BY LimitsStep
<1>3. QED
  BY <1>1, <1>2, PTL DEF Spec

\* The variables keep their types, whatever pathconf(3) says.
THEOREM TypeCorrect == Spec => []TypeOK
<1>1. LimitsInv => TypeOK
  BY DEF LimitsInv
<1>2. QED
  BY <1>1, LimitsInvariant, PTL

\* A confined session works with the limits of before the confinement, for
\* any number of directories and whatever others do to them.
THEOREM BeforeConfinement == Spec => []LookedUpBefore
<1>1. LimitsInv => LookedUpBefore
  BY DEF LimitsInv, LookedUpBefore, Limit
<1>2. QED
  BY <1>1, LimitsInvariant, PTL

\* Without an announcement a session works with the limits of the path.
THEOREM OwnWithoutAnnouncement == Spec => []OwnLimits
<1>1. LimitsInv => OwnLimits
  <2>1. SUFFICES ASSUME LimitsInv, target = NoName, NEW f \in Fields
                 PROVE  ~(sess[f] > 0)
    BY <2>1 DEF OwnLimits, Limit
  <2>2. sess[f] = -1
    BY <2>1 DEF LimitsInv, Unset
  <2>3. QED
    BY <2>2
<1>2. QED
  BY <1>1, LimitsInvariant, PTL

\* No limit comes from an attempt before the last one.
THEOREM OnlyLastAttempt == Spec => []LastAttemptOnly
<1>1. LimitsInv => LastAttemptOnly
  BY DEF LimitsInv, LastAttemptOnly, Limit
<1>2. QED
  BY <1>1, LimitsInvariant, PTL
=============================================================================
