------------------------ MODULE OfferedExplanations ------------------------
(***************************************************************************)
(* What the module promises to the server: the daemon offers explanations  *)
(* only under a configuration that wants them, which does not change while *)
(* the offer stands; a session has for all its life what the daemon        *)
(* offered when it was forked, whatever becomes of the daemon.             *)
(***************************************************************************)
CONSTANT Sessions

VARIABLES
  wanted,   \* the configuration wants explanations
  offered,  \* the daemon explains the failures of its calls
  has       \* has[s]: what session s has: an offer, none, or it is not there

offer == <<wanted, offered, has>>

Init ==
  /\ wanted = TRUE /\ offered = FALSE
  /\ has = [s \in Sessions |-> "absent"]

Configure ==
  /\ ~offered /\ wanted' \in BOOLEAN
  /\ UNCHANGED <<offered, has>>

\* The offer need not be made, but if it is it is wanted.
Open ==
  /\ wanted /\ ~offered /\ offered' = TRUE
  /\ UNCHANGED <<wanted, has>>

Close ==
  /\ offered /\ offered' = FALSE /\ wanted' \in BOOLEAN
  /\ has' = has

Fork(s) ==
  /\ has[s] = "absent"
  /\ has' = [has EXCEPT ![s] = IF offered THEN "offer" ELSE "none"]
  /\ UNCHANGED <<wanted, offered>>

Exit(s) ==
  /\ has[s] # "absent"
  /\ has' = [has EXCEPT ![s] = "absent"]
  /\ UNCHANGED <<wanted, offered>>

Next == Configure \/ Open \/ Close \/ \E s \in Sessions : Fork(s) \/ Exit(s)

Spec == Init /\ [][Next]_offer
=============================================================================
