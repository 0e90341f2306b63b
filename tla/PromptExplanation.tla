------------------------- MODULE PromptExplanation -------------------------
(***************************************************************************)
(* What an explainer of failed calls promises to its caller: to every      *)
(* failure it gives one explanation (which may be none at all), and        *)
(* whatever an explanation asserts was true at some moment between the     *)
(* failure and the answer.  It does not promise that the assertion is      *)
(* still true, nor that all parts of it were true at the same moment.      *)
(***************************************************************************)
CONSTANT Facts  \* what an explanation may assert

VARIABLES
  open,       \* a failure waits for its explanation
  witnessed,  \* facts that have held since the failure
  given       \* what the explanation asserts

promise == <<open, witnessed, given>>

Init == open = FALSE /\ witnessed = {} /\ given = {}

Ask ==
  /\ ~open /\ open' = TRUE
  /\ witnessed' \in SUBSET Facts
  /\ given = {} /\ given' = {}

Observe ==
  /\ open /\ open' = TRUE
  /\ witnessed' \in SUBSET Facts /\ witnessed \subseteq witnessed'
  /\ given' = given

Give ==
  /\ open /\ open' = FALSE
  /\ given' \in SUBSET witnessed
  /\ witnessed' = witnessed

Forget ==
  /\ ~open /\ open' = FALSE
  /\ witnessed' = {} /\ given' = {}

Next == Ask \/ Observe \/ Give \/ Forget

Spec == Init /\ [][Next]_promise
=============================================================================
