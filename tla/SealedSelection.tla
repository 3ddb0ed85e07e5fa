-------------------------- MODULE SealedSelection --------------------------
(***************************************************************************)
(* What a goal run promises its user, without how it searches.  A run      *)
(* selects a model on validation data for as long as it likes, may give up *)
(* at any time, and may look at the sealed test at most once, after which  *)
(* the selection is frozen and only the measured bound decides whether a   *)
(* certificate is issued.                                                  *)
(***************************************************************************)
EXTENDS Integers

CONSTANTS Choices,     \* what selection on validation may end up with
          NoChoice,    \* nothing selected yet
          Bounds,      \* possible sealed lower bounds
          Unmeasured,  \* no bound: the sealed test has not been looked at
          Theta        \* the bound a certificate has to exceed

VARIABLES choice,      \* the model selection currently prefers
          sealed,      \* the sealed lower bound, or Unmeasured
          peeks,       \* how often the sealed test was evaluated
          outcome      \* "open", then how the run ended

abstractVars == <<choice, sealed, peeks, outcome>>

Init ==
    /\ choice = NoChoice
    /\ sealed = Unmeasured
    /\ peeks = 0
    /\ outcome = "open"

\* Selection moves freely, but only while nothing sealed is known.
Select ==
    /\ outcome = "open"
    /\ peeks = 0
    /\ choice' \in Choices \union {NoChoice}
    /\ UNCHANGED <<sealed, peeks, outcome>>

\* The one evaluation of the sealed test, on the selected model.
Measure ==
    /\ outcome = "open"
    /\ peeks = 0
    /\ choice # NoChoice
    /\ peeks' = 1
    /\ sealed' \in Bounds
    /\ UNCHANGED <<choice, outcome>>

\* The run is given up without a look at the sealed test, or breaks after it.
GiveUp ==
    /\ outcome = "open"
    /\ outcome' = "no_certificate"
    /\ peeks' \in {peeks, 1}
    /\ UNCHANGED <<choice, sealed>>

\* A certificate needs a measured bound above the threshold.
Certify ==
    /\ outcome = "open"
    /\ sealed # Unmeasured
    /\ sealed > Theta
    /\ outcome' = "certificate"
    /\ UNCHANGED <<choice, sealed, peeks>>

Next == Select \/ Measure \/ GiveUp \/ Certify

Spec == Init /\ [][Next]_abstractVars
=============================================================================
