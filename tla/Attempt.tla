------------------------------ MODULE Attempt ------------------------------
(***************************************************************************)
(* What a call of orchestrate() promises to its caller and to the two      *)
(* stores that outlive it, the stream of the false-discovery controller    *)
(* and the experiment registry: at most one submission and one record,     *)
(* "certified" is said, and recorded, of exactly the calls that were       *)
(* submitted, and only an error may disagree with the record.              *)
(***************************************************************************)
EXTENDS Naturals

CONSTANT MaxCalls

Calls == 1..MaxCalls
Decisions == {"certified", "do_not_certify", "honest_stop", "error"}

VARIABLES
    open,       \* the call under way, or 0
    submitted,  \* the calls in the controller's stream
    recorded,   \* what the registry says of each call, "none" without a record
    answered    \* what each call returned, "none" before and after a crash

vars == <<open, submitted, recorded, answered>>

Init ==
    /\ open = 0
    /\ submitted = {}
    /\ recorded = [c \in Calls |-> "none"]
    /\ answered = [c \in Calls |-> "none"]

\* A call nobody has submitted, recorded or answered.
Fresh(c) ==
    /\ c \notin submitted
    /\ recorded[c] = "none"
    /\ answered[c] = "none"

Begin ==
    /\ open = 0
    /\ \E c \in Calls : Fresh(c) /\ open' = c
    /\ UNCHANGED <<submitted, recorded, answered>>

Submit ==
    /\ open # 0
    /\ open \notin submitted
    /\ recorded[open] = "none"
    /\ submitted' = submitted \cup {open}
    /\ UNCHANGED <<open, recorded, answered>>

\* A decision the submission bears out.
Agrees(d) == (d = "certified") = (open \in submitted)

Record ==
    /\ open # 0
    /\ recorded[open] = "none"
    /\ \E d \in Decisions :
         Agrees(d) /\ recorded' = [recorded EXCEPT ![open] = d]
    /\ UNCHANGED <<open, submitted, answered>>

Answer ==
    /\ open # 0
    /\ \E d \in Decisions :
         /\ \/ d = "error"
            \/ d = recorded[open]
            \/ recorded[open] = "none" /\ Agrees(d)
         /\ answered' = [answered EXCEPT ![open] = d]
    /\ open' = 0
    /\ UNCHANGED <<submitted, recorded>>

Crash ==
    /\ open # 0
    /\ open' = 0
    /\ UNCHANGED <<submitted, recorded, answered>>

Next == Begin \/ Submit \/ Record \/ Answer \/ Crash

Spec == Init /\ [][Next]_vars
=============================================================================
