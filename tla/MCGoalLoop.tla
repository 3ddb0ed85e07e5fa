----------------------------- MODULE MCGoalLoop -----------------------------
(* GoalLoop on small instances: two families, three proposable moves. *)
EXTENDS GoalLoop

CONSTANTS m1, m2, m3, base, f1, f2, f0

MCFamily == [m \in {m1, m2, m3, base} |->
                CASE m = m2 -> f2 [] m = base -> f0 [] OTHER -> f1]
MCSize == [m \in {m1, m2, m3, base} |-> IF m \in {m2, m3} THEN 2 ELSE 1]

\* Low and high scores with bounds on every side of the gates; the two
\* disagree on purpose, a higher score may have the lower bound or none.
MCCandidates ==
    {[val |-> q[1], lb |-> q[2], meets |-> q[3], place |-> p] :
        p \in Places,
        q \in {<<1, 0, TRUE>>, <<1, 2, TRUE>>, <<2, 1, TRUE>>,
              <<2, 2, TRUE>>, <<2, 2, FALSE>>, <<2, NoBound, TRUE>>}}

\* Two candidates suffice to tell the ends of a run apart.
MCFewCandidates ==
    {c \in MCCandidates : <<c.val, c.lb, c.meets>> \in {<<1, 0, TRUE>>,
                                                       <<2, 2, TRUE>>}}
=============================================================================
