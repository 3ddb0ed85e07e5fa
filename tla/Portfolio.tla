----------------------------- MODULE Portfolio -----------------------------
(***************************************************************************)
(* frontier/portfolio.py, run_portfolio_round: the candidates of a round   *)
(* race through rungs of growing training budgets.  In a rung a few run at *)
(* a time and settle in any order; a candidate that is still pending may   *)
(* be killed on confidence bounds; the best of the settled ones advance.   *)
(*                                                                         *)
(* A budget is a number of FullData parts of the training rows.  Bounds    *)
(* are multiplied by 2 * FullData, so that all numbers are integers.  The  *)
(* launch order of the policies is any order; so is that of equal scores.  *)
(***************************************************************************)
EXTENDS Integers, FiniteSets, FiniteSetsExt

CONSTANTS Arms,       \* the round's candidates
          FullData,   \* budget 1.0
          LeastData,  \* min_frac, in parts of FullData
          Eta,        \* the halving factor
          Workers,    \* max_workers
          ArmScores   \* validation scores

ASSUME PortfolioAssumption ==
    /\ IsFiniteSet(Arms)
    /\ {FullData, LeastData, Workers} \subseteq Nat \ {0}
    /\ LeastData < FullData
    /\ Eta \in Nat \ {0, 1}
    /\ ArmScores \subseteq Int

\* _build_ladder: budgets grow by Eta from the least to the full one, and the
\* last rung, at least the second, is at full data.
Rungs == LET n == Cardinality({k \in 0..FullData : LeastData * Eta^k <= FullData})
         IN  0..(IF n < 2 THEN 1 ELSE n - 1)
TopRung == Cardinality(Rungs) - 1
Data(k) == IF k # TopRung /\ LeastData * Eta^k \in 1..FullData
           THEN LeastData * Eta^k
           ELSE FullData

\* Candidates that enter a rung, and that may leave it.
Entering[k \in Nat] ==
    IF k = 0 THEN Cardinality(Arms)
    ELSE IF (Entering[k-1] + Eta - 1) \div Eta > 1
         THEN (Entering[k-1] + Eta - 1) \div Eta
         ELSE 1
Survivors(k) == IF k = TopRung THEN Entering[k] ELSE Entering[k + 1]

VARIABLES
    fpc,       \* "wait", "batch" (some have settled) or "over"
    rung,
    alive,     \* candidates of this rung
    pending,   \* not yet launched
    flying,    \* launched and not settled
    settled,   \* scores of this rung; a candidate that failed has none
    last,      \* last score of each candidate, and the rung it is from
    band,      \* the lowest and the highest score so far
    killed,    \* upper bounds of the candidates killed in this rung
    raceBest   \* the result: a candidate with its score, or Nobody

portVars == <<fpc, rung, alive, pending, flying, settled, last, band, killed, raceBest>>

Nobody == [arm |-> "nobody", score |-> 0]
Never == [score |-> 0, rung |-> -1]

PortInit ==
    /\ fpc = "wait"
    /\ rung = 0
    /\ alive = Arms
    /\ pending = Arms
    /\ flying = {}
    /\ settled = << >>
    /\ last = [a \in Arms |-> Never]
    /\ band = [lo |-> 0, hi |-> 0, any |-> FALSE]
    /\ killed = << >>
    /\ raceBest = Nobody

Scored == DOMAIN settled

\* The width of the band, 1 while there is none.
Span == IF band.any /\ band.hi > band.lo THEN band.hi - band.lo ELSE 1

\* The bonus shrinks with the budget of the last score.
Bonus(a) == Span * (FullData - Data(last[a].rung))
Upper(a) == 2 * FullData * last[a].score + Bonus(a)
Lower(a) == 2 * FullData * last[a].score - Bonus(a)

-----------------------------------------------------------------------------
(* A rung *)

\* _submit_next fills the workers.
Launch ==
    /\ fpc = "wait"
    /\ Cardinality(flying) < Workers
    /\ \E a \in pending :
         /\ pending' = pending \ {a}
         /\ flying' = flying \cup {a}
    /\ UNCHANGED <<fpc, rung, alive, settled, last, band, killed, raceBest>>

Observe(a, s) ==
    /\ settled' = [x \in Scored \cup {a} |-> IF x = a THEN s ELSE settled[x]]
    /\ last' = [last EXCEPT ![a] = [score |-> s, rung |-> rung]]
    /\ band' = IF ~band.any THEN [lo |-> s, hi |-> s, any |-> TRUE]
               ELSE [band EXCEPT !.lo = IF s < @ THEN s ELSE @,
                                 !.hi = IF s > @ THEN s ELSE @]

\* wait(FIRST_COMPLETED) may hand over several at once.
Settle ==
    /\ fpc = "batch" \/ Cardinality(flying) = Workers \/ pending = {}
    /\ fpc \in {"wait", "batch"}
    /\ \E a \in flying :
         /\ flying' = flying \ {a}
         /\ \/ UNCHANGED <<settled, last, band>>
            \/ \E s \in ArmScores : Observe(a, s)
    /\ fpc' = "batch"
    /\ UNCHANGED <<rung, alive, pending, killed, raceBest>>

\* Slip: a candidate has to beat one less than survive.
SlipBeaten(b) == Quantify(Scored, LAMBDA q : Lower(q) >= b) >= Survivors(rung) - 1

\* At least as many lower bounds as may survive are at b or above.
Beaten(b) == Quantify(Scored, LAMBDA q : Lower(q) >= b) >= Survivors(rung)

\* A pending candidate whose upper bound is below that many lower bounds.
Hopeless(a) ==
    /\ last[a] # Never
    /\ Cardinality(Scored) >= Survivors(rung)
    /\ Beaten(Upper(a) + 1)

\* The kill at full data is off; then the workers are filled again.
Prune ==
    /\ fpc = "batch"
    /\ LET k == IF Data(rung) = FullData THEN {}
                ELSE {a \in pending : Hopeless(a)}
       IN  /\ pending' = pending \ k
           /\ killed' = [a \in DOMAIN killed \cup k |->
                           IF a \in k THEN Upper(a) ELSE killed[a]]
    /\ fpc' = "wait"
    /\ UNCHANGED <<rung, alive, flying, settled, last, band, raceBest>>

\* The best of the settled, in one order of equal scores or another.
TopSets ==
    LET n == IF Cardinality(Scored) < Survivors(rung) THEN Cardinality(Scored)
             ELSE Survivors(rung)
    IN  {S \in kSubset(n, Scored) :
           \A a \in S, b \in Scored \ S : settled[a] >= settled[b]}

EndRung ==
    /\ fpc = "wait"
    /\ pending = {} /\ flying = {} /\ alive # {}
    /\ rung < TopRung
    /\ alive' \in TopSets
    /\ pending' = alive'
    /\ rung' = rung + 1
    /\ settled' = << >>
    /\ killed' = << >>
    /\ UNCHANGED <<fpc, flying, last, band, raceBest>>

\* The best at full data; without any, the best of the last scores, which may
\* be one of a candidate that was out.
Leaders ==
    LET full == {a \in Scored : rung = TopRung}
        seen == {a \in Arms : last[a] # Never}
        from == IF full # {} THEN full ELSE seen
    IN  {a \in from : \A b \in from : last[a].score >= last[b].score}

EndRace ==
    /\ fpc = "wait"
    /\ pending = {} /\ flying = {}
    /\ alive = {} \/ rung = TopRung
    /\ IF Leaders = {} THEN UNCHANGED raceBest
       ELSE \E a \in Leaders : raceBest' = [arm |-> a, score |-> last[a].score]
    /\ fpc' = "over"
    /\ UNCHANGED <<rung, alive, pending, flying, settled, last, band, killed>>

PortNext == Launch \/ Settle \/ Prune \/ EndRung \/ EndRace

PortSpec == PortInit /\ [][PortNext]_portVars

-----------------------------------------------------------------------------
(* Properties *)

\* The variables keep their types.
PortTypeOK ==
    /\ fpc \in {"wait", "batch", "over"}
    /\ rung \in Rungs
    /\ pending \cup flying \subseteq alive /\ alive \subseteq Arms
    /\ Scored \subseteq alive /\ settled \in [Scored -> ArmScores]
    /\ last \in [Arms -> [score : ArmScores \cup {0}, rung : Rungs \cup {-1}]]
    /\ DOMAIN killed \subseteq alive
    /\ raceBest = Nobody \/ raceBest.arm \in Arms

\* "Never discards a possible survivor under the confidence model": whatever
\* score a killed candidate could have reached within its upper bound at the
\* time, as many others as survive the rung have a better one, in whichever
\* order they settled, failed and widened the band meanwhile.
KillIsAdmissible ==
    \A a \in DOMAIN killed :
      Quantify(Scored, LAMBDA q : 2 * FullData * settled[q] > killed[a])
        >= Survivors(rung)
=============================================================================
