--------------------------- MODULE ResearchEngine ---------------------------
(***************************************************************************)
(* attestra/cycle/engine.py with attestra/orchestration/health.py: the     *)
(* catalog engine.  Rounds of at most a few proposals, each evaluated on   *)
(* the validation rows; a health monitor that may abort the rounds; then   *)
(* the best evaluated proposal is looked at once on the sealed rows.       *)
(*                                                                         *)
(* Where a proposal comes from (catalog, LLM, mutation, retrieval, pivot)  *)
(* decides how many there are in a round and nothing else here; the        *)
(* monitor's warnings only change what is proposed.                        *)
(***************************************************************************)
EXTENDS Integers, Sequences

CONSTANTS MaxRounds,     \* plan.budget.max_rounds
          MaxPerRound,   \* max_per_round
          CycleScores,   \* validation scores
          Targets,       \* values of plan.verification.threshold
          Margin,        \* 0.05 in the unit of the scores
          MaxDrop        \* divergence_threshold in the unit of the scores

ASSUME EngineAssumption ==
    /\ MaxRounds \in Nat
    /\ MaxPerRound \in Nat \ {0}
    /\ CycleScores \cup Targets \subseteq Int
    /\ {Margin, MaxDrop} \subseteq Int

\* An EvaluatedProposal; its id is its place in the sequence.
Evaluations ==
    [ok : {TRUE}, score : CycleScores] \cup [ok : {FALSE}, score : {0}]

VARIABLES
    target,    \* plan.verification.threshold, fixed
    step,      \* "head", "evaluate", "certify" or "done"
    round,     \* rounds finished
    left,      \* proposals of this round still to be evaluated
    evaluated, \* the evaluated proposals, in order
    known,     \* state.best_score and the id of state.best_technique
    timeUp,    \* the deadline has passed
    looked     \* the ids whose predictions the sealed rows have scored

engineVars == <<target, step, round, left, evaluated, known, timeUp,
                looked>>

EngineInit ==
    /\ target \in Targets
    /\ step = "head"
    /\ round = 0
    /\ left = 0
    /\ evaluated = <<>>
    /\ known = [score |-> 0, id |-> 0]
    /\ timeUp = FALSE
    /\ looked = <<>>

Ids == 1..Len(evaluated)
Successes == {i \in Ids : evaluated[i].ok}

\* The winner leads all evaluated proposals, the earlier one of two equals.
Leads(i) ==
    /\ i \in Successes
    /\ \A j \in Successes :
         \/ evaluated[j].score < evaluated[i].score
         \/ evaluated[j].score = evaluated[i].score /\ i <= j

\* _best_evaluated: 0 when nothing succeeded.
Winner == IF Successes = {} THEN 0 ELSE CHOOSE i \in Successes : Leads(i)

-----------------------------------------------------------------------------
(* HealthMonitor.check, as far as it can abort *)

Points == SelectSeq(evaluated, LAMBDA e : e.ok)

SumOf(s, a) == s[a].score + s[a + 1].score + s[a + 2].score

\* The mean of the last three scores has dropped below that of the three
\* before them (of the first three, while there are fewer than six).
Diverges ==
    LET n == Len(Points)
    IN /\ n > 3
       /\ SumOf(Points, IF n >= 6 THEN n - 5 ELSE 1) - SumOf(Points, n - 2)
            > 3 * MaxDrop

\* More than four in five of three and more proposals have failed.
MostlyFails ==
    /\ Len(evaluated) >= 3
    /\ 5 * (Len(evaluated) - Len(Points)) > 4 * Len(evaluated)

MustAbort == timeUp \/ Diverges \/ MostlyFails

-----------------------------------------------------------------------------
(* The rounds *)

StartRound ==
    /\ step = "head"
    /\ round < MaxRounds
    /\ ~MustAbort
    /\ left' \in 1..MaxPerRound
    /\ step' = "evaluate"
    /\ UNCHANGED <<target, round, evaluated, known, timeUp, looked>>

\* The rounds are used up, the time is, the monitor aborts, or no source has
\* anything to propose, which may be so in any round.
LeaveRounds ==
    /\ step = "head"
    /\ step' = "certify"
    /\ UNCHANGED <<target, round, left, evaluated, known, timeUp, looked>>

\* Built, fitted and scored, or failed: the first check of the deadline is
\* the last one before it runs.
Evaluate ==
    /\ step = "evaluate"
    /\ left > 0
    /\ ~timeUp
    /\ \E e \in Evaluations : evaluated' = Append(evaluated, e)
    /\ left' = left - 1
    /\ UNCHANGED <<target, step, round, known, timeUp, looked>>

\* Slip: a score that equals the best replaces it.
SlipUpdated ==
    IF \E i \in Successes : evaluated[i].score >= known.score
    THEN LET i == CHOOSE i \in Successes :
                    \A j \in Successes :
                      \/ evaluated[j].score < evaluated[i].score
                      \/ evaluated[j].score = evaluated[i].score /\ j <= i
         IN [score |-> evaluated[i].score, id |-> i]
    ELSE known

\* _update_state goes through all evaluated proposals and keeps the first
\* that is strictly better than what it knows, starting from 0.
Updated ==
    IF \E i \in Successes : evaluated[i].score > known.score
    THEN [score |-> evaluated[Winner].score, id |-> Winner]
    ELSE known

Exceeded(score) == score > target + Margin

EndRound ==
    /\ step = "evaluate"
    /\ left = 0 \/ timeUp
    /\ left' = 0
    /\ known' = Updated
    /\ round' = round + 1
    /\ step' = IF Exceeded(Updated.score) THEN "certify" ELSE "head"
    /\ UNCHANGED <<target, evaluated, timeUp, looked>>

DeadlinePasses ==
    /\ step \in {"head", "evaluate"}
    /\ ~timeUp
    /\ timeUp' = TRUE
    /\ UNCHANGED <<target, step, round, left, evaluated, known, looked>>

Candidate == Winner

\* The winner is fitted again and predicts the sealed rows; what goes wrong
\* with it before that is caught and leaves no look.
Certify ==
    /\ step = "certify"
    /\ looked' \in {looked} \cup
         (IF Candidate = 0 THEN {} ELSE {Append(looked, Candidate)})
    /\ step' = "done"
    /\ UNCHANGED <<target, round, left, evaluated, known, timeUp>>

EngineNext ==
    \/ StartRound \/ LeaveRounds \/ Evaluate \/ EndRound \/ DeadlinePasses
    \/ Certify

EngineSpec == EngineInit /\ [][EngineNext]_engineVars

-----------------------------------------------------------------------------
(* Properties *)

\* The variables keep their types.
EngineTypeOK ==
    /\ step \in {"head", "evaluate", "certify", "done"}
    /\ round \in 0..MaxRounds
    /\ left \in 0..MaxPerRound
    /\ evaluated \in Seq(Evaluations)
    /\ known \in [score : CycleScores \cup {0}, id : Nat]
    /\ timeUp \in BOOLEAN
    /\ target \in Targets
    /\ looked \in Seq(Nat)

\* However the rounds end (aborted, late, early or used up), what the engine
\* reports as its best, kept as it goes along, is what it then certifies,
\* found by a second search through everything; only an engine without a
\* score above 0 reports no technique, and may certify one all the same.  The
\* sealed rows score one proposal at most, which leads all others, and nothing
\* is evaluated once they have.
ReportsTheCertified ==
    /\ step \in {"head", "certify", "done"} =>
         IF known.id = 0
         THEN \A i \in Successes : evaluated[i].score <= 0
         ELSE /\ known.id = Winner
              /\ known.score = evaluated[Winner].score
              /\ known.score > 0
    /\ Len(looked) <= 1
    /\ \A k \in 1..Len(looked) : step = "done" /\ Leads(looked[k])
=============================================================================
