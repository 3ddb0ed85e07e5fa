---------------------------- MODULE StrategyLoop ----------------------------
(***************************************************************************)
(* Attestra's outer loop (attestra/orchestration/strategy_loop.py): call   *)
(* orchestrate(), and when the answer is not a certificate diagnose why,   *)
(* climb the escalation ladder and try again, within a budget of seconds,  *)
(* a number of attempts and a patience for attempts that gain nothing.     *)
(* What a call of orchestrate() does is module Orchestrate; here it is one *)
(* step that answers and takes time.                                       *)
(***************************************************************************)
EXTENDS Integers

CONSTANTS MaxAttempts,  \* max_attempts
          Patience,     \* patience
          MinGain,      \* min_improvement
          TotalBudget,  \* total_budget_s
          MinBudget,    \* min_attempt_budget_s
          Reserve,      \* the 10 s an allocation leaves
          LadderTop,    \* len(ESCALATION_LADDER) - 1
          MaxScore,     \* scores are 0..MaxScore
          Wanted,    \* config.threshold
          FarGap,       \* the gap above which an attempt was far from it
          Overrun       \* how far orchestrate() can pass its allocation

ASSUME StrategyAssumption ==
    /\ {MaxAttempts, TotalBudget, MinBudget, Reserve} \subseteq Nat
    /\ {LadderTop, MaxScore, Wanted, FarGap, MinGain, Overrun} \subseteq Nat
    /\ Patience \in Nat \ {0}

AttemptDecisions == {"certified", "do_not_certify", "honest_stop", "error"}

\* How the proposals of an attempt fared: most of them crashed, none was
\* made or none succeeded, or neither.
Fares == {"crashing", "none", "fine"}

Modes == {"oracle_veto", "execution_failure", "no_proposals",
          "threshold_gap", "statistical_miss", "plateau"}

AttemptScores == 0..MaxScore

\* An OrchestrateResult, as far as the loop reads it.
Answers == {a \in [decision : AttemptDecisions, score : AttemptScores,
                   veto : BOOLEAN, fare : Fares] :
              /\ a.fare = "none" => a.score = 0
              /\ a.decision = "honest_stop" => a.score > 0
              /\ a.decision = "certified" => ~a.veto}

Tiers == {"frontier", "generative"}

\* The Strategy of an attempt: its rung and the engine it asks for.
Strategies == [rung : 0..LadderTop, tier : Tiers]
Baseline == [rung |-> 0, tier |-> "frontier"]

NoAnswer == [decision |-> "error", score |-> 0, veto |-> FALSE, fare |-> "none"]

VARIABLES
    pc,         \* "head", "judge" or "finish" of the loop, or "done"
    strategy,   \* current_strategy
    budget,     \* budget_remaining
    seen,       \* best_score_seen
    patience,   \* patience_counter
    resetUsed,  \* _patience_reset_used
    answer,     \* inner_result of the last attempt
    attempts,   \* attempts started
    tried,      \* the set of the scores in attempt_results
    verdict,    \* loop_result.decision and best_score
    stuck       \* attempts since the last gain; no code reads it

loopVars == <<pc, strategy, budget, seen, patience, resetUsed, answer, attempts,
          tried, verdict, stuck>>

Verdicts == [decision : {"error", "certified", "honest_decline"}, score : AttemptScores]

LoopInit ==
    /\ pc = "head"
    /\ strategy = Baseline
    /\ budget = TotalBudget
    /\ seen = 0
    /\ patience = 0
    /\ resetUsed = FALSE
    /\ answer = NoAnswer
    /\ attempts = 0
    /\ tried = {}
    /\ verdict = [decision |-> "error", score |-> 0]
    /\ stuck = 0

-----------------------------------------------------------------------------
(* One attempt *)

Larger(a, b) == IF a >= b THEN a ELSE b
Smaller(a, b) == IF a <= b THEN a ELSE b

\* Slip: the allocation forgets that some of the budget is spent.
SlipAllocation == Larger(MinBudget, (2 * TotalBudget) \div 5)

\* The seconds an attempt is given: 40% of what remains (budget_fraction),
\* leaving the reserve, and never less than the minimum.
Allocation ==
    Larger(MinBudget, Smaller((2 * budget) \div 5, budget - Reserve))

MayTry == attempts < MaxAttempts /\ budget >= MinBudget

\* The attempt runs on its own clock and may pass its allocation; a crash of
\* the inner cycle is an answer "error" with nothing in it.
TryOnce ==
    /\ pc = "head"
    /\ MayTry
    /\ \E a \in Answers, spent \in 0..(Allocation + Overrun) :
         /\ answer' = a
         /\ budget' = budget - spent
         /\ tried' = tried \cup {a.score}
    /\ attempts' = attempts + 1
    /\ pc' = "judge"
    /\ UNCHANGED <<strategy, seen, patience, resetUsed, verdict, stuck>>

StopTrying ==
    /\ pc = "head"
    /\ ~MayTry
    /\ pc' = "finish"
    /\ UNCHANGED <<strategy, budget, seen, patience, resetUsed, answer, attempts,
                   tried, verdict, stuck>>

Certified ==
    /\ pc = "judge"
    /\ answer.decision = "certified"
    /\ verdict' = [decision |-> "certified", score |-> answer.score]
    /\ pc' = "finish"
    /\ UNCHANGED <<strategy, budget, seen, patience, resetUsed, answer, attempts,
                   tried, stuck>>

-----------------------------------------------------------------------------
(* An attempt that did not certify: patience, diagnosis, escalation *)

Gained == answer.score > seen + MinGain

\* Slip: the one last aggressive attempt is granted again and again.
SlipSecondChance == strategy.rung < LadderTop

\* When the patience is used up, the counter restarts once.
SecondChance == strategy.rung < LadderTop /\ ~resetUsed

Gap == Larger(0, Wanted - answer.score)

\* diagnose_strategy_failure: the first description that fits.
Diagnosis ==
    IF answer.veto THEN "oracle_veto"
    ELSE IF answer.fare = "crashing" THEN "execution_failure"
    ELSE IF answer.fare = "none" THEN "no_proposals"
    ELSE IF answer.score > 0 /\ Gap > FarGap THEN "threshold_gap"
    ELSE IF answer.score > 0 /\ Gap > 0 THEN "statistical_miss"
    ELSE "plateau"

\* escalate: one rung up, except that an oracle's veto is answered on the
\* same rung; every new strategy asks for the frontier engine, except the
\* one after a frontier attempt without proposals.
Escalated(s, mode) ==
    [rung |-> IF mode = "oracle_veto" THEN s.rung ELSE s.rung + 1,
     tier |-> IF mode = "no_proposals" /\ s.tier = "frontier"
              THEN "generative" ELSE "frontier"]

\* The patience counter after this attempt.
Waited == IF Gained THEN 0 ELSE patience + 1

\* Slip: the ladder ends one rung too late.
SlipAtTop == strategy.rung > LadderTop

AtTop == strategy.rung >= LadderTop

\* Patience, the reset included, then the diagnosis, then the ladder.
Judge ==
    /\ pc = "judge"
    /\ answer.decision # "certified"
    /\ seen' = IF Gained THEN answer.score ELSE seen
    /\ stuck' = IF Gained THEN 0 ELSE stuck + 1
    /\ \/ /\ Waited < Patience
          /\ patience' = Waited
          /\ UNCHANGED resetUsed
       \/ /\ Waited >= Patience
          /\ SecondChance
          /\ patience' = 0
          /\ resetUsed' = TRUE
    /\ IF AtTop
       THEN pc' = "finish" /\ UNCHANGED strategy
       ELSE pc' = "head" /\ strategy' = Escalated(strategy, Diagnosis)
    /\ answer' = NoAnswer
    /\ UNCHANGED <<budget, attempts, tried, verdict>>

GiveUp ==
    /\ pc = "judge"
    /\ answer.decision # "certified"
    /\ Waited >= Patience
    /\ ~SecondChance
    /\ seen' = IF Gained THEN answer.score ELSE seen
    /\ stuck' = IF Gained THEN 0 ELSE stuck + 1
    /\ patience' = Waited
    /\ pc' = "finish"
    /\ UNCHANGED <<strategy, budget, resetUsed, answer, attempts, tried, verdict>>

\* max(prior_results, key=best_score), 0.0 without an attempt.
IsBest(s) == IF tried = {} THEN s = 0
             ELSE s \in tried /\ \A u \in tried : u <= s

Finish ==
    /\ pc = "finish"
    /\ pc' = "done"
    /\ \/ verdict.decision = "certified" /\ UNCHANGED verdict
       \/ /\ verdict.decision # "certified"
          /\ \E s \in AttemptScores :
               /\ IsBest(s)
               /\ verdict' = [decision |-> "honest_decline", score |-> s]
    /\ UNCHANGED <<strategy, budget, seen, patience, resetUsed, answer, attempts,
                   tried, stuck>>

LoopNext == TryOnce \/ StopTrying \/ Certified \/ Judge \/ GiveUp \/ Finish

LoopSpec == LoopInit /\ [][LoopNext]_loopVars

-----------------------------------------------------------------------------
(* Properties *)

\* The variables keep their types.
LoopTypeOK ==
    /\ pc \in {"head", "judge", "finish", "done"}
    /\ strategy \in Strategies
    /\ budget \in Int
    /\ seen \in AttemptScores
    /\ patience \in 0..Patience
    /\ resetUsed \in BOOLEAN
    /\ answer \in Answers \cup {NoAnswer}
    /\ attempts \in 0..MaxAttempts
    /\ tried \subseteq AttemptScores
    /\ verdict \in Verdicts
    /\ stuck \in Nat

\* The loop is never stuck for longer than two full patiences, however its
\* attempts gain, fail, are vetoed and climb: the reset is given once.
StopsWhenStuck ==
    /\ stuck <= 2 * Patience
    /\ pc = "head" => stuck < 2 * Patience

\* However late its attempts are, the loop as a whole passes its budget by at
\* most what one attempt passes its own allocation by: an attempt that found
\* the budget overdrawn would add its own overrun.
OverdrawIsOneOverrun == budget >= -Overrun
=============================================================================
