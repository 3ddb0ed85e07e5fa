---------------------------- MODULE BrainSearch ----------------------------
(***************************************************************************)
(* vectorforge/brain.py, run_research: rounds that diagnose the current    *)
(* best on the validation rows, choose the axis with the most measured     *)
(* need among those the goal allows, try its family of candidates and keep *)
(* what is better; at the end, the next experiment that is recommended.    *)
(***************************************************************************)
EXTENDS Integers

CONSTANTS BrainRounds,     \* budget.max_rounds
          MaxExperiments,  \* values of budget.max_experiments
          MaxFamily,       \* the most candidates of an axis
          ValScores,       \* validation scores, in steps of _EPS
          Bar,             \* verification.threshold
          StopMargin       \* _STOP_MARGIN

ASSUME BrainAssumption ==
    /\ {BrainRounds, MaxFamily} \subseteq Nat \ {0}
    /\ MaxExperiments \subseteq Nat \ {0}
    /\ ValScores \subseteq Int
    /\ {Bar, StopMargin} \subseteq Nat

Axes == {"rebalance", "model_class", "representation", "calibration"}

VARIABLES
    setup,        \* the axes allowed, whether the classes are imbalanced, the
                  \* budget of experiments
    bpc,          \* "round" or "over"
    brnd,         \* rounds finished
    val,          \* best["val"]
    uncalibrated, \* the best's calibration error is above 0.10
    justified,    \* justified_axes
    triedAxes,    \* tried_axes
    experiments,
    stopped,      \* why the rounds ended, "none" when they were used up
    advice        \* next_experiment's action, "none" before

brainVars == <<setup, bpc, brnd, val, uncalibrated, justified, triedAxes,
               experiments, stopped, advice>>

\* The baseline is the first experiment.
BrainInit ==
    /\ setup \in [allowed : SUBSET Axes, imbalanced : BOOLEAN,
                  budget : MaxExperiments]
    /\ bpc = "round"
    /\ brnd = 0
    /\ val \in ValScores
    /\ uncalibrated \in BOOLEAN
    /\ justified = {}
    /\ triedAxes = {}
    /\ experiments = 1
    /\ stopped = "none"
    /\ advice = "none"

\* Axes with measured evidence in this round.
Evidence ==
    {a \in setup.allowed :
       \/ a = "rebalance" /\ setup.imbalanced
       \/ a \in {"model_class", "representation"} /\ val < Bar
       \/ a = "calibration" /\ uncalibrated}

\* How an axis is ranked: a model scan comes before the representation, all
\* others come before the calibration; the imbalance may weigh anything.
Outranks(a, b) ==
    \/ a = "model_class" /\ b = "representation"
    \/ a # "calibration" /\ b = "calibration"

\* Slip: only the axis that is tried counts as justified.
SlipJustified(axis) == justified \cup {axis}

Justified(axis) == justified \cup Evidence

Untried == Evidence \ triedAxes

ClearsWithMargin == val >= Bar + StopMargin

RoundsOver == brnd = BrainRounds

-----------------------------------------------------------------------------
(* The rounds *)

StopSearch ==
    /\ bpc = "round" /\ ~RoundsOver
    /\ \/ ClearsWithMargin /\ stopped' = "margin" /\ UNCHANGED justified
       \/ /\ ~ClearsWithMargin /\ experiments >= setup.budget
          /\ stopped' = "experiments"
          /\ UNCHANGED justified
       \/ /\ ~ClearsWithMargin /\ experiments < setup.budget
          /\ Untried = {}
          /\ justified' = justified \cup Evidence
          /\ stopped' = "no_axis"
    /\ bpc' = "over"
    /\ UNCHANGED <<setup, brnd, val, uncalibrated, triedAxes, experiments, advice>>

UseUpRounds ==
    /\ bpc = "round" /\ RoundsOver
    /\ bpc' = "over"
    /\ UNCHANGED <<setup, brnd, val, uncalibrated, justified, triedAxes,
                   experiments, stopped, advice>>

\* A candidate replaces the best by more than _EPS, the step of the scores.
Kept(s) == s > val + 1

\* One axis: its family is fitted and scored, or all of it fails, which a
\* model scan does not survive.
TryAxis ==
    /\ bpc = "round" /\ ~RoundsOver
    /\ ~ClearsWithMargin
    /\ experiments < setup.budget
    /\ \E axis \in Untried, n \in 1..MaxFamily :
         /\ \A b \in Untried : ~Outranks(b, axis)
         /\ justified' = Justified(axis)
         /\ triedAxes' = triedAxes \cup {axis}
         /\ experiments' = experiments + n
         /\ \/ axis # "model_class" /\ UNCHANGED <<val, uncalibrated>>
            \/ \E s \in ValScores :
                 IF Kept(s) THEN val' = s /\ uncalibrated' \in BOOLEAN
                 ELSE UNCHANGED <<val, uncalibrated>>
    /\ brnd' = brnd + 1
    /\ UNCHANGED <<setup, bpc, stopped, advice>>

\* For a score that counts labels, calibration is no lever.
Levers == (justified \cap setup.allowed) \ {"calibration"}

Recommend ==
    /\ bpc = "over" /\ advice = "none"
    /\ advice' = IF val >= Bar THEN "certify"
                 ELSE IF Levers \ triedAxes # {} THEN "try_axis"
                 ELSE "acquire_labels"
    /\ UNCHANGED <<setup, bpc, brnd, val, uncalibrated, justified, triedAxes,
                   experiments, stopped>>

BrainNext == StopSearch \/ UseUpRounds \/ TryAxis \/ Recommend

BrainSpec == BrainInit /\ [][BrainNext]_brainVars

-----------------------------------------------------------------------------
(* Properties *)

\* The variables keep their types.
BrainTypeOK ==
    /\ bpc \in {"round", "over"}
    /\ brnd \in 0..BrainRounds
    /\ val \in ValScores
    /\ uncalibrated \in BOOLEAN
    /\ {justified, triedAxes} \subseteq SUBSET Axes
    /\ experiments \in Nat
    /\ stopped \in {"none", "margin", "experiments", "no_axis"}
    /\ advice \in {"none", "certify", "try_axis", "acquire_labels"}

\* "Every allowed axis was exhausted": labels are asked for only when each
\* axis that could close the gap has been tried, whatever ended the rounds and
\* although the evidence is what earlier rounds saw of earlier bests; except
\* that a budget of one experiment ends the rounds before any axis is looked at.
LabelsAskedWhenExhausted ==
    advice = "acquire_labels" =>
      \/ triedAxes = {} /\ setup.budget = 1
      \/ /\ {"model_class", "representation"} \cap setup.allowed \subseteq triedAxes
         /\ setup.imbalanced => {"rebalance"} \cap setup.allowed \subseteq triedAxes
=============================================================================
