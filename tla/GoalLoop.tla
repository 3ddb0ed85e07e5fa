------------------------------ MODULE GoalLoop ------------------------------
(***************************************************************************)
(* run_goal_loop (vfplatform/loop.py): the search loop of one goal run and *)
(* the gates between it and the sealed test.  The loop runs in one thread; *)
(* the operator's cancellation and the wall clock move beside it.  A model *)
(* is reduced to what the loop tells apart: its validation score, its      *)
(* validation lower bound, whether it keeps the latency and calibration    *)
(* limits, and where its estimator lives.                                  *)
(***************************************************************************)
EXTENDS Integers, Sequences, FiniteSets

CONSTANTS Moves,           \* the moves a proposer can come up with
          Grid,            \* those the deterministic grid fallback knows
          Baseline,        \* the anchor move of round 0
          Family,          \* the family of each move
          Size,            \* candidates of a move: families times seeds
          Scores,          \* validation scores
          Candidates,      \* the models training can produce
          MaxBound,        \* lower bounds are 0..MaxBound
          Theta,           \* the threshold a certificate has to exceed
          StopMargin,      \* stop_margin
          MaxRounds,       \* max_rounds
          Budget,          \* budget_experiments
          PerRoundExec,    \* PER_ROUND_EXEC
          KNoImprove,      \* K_NO_IMPROVE
          MaxCost,         \* max_cost_usd, in cost units
          MoveCosts,       \* measured cost of a move's finished candidates
          MaxAcquire,      \* acquire_budget
          MaxAuthored      \* sources the authored arm may bring

\* The bound of a model whose bound could not be computed (None in the code).
NoBound == -1
Bounds == 0..MaxBound
AllMoves == Moves \union {Baseline}

Places == {"local", "remote", "authored"}

Models == [val: Scores, lb: Bounds \union {NoBound}, meets: BOOLEAN,
           place: Places]

NoModel == [val |-> -1, lb |-> NoBound, meets |-> FALSE, place |-> "none"]

ASSUME GoalLoopAssumption ==
    /\ IsFiniteSet(Moves)
    /\ Grid \subseteq Moves
    /\ Baseline \notin Moves
    /\ DOMAIN Family = AllMoves
    /\ Size \in [AllMoves -> Nat \ {0}]
    /\ Scores \subseteq Nat
    /\ Candidates \subseteq Models
    /\ MoveCosts \subseteq Nat
    /\ {MaxBound, StopMargin, MaxCost, MaxAcquire, MaxAuthored} \subseteq Nat
    /\ Theta \in Bounds
    /\ {MaxRounds, Budget, PerRoundExec, KNoImprove} \subseteq Nat \ {0}

Decisions == {"cancelled", "unsupported", "blocked", "no_model",
              "honest_stop", "certified", "do_not_certify", "best_effort",
              "raised"}

VARIABLES
    \* the request, chosen once
    objective,   \* "certify" or "maximize"
    paid,        \* the provider bills
    worker,      \* candidates run on a worker, not in this process
    authored,    \* authored_propose, dropped by the acquisition re-run
    \* the surroundings
    clock,       \* "untimed", or the wall clock against the time budget
    cancelled,   \* should_cancel() answers TRUE
    cancelAt,    \* when it first did: "never", in the "search", in the "audit"
                 \* that asks nobody, or "late", behind the last check
    \* the loop
    phase, data, acquire, rnd, batch, used, nruns, winner, floor, stagnant,
    cost,        \* total_cost, what the cost gate reads
    spend,       \* what the fan-outs were billed, over all legs of the run
    credit,      \* granted checkpoints not yet used by a billed call
    \* the sealed test and the result
    peeks, sealedLB, servable, served, negative, decision

request == <<objective, paid, worker>>
surround == <<clock, cancelled, cancelAt>>
search == <<data, acquire, rnd, batch, used, nruns, winner, floor, stagnant,
            authored>>
money == <<cost, spend, credit>>
result == <<peeks, sealedLB, servable, served, negative>>
vars == <<request, surround, phase, search, money, result, decision>>

Running == phase # "done"
SearchPhases == {"intake", "audit", "exec", "cleared", "measure", "round",
                 "gate"}
WithinBudget == clock = "within"

Finish(d) ==
    /\ phase' = "done"
    /\ decision' = d

\* checkpoint.clear: a free provider always passes; a paid one needs approve_spend
\* or the approver's word, which may differ from call to call.
MayRefuse == paid
GrantedCredit == IF paid THEN 1 ELSE 0

Init ==
    /\ objective \in {"certify", "maximize"}
    /\ paid \in BOOLEAN
    /\ worker \in {w \in BOOLEAN : paid => w}
    /\ authored \in BOOLEAN
    /\ clock \in {"untimed", "within"}
    /\ cancelled = FALSE
    /\ cancelAt = "never"
    /\ phase = "intake"
    /\ acquire \in 0..MaxAcquire
    /\ data = "unaudited"
    /\ rnd = 0
    /\ batch = <<>>
    /\ used = {}
    /\ nruns = 0
    /\ winner = NoModel
    /\ floor = NoBound
    /\ stagnant = 0
    /\ cost = 0
    /\ spend = 0
    /\ credit = 0
    /\ peeks = 0
    /\ sealedLB = NoBound
    /\ servable = FALSE
    /\ served = FALSE
    /\ negative = FALSE
    /\ decision = "none"

-----------------------------------------------------------------------------
(* The surroundings *)

\* The operator stops the run; the request stays set.
Cancel ==
    /\ Running
    /\ ~cancelled
    /\ cancelled' = TRUE
    /\ cancelAt' = IF phase = "audit" THEN "audit"
                   ELSE IF phase \in SearchPhases THEN "search" ELSE "late"
    /\ UNCHANGED <<request, clock, phase, search, money, result, decision>>

\* Time passes: the budget runs out, later the hard cap is reached.
Tick ==
    /\ Running
    /\ \/ clock = "within" /\ clock' = "spent"
       \/ clock = "spent" /\ clock' = "capped"
    /\ UNCHANGED <<request, cancelled, cancelAt, phase, search, money, result,
                   decision>>

-----------------------------------------------------------------------------
(* Intake: one cancel check, then decline, block, or start with the anchor *)

\* The only place before the first move where the loop asks for a cancel.
CheckIntake ==
    /\ phase = "intake"
    /\ \/ /\ cancelled
          /\ Finish("cancelled")
       \/ /\ ~cancelled
          /\ phase' = "audit"
          /\ UNCHANGED decision
    /\ UNCHANGED <<request, surround, search, money, result>>

\* No harness, leaking or overlapping data, or an exception on the way; a
\* cancel that has arrived meanwhile is not asked for.
AuditEnds(d) ==
    /\ phase = "audit"
    /\ data' = IF d = "blocked" THEN "rejected" ELSE data
    /\ Finish(d)
    /\ UNCHANGED <<request, surround, acquire, rnd, batch, used, nruns, winner,
                   floor, stagnant, authored, money, result>>

AuditAccepts ==
    /\ phase = "audit"
    /\ data' = "clean"
    /\ batch' = <<Baseline>>
    /\ phase' = "exec"
    /\ UNCHANGED <<request, surround, acquire, rnd, used, nruns, winner, floor,
                   stagnant, authored, money, result, decision>>

-----------------------------------------------------------------------------
(* execute_move: checkpoint, cancel check, fan-out, bookkeeping *)

\* Slip: only the while condition looks at the experiment budget.
SlipBatchOver == batch = <<>>

\* The for-loop over the batch stops at the experiment budget.
BatchOver == batch = <<>> \/ (rnd > 0 /\ nruns >= Budget)

\* The checkpoint comes first: refused, or granted before a cancel is seen.
ClearMove ==
    /\ phase = "exec"
    /\ ~BatchOver
    /\ \/ /\ MayRefuse
          /\ Finish("raised")
          /\ UNCHANGED credit
       \/ /\ credit' = credit + GrantedCredit
          /\ phase' = "cleared"
          /\ UNCHANGED decision
    /\ UNCHANGED <<request, surround, search, cost, spend, result>>

\* A cancel leaves the grant unused; otherwise the fan-out begins.
StartMove ==
    /\ phase = "cleared"
    /\ \/ /\ cancelled
          /\ Finish("cancelled")
       \/ /\ ~cancelled
          /\ phase' = "measure"
          /\ UNCHANGED decision
    /\ UNCHANGED <<request, surround, search, money, result>>

\* Stable sort, best first: a later run wins only with a higher score.
Better(new) == IF new.val > winner.val THEN new ELSE winner

\* best is the best finished candidate of the move, NoModel if all failed.
FinishMove(best, c) ==
    /\ phase = "measure"
    /\ best # NoModel => best.place = IF worker THEN "remote" ELSE "local"
    /\ best = NoModel => c = 0
    /\ winner' = Better(best)
    /\ nruns' = nruns + Size[Head(batch)]
    /\ used' = used \union {Head(batch)}
    /\ batch' = Tail(batch)
    /\ cost' = cost + c
    /\ spend' = IF paid THEN spend + c ELSE spend
    /\ credit' = credit - GrantedCredit
    /\ phase' = "exec"
    /\ UNCHANGED <<request, surround, data, acquire, rnd, floor, stagnant,
                   authored, result, decision>>

\* provider.map raises: the provider became unavailable during the fan-out.
MoveRaises ==
    /\ phase = "measure"
    /\ credit' = credit - GrantedCredit
    /\ Finish("raised")
    /\ UNCHANGED <<request, surround, search, cost, spend, result>>

\* execute_authored(0): n sandboxed candidates after the anchor, whose best
\* finished one is best.
FinishAnchor(best, n) ==
    /\ phase = "exec"
    /\ rnd = 0
    /\ BatchOver
    /\ n > 0 => authored
    /\ best # NoModel => n > 0 /\ best.place = "authored"
    /\ winner' = Better(best)
    /\ nruns' = nruns + n
    /\ rnd' = 1
    /\ phase' = "round"
    /\ UNCHANGED <<request, surround, data, acquire, batch, used, floor,
                   stagnant, authored, money, result, decision>>

-----------------------------------------------------------------------------
(* The while loop *)

LoopGoesOn == (rnd < MaxRounds \/ WithinBudget) /\ nruns < Budget

Cleared == winner.lb # NoBound /\ winner.lb >= Theta + StopMargin

StopsEarly ==
    \/ clock = "capped"
    \/ Cleared /\ objective = "certify" /\ ~WithinBudget

\* Top of a round: leave the loop, or end as cancelled.
LeaveLoop ==
    /\ phase = "round"
    /\ \/ /\ LoopGoesOn
          /\ cancelled
          /\ Finish("cancelled")
       \/ /\ ~LoopGoesOn \/ (~cancelled /\ StopsEarly)
          /\ phase' = "gate"
          /\ UNCHANGED decision
    /\ UNCHANGED <<request, surround, search, money, result>>

Untried == Moves \ used
Limit == LET left == Budget - nruns IN IF left < 12 THEN left ELSE 12

\* propose_moves: novel moves only, none at all only if the grid is used up.
Proposals ==
    {P \in SUBSET Untried : /\ Cardinality(P) <= Limit
                            /\ P = {} => Grid \subseteq used}

BatchSize(P) ==
    LET families == Cardinality({Family[m] : m \in P})
        room == Budget - nruns
        Smaller(a, b) == IF a < b THEN a ELSE b
    IN  Smaller(families, Smaller(PerRoundExec, room))

\* The best-ranked move of each family, in some VoI order.
Batches(P) ==
    {b \in [1..BatchSize(P) -> P] :
        \A i, j \in 1..BatchSize(P) : i # j => Family[b[i]] # Family[b[j]]}

ProposeRound ==
    /\ phase = "round"
    /\ LoopGoesOn
    /\ ~cancelled
    /\ ~StopsEarly
    /\ \E P \in Proposals \ {{}} : batch' \in Batches(P)
    /\ floor' = winner.lb
    /\ phase' = "exec"
    /\ UNCHANGED <<request, surround, data, acquire, rnd, used, nruns, winner,
                   stagnant, authored, money, result, decision>>

\* No proposal left: re-run on acquired rows that pass the audit, or stop.
Exhausted ==
    /\ phase = "round"
    /\ LoopGoesOn
    /\ ~cancelled
    /\ ~StopsEarly
    /\ {} \in Proposals

StopExhausted ==
    /\ Exhausted
    /\ phase' = "gate"
    /\ UNCHANGED <<request, surround, search, money, result, decision>>

\* Slip: the re-run is handed the same acquisition budget.
SlipAcquireLeft == acquire

AcquireLeft == acquire - 1

\* The recursive call: a new leg with everything but the request reset.
AcquireAndRerun ==
    /\ Exhausted
    /\ acquire > 0
    /\ acquire' = AcquireLeft
    /\ data' = "unaudited"
    /\ rnd' = 0
    /\ batch' = <<>>
    /\ used' = {}
    /\ nruns' = 0
    /\ winner' = NoModel
    /\ floor' = NoBound
    /\ stagnant' = 0
    /\ cost' = 0
    /\ authored' = FALSE
    /\ clock' = IF clock = "untimed" THEN clock ELSE "within"
    /\ phase' = "intake"
    /\ UNCHANGED <<request, cancelled, cancelAt, spend, credit, result,
                   decision>>

\* The caller's authored_sources_fn or acquire_fn raises; nothing catches it.
CallbackRaises ==
    /\ \/ phase = "exec" /\ rnd = 0 /\ BatchOver /\ authored
       \/ Exhausted /\ acquire > 0
    /\ Finish("raised")
    /\ UNCHANGED <<request, surround, search, money, result>>

\* Slip: stagnation stops the search even while the time budget runs.
SlipStagnationStops(rounds) == rounds >= KNoImprove

StagnationStops(rounds) == rounds >= KNoImprove /\ ~WithinBudget

EndRound ==
    /\ phase = "exec"
    /\ rnd > 0
    /\ BatchOver
    /\ stagnant' = IF winner.lb > floor THEN 0 ELSE stagnant + 1
    /\ rnd' = rnd + 1
    /\ batch' = <<>>
    /\ phase' = IF StagnationStops(stagnant') THEN "gate" ELSE "round"
    /\ UNCHANGED <<request, surround, data, acquire, used, nruns, winner,
                   floor, authored, money, result, decision>>

-----------------------------------------------------------------------------
(* Between the search and the sealed test *)

\* Slip: a bound equal to the threshold passes.
SlipFailsValGate ==
    /\ objective = "certify"
    /\ winner.lb # NoBound
    /\ winner.lb < Theta

FailsValGate ==
    /\ objective = "certify"
    /\ winner.lb # NoBound
    /\ winner.lb <= Theta

\* Slip: no cancel check between the loop and the sealed test.
SlipCancelledAtGate == FALSE

CancelledAtGate == cancelled

\* The last cancel check, no model, the validation-bound gate.
Gate ==
    /\ phase = "gate"
    /\ \/ /\ CancelledAtGate
          /\ Finish("cancelled")
          /\ UNCHANGED negative
       \/ /\ ~CancelledAtGate
          /\ winner = NoModel
          /\ Finish("no_model")
          /\ UNCHANGED negative
       \/ /\ ~CancelledAtGate
          /\ winner # NoModel
          /\ FailsValGate
          /\ negative' = TRUE
          /\ Finish("honest_stop")
       \/ /\ ~CancelledAtGate
          /\ winner # NoModel
          /\ ~FailsValGate
          /\ phase' = "certify"
          /\ UNCHANGED <<negative, decision>>
    /\ UNCHANGED <<request, surround, search, money, peeks, sealedLB, servable,
                   served>>

\* An in-process winner, or a worker's winner re-fitted on the platform.
PredictLocally ==
    /\ phase = "certify"
    /\ winner.place \in {"local", "remote"}
    /\ servable' = TRUE
    /\ phase' = "peek"
    /\ UNCHANGED <<request, surround, search, money, peeks, sealedLB, served,
                   negative, decision>>

\* Slip: the winner's re-run is not taken through the checkpoint.
SlipPredictRemotely ==
    /\ phase = "certify"
    /\ winner.place \in {"remote", "authored"}
    /\ servable' = FALSE
    /\ phase' = "rerun"
    /\ UNCHANGED <<request, surround, search, money, peeks, sealedLB, served,
                   negative, decision>>

\* The winner re-runs remotely: spend gate first, then predictions or nothing.
PredictRemotely ==
    /\ phase = "certify"
    /\ winner.place \in {"remote", "authored"}
    /\ \/ /\ MayRefuse
          /\ Finish("raised")
          /\ UNCHANGED <<credit, servable>>
       \/ /\ credit' = credit + GrantedCredit
          /\ servable' = FALSE
          /\ phase' = "rerun"
          /\ UNCHANGED decision
    /\ UNCHANGED <<request, surround, search, cost, spend, peeks, sealedLB,
                   served, negative>>

\* Missing, misaligned or unbound predictions end the run before any peek.
RerunReturns ==
    /\ phase = "rerun"
    /\ credit' = credit - GrantedCredit
    /\ \/ phase' = "peek" /\ UNCHANGED decision
       \/ \E d \in {"no_model", "raised"} : Finish(d)
    /\ UNCHANGED <<request, surround, search, cost, spend, result>>

\* certify_on_sealed: predict, count the peek, check the length, bound.
Peek ==
    /\ phase = "peek"
    /\ \/ /\ Finish("raised")
          /\ peeks' \in {peeks, peeks + 1}
          /\ UNCHANGED sealedLB
       \/ /\ peeks' = peeks + 1
          /\ sealedLB' \in Bounds
          /\ phase' = "verdict"
          /\ UNCHANGED decision
    /\ UNCHANGED <<request, surround, search, money, servable, served, negative>>

\* Slip: the certificate needs the bound only to reach the threshold.
SlipBoundClears == sealedLB >= Theta

BoundClears == sealedLB > Theta

\* Slip: the cost gate is left out of the certificate.
SlipCertifiable == BoundClears /\ winner.meets

CostOk == cost <= MaxCost
Certifiable == BoundClears /\ winner.meets /\ CostOk

\* The verify-spec gates and the serving registry, whose failure is caught.
Verdict ==
    /\ phase = "verdict"
    /\ served' \in IF Certifiable /\ servable THEN BOOLEAN ELSE {FALSE}
    /\ phase' = "report"
    /\ UNCHANGED <<request, surround, search, money, peeks, sealedLB, servable,
                   negative, decision>>

Label ==
    IF Certifiable THEN "certified"
    ELSE IF objective = "maximize" THEN "best_effort"
    ELSE "do_not_certify"

\* Narration and the experiment store, which may raise behind the verdict.
Report ==
    /\ phase = "report"
    /\ \E d \in {Label, "raised"} : Finish(d)
    /\ UNCHANGED <<request, surround, search, money, result>>

-----------------------------------------------------------------------------
Loop ==
    \/ CheckIntake
    \/ \E d \in {"unsupported", "blocked", "raised"} : AuditEnds(d)
    \/ AuditAccepts
    \/ ClearMove
    \/ StartMove
    \/ \E best \in Candidates \union {NoModel}, c \in MoveCosts \union {0} :
          FinishMove(best, c)
    \/ MoveRaises
    \/ \E best \in Candidates \union {NoModel}, n \in 0..MaxAuthored :
          FinishAnchor(best, n)
    \/ LeaveLoop
    \/ ProposeRound
    \/ StopExhausted
    \/ AcquireAndRerun
    \/ CallbackRaises
    \/ EndRound
    \/ Gate
    \/ PredictLocally
    \/ PredictRemotely
    \/ RerunReturns
    \/ Peek
    \/ Verdict
    \/ Report

Next == Loop \/ Cancel \/ Tick

\* The loop is one thread that keeps running; nobody has to cancel it.
Spec == Init /\ [][Next]_vars /\ WF_vars(Loop)

-----------------------------------------------------------------------------
(* Properties *)

Phases == SearchPhases \union {"certify", "rerun", "peek", "verdict",
                              "report", "done"}

TypeOK ==
    /\ objective \in {"certify", "maximize"}
    /\ {paid, worker, authored, cancelled, servable, served, negative}
          \subseteq BOOLEAN
    /\ clock \in {"untimed", "within", "spent", "capped"}
    /\ cancelAt \in {"never", "search", "audit", "late"}
    /\ phase \in Phases
    /\ data \in {"unaudited", "clean", "rejected"}
    /\ batch \in Seq(AllMoves)
    /\ used \subseteq AllMoves
    /\ {acquire, rnd, nruns, stagnant, cost, spend, credit, peeks} \subseteq Nat
    /\ winner \in Candidates \union {NoModel}
    /\ {floor, sealedLB} \subseteq Bounds \union {NoBound}
    /\ decision \in Decisions \union {"none"}

\* After the first look at the sealed test nothing the run selects by, and no
\* further look, changes any more (loop.py: one counted peek, winner frozen).
SelectionFrozen ==
    [][peeks > 0 => UNCHANGED <<winner, nruns, used, peeks, data>>]_vars

\* A run that ends certified, and a run that put a model into the registry,
\* looked once, on audited data, and every gate holds of the model selected.  A
\* model is served by a certified run only, or by one that raised while it
\* reported its verdict (loop.py:1144-1190).
CertificateSound ==
    /\ decision = "certified" \/ served =>
          /\ peeks = 1
          /\ data = "clean"
          /\ winner # NoModel
          /\ sealedLB > Theta
          /\ winner.meets
          /\ cost <= MaxCost
    /\ served /\ phase = "done" => decision \in {"certified", "raised"}

\* In certify mode the sealed test is spent only on a model whose validation
\* bound, if there is one, already clears the threshold.
NoWastedPeek ==
    objective = "certify" /\ peeks > 0 =>
        winner.lb = NoBound \/ winner.lb > Theta

\* A cancel that arrives before the last check of the loop ends the run
\* without a look at the sealed test and without a verdict on a model.  One that
\* arrives while the data is split and audited may still be answered by what the
\* audit finds, since nobody asks for it there.
CancelNeverPeeks ==
    /\ decision = "cancelled" => peeks = 0
    /\ cancelAt \in {"search", "audit"} =>
          /\ peeks = 0
          /\ decision \in {"none", "cancelled", "raised"} \union
                (IF cancelAt = "audit" THEN {"unsupported", "blocked"} ELSE {})

\* After round 0 the experiment budget is overrun by less than one move,
\* however the batch was put together and whatever its moves carry.
OvershootIsOneMove ==
    \/ used \subseteq {Baseline}
    \/ \E m \in used : nruns < Budget + Size[m]

\* While the time budget runs, the loop stops only for the experiment budget
\* or because the proposer has nothing left (never for stagnation, rounds or
\* a bound that already clears).
KeepsSearching ==
    [][WithinBudget /\ phase' = "gate" /\ phase \in {"round", "exec"}
          => nruns >= Budget \/ Grid \subseteq used]_vars

\* A billed call (the fan-out, the winner's re-run) always holds a checkpoint
\* that was granted for it; at most one grant is outstanding, and one is left
\* over only when a cancel is seen between the grant and the fan-out.
BilledCallsCleared ==
    /\ paid /\ phase \in {"cleared", "measure", "rerun"} => credit = 1
    /\ credit # 0 =>
          /\ paid
          /\ credit = 1
          /\ \/ phase \in {"cleared", "measure", "rerun"}
             \/ phase = "done" /\ decision = "cancelled"

\* What the cost gate is said to read: the cumulative real spend across the run
\* (loop.py:469).  So a certified run has spent no more than its limit.
CostIsCumulative == decision = "certified" => spend <= MaxCost

\* Every run comes to a decision.
Termination == <>(phase = "done")

\* What a run promises, whatever its search does.
Promise == INSTANCE SealedSelection WITH
    Choices <- Candidates,
    NoChoice <- NoModel,
    Unmeasured <- NoBound,
    choice <- winner,
    sealed <- sealedLB,
    outcome <- IF decision = "none" THEN "open"
               ELSE IF decision = "certified" THEN "certificate"
               ELSE "no_certificate"

\* The loop with all its rounds, legs and gates keeps that promise.
KeepsPromise == Promise!Spec
=============================================================================
