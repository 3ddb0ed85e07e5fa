---------------------------- MODULE Orchestrate ----------------------------
(***************************************************************************)
(* attestra/orchestration/orchestrator.py: calls of orchestrate(), one     *)
(* after another, in a process that may die in any of them.  A call runs   *)
(* one of three engines, may let a parallel pool and a GPU try to beat the *)
(* engine's score, decides by the engine's certificate, submits what it    *)
(* certifies to the false-discovery stream, records the decision and goes  *)
(* on to work that may still raise.                                        *)
(*                                                                         *)
(* The run of an engine is one step (module ResearchEngine has the catalog *)
(* engine's own).  The checkpoint a phase saves is under an identifier no  *)
(* other call computes (sha256 of the goal and the time), so that no call  *)
(* finds one: it is left out, and with it the code that would resume.      *)
(***************************************************************************)
EXTENDS Integers, Sequences

CONSTANTS MaxCalls,   \* bound: calls of orchestrate()
          Phases,     \* len(exp_plan.phases)
          Scores,     \* scores an engine, the pool or a GPU can report
          Threshold,  \* config.threshold or 1.0
          Engines,    \* the engines that are installed and configured
          WithPool,   \* config.use_parallel
          WithGpu     \* a GPU is reachable

ASSUME OrchestrateAssumption ==
    /\ MaxCalls \in Nat
    /\ Phases \in Nat
    /\ Scores \subseteq Int
    /\ Threshold \in Int
    /\ Engines \subseteq {"frontier", "generative", "catalog"}
    /\ {WithPool, WithGpu} \subseteq BOOLEAN

Calls == 1..MaxCalls
Decisions == {"certified", "do_not_certify", "honest_stop", "error"}

\* A technique is named by the phase whose engine found it, 1 for an engine
\* that is not run in phases; the pool and the GPU have names of their own.
NoName == 0
Pool == Phases + 2
Gpu == Phases + 3
Runs == 1..(Phases + 1)
Names == {NoName, Pool, Gpu} \cup Runs

\* The certificate an engine returns: none, one whose bound clears the
\* threshold, or one whose bound does not.
Certs == {"none", "passed", "failed"}

\* What an engine reports.  The frontier engine's gates may refuse what its
\* certificate passes (confirmed is FALSE), and an engine that got nothing
\* reports the score 0 that best_score starts from.
Results == [score : Scores \cup {0}, cert : Certs, confirmed : BOOLEAN]

\* Reports of the catalog engine: it reports no score below 0, whatever the
\* scores of what it certified.
CatalogResults == {r \in Results : r.score >= 0 /\ r.confirmed}

VARIABLES
    stage,      \* where the call is, "idle" between calls
    call,       \* the number of the call
    engine,     \* result.engine_type
    reports,    \* what the engine reported in each phase
    late,       \* the time budget of the call is used up
    best,       \* best_overall_score and best_overall_technique
    held,       \* the run best_overall_cert and best_overall_estimator are of
    decision,   \* result.decision
    peeks,      \* looks of this call at the sealed rows
    stream,     \* calls and techniques in fdr_state.json
    registry,   \* calls and decisions in the experiment registry
    answers     \* what each call returned

working == <<engine, reports, late, best, held, decision, peeks>>
callVars == <<stage, call, working, stream, registry, answers>>

CallInit ==
    /\ stage = "idle"
    /\ call = 0
    /\ engine = "none"
    /\ reports = <<>>
    /\ late = FALSE
    /\ best = [score |-> 0, name |-> NoName]
    /\ held = NoName
    /\ decision = "error"
    /\ peeks = 0
    /\ stream = <<>>
    /\ registry = <<>>
    /\ answers = [c \in Calls |-> "none"]

-----------------------------------------------------------------------------
(* The call *)

\* What a call works on is its own and gone with it.
Forget ==
    /\ engine' = "none"
    /\ reports' = <<>>
    /\ late' = FALSE
    /\ best' = [score |-> 0, name |-> NoName]
    /\ held' = NoName
    /\ decision' = "error"
    /\ peeks' = 0

\* Nobody calls again after a certificate (StrategyLoop!Certified).
Begin ==
    /\ stage = "idle"
    /\ call < MaxCalls
    /\ \A c \in Calls : answers[c] # "certified"
    /\ call' = call + 1
    /\ stage' = "intake"
    /\ UNCHANGED <<working, stream, registry, answers>>

\* Intake, design and read-back choose the engine.
Intake ==
    /\ stage = "intake"
    /\ engine' \in Engines
    /\ stage' = "search"
    /\ UNCHANGED <<call, reports, late, best, held, decision, peeks, stream,
                   registry, answers>>

\* The sealed rows an engine looked at: a certificate is a look, and a look
\* can end without one.
Looks(r) == IF r.cert = "none" THEN {0, 1} ELSE {1}

\* The frontier and the generative engine run once and whatever they report
\* is the best there is.
RunOnce ==
    /\ stage = "search"
    /\ engine \in {"frontier", "generative"}
    /\ \E r \in Results :
         /\ engine = "generative" => r.confirmed
         /\ reports' = <<r>>
         /\ best' = [score |-> r.score, name |-> 1]
         /\ \E n \in Looks(r) : peeks' = peeks + n
    /\ held' = 1
    /\ stage' = "gpu"
    /\ UNCHANGED <<call, engine, late, decision, stream, registry, answers>>

\* Slip: a phase that leads without a certificate leaves the one there was.
SlipHeldAfter(r, p) ==
    IF r.score > best.score /\ r.cert # "none" THEN p ELSE held

\* The phase that leads brings its certificate and its estimator along.
HeldAfter(r, p) == IF r.score > best.score THEN p ELSE held

BestAfter(r, p) ==
    IF r.score > best.score THEN [score |-> r.score, name |-> p] ELSE best

\* One phase of the catalog engine, on the rows sealed by the same seed.
RunPhase ==
    /\ stage = "search"
    /\ engine = "catalog"
    /\ ~late
    /\ Len(reports) < Phases
    /\ \E r \in CatalogResults :
         /\ reports' = Append(reports, r)
         /\ best' = BestAfter(r, Len(reports) + 1)
         /\ held' = HeldAfter(r, Len(reports) + 1)
         /\ \E n \in Looks(r) : peeks' = peeks + n
    /\ stage' = IF WithPool THEN "pool" ELSE "search"
    /\ UNCHANGED <<call, engine, late, decision, stream, registry, answers>>

\* Supplementary proposals: one that beats the best takes the score and the
\* name, and nothing else.
RunPool ==
    /\ stage = "pool"
    /\ \/ UNCHANGED best
       \/ \E s \in Scores : /\ s > best.score
                            /\ best' = [score |-> s, name |-> Pool]
    /\ stage' = "search"
    /\ UNCHANGED <<call, engine, reports, late, held, decision, peeks, stream,
                   registry, answers>>

TimePasses ==
    /\ engine = "catalog"
    /\ stage \in {"search", "pool"}
    /\ ~late
    /\ late' = TRUE
    /\ UNCHANGED <<stage, call, engine, reports, best, held, decision, peeks,
                   stream, registry, answers>>

LeavePhases ==
    /\ stage = "search"
    /\ engine = "catalog"
    /\ late \/ Len(reports) = Phases
    /\ stage' = "gpu"
    /\ UNCHANGED <<call, working, stream, registry, answers>>

\* A network trained on a GPU, local or rented, competes on a split of its
\* own when the best is below the threshold; its failures are caught.
EscalateToGpu ==
    /\ stage = "gpu"
    /\ \/ UNCHANGED best
       \/ /\ WithGpu /\ best.score < Threshold
          /\ \E s \in Scores : /\ s > best.score
                               /\ best' = [score |-> s, name |-> Gpu]
    /\ stage' = "decide"
    /\ UNCHANGED <<call, engine, reports, late, held, decision, peeks, stream,
                   registry, answers>>

-----------------------------------------------------------------------------
(* Decision, stores and the work after them *)

HeldCert == IF held = NoName THEN "none" ELSE reports[held].cert

\* The frontier's own gates count for the frontier's certificate only.
IsCertified ==
    HeldCert = "passed" /\ (engine = "frontier" => reports[held].confirmed)

Decided ==
    IF IsCertified THEN "certified"
    ELSE IF HeldCert # "none" THEN "do_not_certify"
    ELSE IF best.score > 0 THEN "honest_stop"
    ELSE "error"

Decide ==
    /\ stage = "decide"
    /\ decision' = Decided
    /\ stage' = IF IsCertified THEN "submit" ELSE "record"
    /\ UNCHANGED <<call, engine, reports, late, best, held, peeks, stream,
                   registry, answers>>

\* The certificate is submitted under the name of the best technique; what
\* the controller answers is noted in the result and decides nothing.
Submit ==
    /\ stage = "submit"
    /\ stream' = Append(stream, [call |-> call, name |-> best.name])
    /\ stage' = "record"
    /\ UNCHANGED <<call, working, registry, answers>>

\* The registry's record; a write that fails is passed over in silence.
Record ==
    /\ stage = "record"
    /\ registry' \in {registry,
                      Append(registry, [call |-> call, decision |-> decision])}
    /\ stage' = "wrapup"
    /\ UNCHANGED <<call, working, stream, answers>>

Return ==
    /\ stage = "wrapup"
    /\ answers' = [answers EXCEPT ![call] = decision]
    /\ stage' = "idle"
    /\ Forget
    /\ UNCHANGED <<call, stream, registry>>

\* Slip: the handler of the call's exceptions keeps the decision.
SlipFailed == decision

Failed == "error"

\* An exception that reaches the outer handler: in intake, in an engine's
\* run, in a batch of the pool that is not done in time, while the stream is
\* written, or in the harness library, the verification router and the
\* provenance record after everything was decided and recorded.
Raise ==
    /\ stage \in {"intake", "search", "pool", "submit", "wrapup"}
    /\ answers' = [answers EXCEPT ![call] = Failed]
    /\ stage' = "idle"
    /\ Forget
    /\ UNCHANGED <<call, stream, registry>>

\* The process dies; the files stay.
Crash ==
    /\ stage # "idle"
    /\ stage' = "idle"
    /\ Forget
    /\ UNCHANGED <<call, stream, registry, answers>>

CallNext ==
    \/ Begin \/ Intake \/ RunOnce \/ RunPhase \/ RunPool \/ TimePasses
    \/ LeavePhases \/ EscalateToGpu \/ Decide \/ Submit \/ Record \/ Return
    \/ Raise \/ Crash

CallSpec == CallInit /\ [][CallNext]_callVars

-----------------------------------------------------------------------------
(* Properties *)

\* The variables keep their types.
CallTypeOK ==
    /\ stage \in {"idle", "intake", "search", "pool", "gpu", "decide",
                  "submit", "record", "wrapup"}
    /\ call \in 0..MaxCalls
    /\ engine \in Engines \cup {"none"}
    /\ reports \in Seq(Results)
    /\ late \in BOOLEAN
    /\ best \in [score : Scores \cup {0}, name : Names]
    /\ held \in {NoName} \cup Runs
    /\ decision \in Decisions
    /\ peeks \in Nat
    /\ stream \in Seq([call : Calls, name : Names])
    /\ registry \in Seq([call : Calls, decision : Decisions])
    /\ answers \in [Calls -> Decisions \cup {"none"}]

\* Across phases, pool and GPU the certificate and the model that are
\* reported stay those of one phase, the last that led; the name and the
\* score reported with them are that phase's own unless the pool or the GPU
\* has beaten it, and no phase with a better score is passed over.
CertificateOfTheLeader ==
    /\ best.name \in Runs => held = best.name
    /\ held # NoName =>
         /\ held <= Len(reports)
         /\ best.name \in {held, Pool, Gpu}
         /\ best.name = held => best.score = reports[held].score
         /\ best.name # held => best.score > reports[held].score
    /\ \A p \in 1..Len(reports) : reports[p].score <= best.score

\* README.md: the held-out test is sealed and peeked exactly once.
PeekedOnce == peeks <= 1

\* The calls in the stream, and the registry as a function of the call.
Submitted == {stream[i].call : i \in 1..Len(stream)}
Recorded ==
    [c \in Calls |->
       IF \E i \in 1..Len(registry) : registry[i].call = c
       THEN registry[CHOOSE i \in 1..Len(registry) :
                       registry[i].call = c].decision
       ELSE "none"]

A == INSTANCE Attempt WITH
       open <- IF stage = "idle" THEN 0 ELSE call,
       submitted <- Submitted,
       recorded <- Recorded,
       answered <- answers

\* For the caller, the stream and the registry, a call that raises, dies or
\* loses its record anywhere is still an attempt: submitted once at most,
\* certified only when it was submitted, and of one mind with its record
\* unless it answers with an error.
ImplementsAttempt == A!Spec
=============================================================================
