# Attestra, specified in TLA+

This directory holds the formal verification project of the repository: TLA+
modules of the parts whose correctness depends on order, on several actors or
on failures, the TLC configurations that check them on small instances, and
theorems with proofs that TLAPS checks for every value of the constants.

Attestra searches for a model that reaches a user's goal, and issues a
*certificate* only when a statistical lower bound, measured **once** on a sealed
test set, exceeds a threshold. What the whole product stands on is therefore a
set of temporal promises and not a formula: the sealed rows are looked at once,
after selection is frozen, on audited data, every look is paid for in the
multiplicity of later certificates, money is not spent without a cleared
checkpoint, and a cancel really stops a run. Those promises are what is
specified here. The statistics themselves (bounds, bootstraps, audits) are
numeric code; their outcomes are inputs of the models.

## 1. Inventory

| Part | State | Operations | Interacts with | Hard behaviour | What makes it correct | Here |
|---|---|---|---|---|---|---|
| **Goal loop** `vfplatform/loop.py` (`run_goal_loop`) with `checkpoint.py`, `llm_moves.py`, `leaderboard.py` | winner, batch, tried moves, run count, stagnation, `total_cost`, acquisition budget | intake, round 0, rounds, fan-out, acquisition re-run (a recursive call), gates, sealed test, verdict | provider (`map`), spend checkpoint, `should_cancel`, sealed test, serving registry | a cancel or the wall clock at any point, providers that raise, recursion that resets counters, gates that see a stale or missing bound | one look, on audited data, after selection; no look when cancelled or hopeless; every gate met; the search ends | `GoalLoop` |
| **Sealed test and peek ledger** `vfplatform/sealed.py` | a JSON file `digest -> looks`, its `.tmp` | `record`, `count`, `certify_on_sealed` | every goal run on the same locked test | several processes, crashes between predict, count and rename | each look is paid by every later one; the ledger never forgets | `PeekLedger` |
| **Spend backstop** `webapp/spendcap.py` | `_spend_state.json`: date, counts, dollars; one process-wide lock | `try_charge`, `snapshot` | the LLM and GPU lanes of a run thread | threads, midnight, failed writes, restarts | grants of a day within its ceilings, durable, refused only when the ceiling is reached | `SpendCap` |
| **Run registry, streams, cancel** `webapp/server.py` | `_RUNS` (queue, done, created, cancel event) under a lock | POST /run, GET /events, POST /cancel, the run thread | goal loop, frontier and vertical engines, clients | a cancel that races the end, pruning, two streams on one queue, dead clients | a cancel in time is obeyed; finished means the result is there; streams are in order and close | `RunServer` |
| **Resumable frontier run** `frontier/longrun.py`, `checkpoint.py`, `core/orchestrator.py` | `RunState` on disk, champion in memory | round gate, round, checkpoint, certify | round loop | a crash between any two of them, a resume under another configuration | finished rounds are not redone, the best champion survives | `ResumableRun` |
| **Frontier portfolio** `frontier/portfolio.py` | rungs, survivors, pending futures, score band | launch, settle, kill, halve | candidate sandboxes | completion order decides what a kill rule sees | a kill never removes a possible survivor | `Portfolio` |
| **Attestra strategy loop** `attestra/orchestration/strategy_loop.py` | rung, best score, budget left, patience, attempts | attempt, diagnose, escalate, stop | `orchestrate` | attempts that overrun, a patience that is reset, vetoed attempts that do not climb | it stops when stuck; its budget is passed by one attempt's overrun at most | `StrategyLoop` |
| **Attestra orchestration** `attestra/orchestration/orchestrator.py` | engine, phase results, best score and name, decision | `orchestrate` | engines, process pool, GPU, FDR stream, registry | three sources of a best score, an outer exception handler around everything, deaths between stores | answer, stream and record agree; the certificate is of the leader | `Orchestrate` |
| **Catalog engine and health monitor** `attestra/cycle/engine.py`, `orchestration/health.py` | evaluated proposals, best so far, monitor's probes | round, propose, evaluate, abort, certify | proposers, sealed rows | five ways to leave the rounds, each before the same certification | what is certified is the best, looked at once, last | `ResearchEngine` |
| **Generative engine** `attestra/cycle/generative.py` | solution tree | seed, improve, branch, merge, certify | LLM, monitor, sealed rows | an LLM that answers nothing or broken code at any call | the best never drops | `GenerativeEngine` |
| **Append-only files** `vfplatform/wal.py`, `cross_experiment.py`, `attestra/ledger/registry.py`, `attestra/certification/fdr.py` | JSON lines, hash chain, alpha wealth | append, verify, load | concurrent runs | four disciplines of writing, none locked | what was acknowledged is read | `Ledgers` |
| **Serverless jobs** `vfplatform/providers.py` (RunPod) | job id, deadline, attempt | post, poll, retry, give up | endpoint, goal loop | a lost poll re-posts a job that still runs | time is bounded | `RemoteJobs` |
| **Rented pods** `vfplatform/_prime_intellect.py` | `pod_id`, ssh info | rent, wait, run, teardown | provider's API | a request that fails after it took effect | no pod that could be deleted is dropped | `GpuPod` |
| **Asynchronous jobs** `attestra/execution/parallel.py` | `AsyncJob` shared by three writers | submit, run, wait | orchestration | unlocked fields written by thread, submitter and waiter | a job that ended in time is seen | `AsyncJobs` |
| **Serving registry** `vfplatform/serving.py` | version directories, `CURRENT` | register, predict, rollback | goal loop, server | multi-file write, deaths between files, rollback to a half-written version | once served, always served | `ModelServing` |
| **VectorForge goal** `vectorforge/runner.py`, `store.py`, `data_engine.py`, `service.py` | `state.json`, training rows, winner, certificate, deployment | run, resume, predict | brain, files | a death between a stage and its mark, a second run of a finished goal | what is served is certified; one data move | `VectorForge` |
| **VectorForge model search** `vectorforge/brain.py` | best, evidence, tried axes, budget | round, stop, recommend | fits | evidence about bests that were replaced | labels are asked for last | `BrainSearch` |
| **Candidate sandboxes** `attestra/execution/sandbox.py`, `vfplatform/authoring.py`, `authored_sandbox.py`, `frontier/sandbox.py`, `frontier/core/execution.py` | child process, pipe, file or output | run, limit, kill, read the answer | every engine that executes written code | a child that is stopped within its answer | an answer is whole or an error | `Sandbox` |
| Ledgers of the same discipline `vfplatform/prereg.py`, `casebase_store.py`, `attestra/execution/checkpoint.py` | JSON lines | append | | as `Ledgers` | as `Ledgers` | see section 6 |
| Statistics and certifiers `vectorforge/science.py`, `attestra/core/science.py` | none | bounds, audits | every engine | numeric edges | calibrated bounds | not modelled: numeric |
| Features, neural models, intelligence, authoring content | none shared | transform, fit, screen code | loops | numeric or syntactic | per-input contracts | not modelled |
| Frontier budget, GPU backend, experiment phases, routing, worker, experiment store, case-base ranking | counters, remote paths, none | | | one actor each | | not modelled, see section 6 |
| Scripts, deployment, page, reports | | | | | | not modelled |

How they interact: the server starts one thread per run. The thread charges the
spend backstop, picks a provider, calls the goal loop with `should_cancel` bound
to the registry's event and with a sink that puts events on the run's queue. The
loop fans candidates out through the provider (clearing the spend checkpoint for
each fan-out), and at its end evaluates the winner on the sealed test, which
records the look in the peek ledger before a bound is computed with that
multiplicity. A certified and servable winner goes to the serving registry.
Three other engines solve a goal of their own kind: the frontier run (rounds of
a portfolio race over sandboxed candidates, checkpointed after each), Attestra
(the strategy loop over calls of `orchestrate`, which runs the frontier, the
generative or the catalog engine and submits what it certifies to the
false-discovery stream and the registry), and VectorForge (stages over files,
the brain among them).

PROJECT.json lists the hazards of this code line by line, with the properties
that cover each.

## 2. Modules

| Module | What it is |
|---|---|
| `GoalLoop`, `SealedSelection`, `GoalLoop_proofs` | `run_goal_loop` with operator and clock; the abstract promise of a goal run; theorems, the refinement included |
| `PeekLedger`, `PeekCounter`, `PeekLedger_proofs` | the peek ledger as file operations; the atomic counter it is to be; theorems, most of them about one run at a time |
| `SpendCap` | `try_charge`, its lock and file, the threads that charge it, midnight, crashes |
| `RunServer` | registry, run threads, queues, SSE handlers, cancel |
| `ResumableRun`, `RoundSearch`, `ResumableRun_proofs` | attempts of a frontier run; the search that nothing interrupts; theorems |
| `Portfolio` | the race of a round's candidates |
| `StrategyLoop` | the loop over calls of `orchestrate` |
| `Orchestrate`, `Attempt` | calls of `orchestrate`; what a call promises |
| `ResearchEngine`, `GenerativeEngine` | the engines of a call |
| `VectorForge`, `BrainSearch` | a goal and its files; the search in its research stage |
| `Ledgers`, `Ledgers_proofs` | four append-only files and writers that die; theorems |
| `RemoteJobs`, `GpuPod`, `AsyncJobs` | serverless jobs, rented pods, jobs in threads |
| `ModelServing` | versions and the `CURRENT` pointer |
| `Sandbox` | a caller and the child it limits |
| `MCGoalLoop`, `MCPeekLedger`, `MCResumableRun`, `MCRunServer`, `MCSpendCap` | instances of one module |
| `MCWebApp`, `MCEngines`, `MCAttestra`, `MCBackends` | instances that hold several parts |
| `WebApp_proofs`, `Engines_proofs`, `Attestra_proofs`, `Backends_proofs` | theorems about those parts, each alone and all in one composed specification |

The last four modules put several components side by side: `Init` chooses a
part and every behaviour is one of that part, while the others stay as they
began. One run then asks all the questions of parts that share no state, and
the state spaces add up instead of multiplying. The parts meet through what one
module takes as input and another gives as output: `Orchestrate` takes an
engine's report, which `ResearchEngine` and `GenerativeEngine` produce;
`StrategyLoop` takes an answer, which `Orchestrate` gives; `GoalLoop` takes the
results of provider calls, and `VectorForge` a winner.

### GoalLoop and `run_goal_loop`

A model is a record of what the loop distinguishes: its validation score, its
validation lower bound (or `NoBound`, the code's `None`), whether it keeps the
latency and calibration limits, and where its estimator lives. `phase` is the
place in the function:

| phase | code |
|---|---|
| `intake` | the first cancel check |
| `audit` | abstention, split and audit, where nobody asks for a cancel |
| `exec`, `cleared`, `measure` | `execute_move`: before its checkpoint, between checkpoint and cancel check, the fan-out in flight |
| `round` | top of the `while`: cancel, hard cap, cleared bound, proposals, batch |
| `gate` | between the loop and the certificate: last cancel check, no model, validation-bound gate |
| `certify`, `rerun` | predictions of the winner, in process or through another billed call |
| `peek`, `verdict` | `certify_on_sealed`; the verify-spec gates and the registry |
| `report` | narration, experiment store and FDR view, any of which may raise after the verdict |
| `done` | the function has returned or raised |

A call that costs money is at least two steps, so that a cancel, the clock or a
failure may fall between its clearance and its result. A checkpoint that was
granted stays granted when the cancel check behind it ends the run (`credit`). `AcquireAndRerun` is the
recursive call: it resets everything the fresh call resets, `cost` included,
and keeps what is passed down. `spend` is a ghost total that the code does not
have: what the fan-outs were billed over all legs. `cancelAt` is a history
variable that tells a cancel in the search from one during the audit and from
one behind the last check. The order in which
moves are ranked is left open (`Batches`), which covers every ranking the value
of information, the case base or the LLM may produce; what is kept is that a
batch holds one move per family and fits the budget and the per-round limit.

Left out: the paired comparison of the battery that re-reads sealed rows after
the verdict (loop.py:1063-1084) without changing the selection or the verdict,
the reports, and the wording of events.

### PeekLedger and `sealed.py`

`record` is four file operations (read, truncate the temporary file, write it,
rename it), each an action, because other processes and crashes fall between
them. Files are inodes: `open(tmp, "w")` truncates whatever inode the name
points to, a writer keeps its handle when the name moves away, and a shorter
text over a longer one leaves a tail that does not parse. `_read` treats an
unreadable ledger as empty, as the code does. The rows are evaluated
(`Predict`) before `record` begins, so a run may die between the two; `recorded`
is the ghost list of the looks that reached the ledger. A read that fails on a
ledger that exists is left out: `_read` would take it for an empty one.
`Overlap` says whether runs may be
inside at a time; with `FALSE` it is the deployment the code is written for, and
the theorems are about it; with `TRUE` it is the one its docstring promises.

### SpendCap and `spendcap.py`

`try_charge` is lock, load, decide, save, answer. The file and the lock are
shared; the record each thread loaded is its own. `written`, `granted` and
`calls` are ghost accounts by day: what reached the disk, what callers were told
is allowed, and what paid calls were made. `Crash` kills every running thread
and frees the lock; the file stays. A state file that cannot be read raises out
of `_load` and ends the run (`LoadFails`), as a failed save does. The save is one step since each thread
writes a temporary file of its own, which is then renamed. The switch that
disables the backstop (`VF_SPEND_DISABLED`) and `snapshot`, which changes
nothing, are left out.

### RunServer and `server.py`

Each run has a registry record, a thread (`pc`), a queue and a cancel event;
each connection to GET /events is a handler that takes an item and, in a second
step, writes it, so that a client may go in between. Pruning after an hour is
part of `Post`, as in `_new_run`. `obeys` says whether the engine of the run
polls `should_cancel`: the goal loop does, the frontier and vertical threads do
not. Items are numbered (a ghost) to state order and loss.

### ResumableRun and `frontier/longrun.py`

`file` is the checkpoint, `state` the `RunState` of the attempt that runs, and
`carried` the champion its round gate took when it was made. An attempt is
`Start` (load, take the larger number of rounds, save), the front matter, the
round loop of `CoreOrchestrator.run`, and the certification. The actions follow
the order of the loop: deadline, gate, body, checkpoint, budget. A round's body
is two steps (it began; its best candidate is known), so that a crash may lose
it, and the checkpoint is one, since `CheckpointStore.save` writes a temporary
file of its own and renames it. What happens inside a round (proposals, the
portfolio, repairs, diagnosis) is abstracted to the best candidate that ran, if
any; scores are naturals. `bodies` and `looked` are ghosts: the bodies that
were begun and the champions that were looked at, over all attempts.
`RoundSearch` is what the checkpoint shows when crashes and resumes are
forgotten.

Left out: two attempts at a time on one checkpoint (nothing locks it); a change
of seed between attempts, which splits the data anew; and the orchestrator's
own best-effort checkpoint (`cfg.checkpoint_path`), which drops the champion's
code from the payload when it is pointed at the same file.

### StrategyLoop and `run_strategy_loop`

An attempt is one step that answers (a score, a decision) and takes seconds,
perhaps more than it was allocated. What the loop does with the answer is kept
whole: the diagnosis, the gain, the patience and its one reset before a last
aggressive attempt (up to another patience of attempts, in fact), the climb, and the stop at the top of the ladder, at the
budget and at the number of attempts. `stuck` is a ghost: attempts since
the last gain.

### Orchestrate and `orchestrate`

`stage` is the place in the function, `reports` the results of the phases (the
catalog engine) or of the one call (the others). The process pool and the GPU
may beat the best, and may raise; any stage may raise into the outer handler,
and the process may die. `stream` and `registry` outlive the call. The states
"submitted but not recorded" and "recorded and then failed" are reached, which
is why the abstract `Attempt` lets an error, and only an error, disagree with
the record. `held` is the phase whose certificate and model would be reported.

### ResearchEngine and GenerativeEngine

The catalog engine's rounds with everything that ends them (target plus margin
reached, the three probes of the health monitor, time, the number of rounds,
nothing proposed) and the certification after them. The generative engine's
rounds over its tree, where each call of the LLM gives a solution, a broken one
or none. Both look at the sealed rows in their last step.

### VectorForge and BrainSearch

`goal` is the `Goal` that the running process holds, `saved` what `state.json`
has of it, `raw` what the rows are like; `train` carries what the stages ask of
the training rows, and how many data moves they have been through. Stages are
skipped by their marks as the code does, and `certify`, which has none, is not.
A death falls between the rewritten rows or the winner's artifact and the mark
of its stage (`AdoptRows` and `MarkMove`, `Research` and `MarkResearch`), or
within `state.json`, the rows or the artifact, which are rewritten in place.
`BrainSearch` keeps the axes, the evidence the rounds
measured, the budget and the recommendation; a fit is a score. The calibration
lever and the variants of asking for labels are one recommendation each.

### Portfolio

Rungs, bounded launches, completions in any order, the band of scores that
widens with every completion, the kill rule on that band, halving, and the
winner at full data. The ladder of one rung that fewer than four arms get, where
nothing is cut, is left out. Budgets are integers in parts of the full data; bounds are
scaled by twice that number.

### Ledgers

Files are inodes and every system call is a step, as in `PeekLedger`: the log
(copy through one fixed temporary name, then rename), the promotion ledger
(temporary name of the writer's own), the registry (append in place), the FDR
stream (rewrite in place). `mixed` is the ghost set of writers that overlapped
another's call, `tears` counts the deaths that changed the log itself: a scrap in
the registry, a rewrite of the stream cut short. A log that exists and cannot be
read, which the promotion ledger takes for an empty one (cross_experiment.py:58),
is left out.

### RemoteJobs, GpuPod, AsyncJobs

`RemoteJobs` counts seconds through posts, polls and pauses, and keeps every job
that was posted at the endpoint, the lost ones included. A request takes at most its
timeout there; `requests` applies it to each phase of a request, so the constant
stands for what one exchange takes in all. `GpuPod` lets every
request fail before or after its effect, and lets the wait for a pod end by an
exception (`WaitRaises`: an address that does not parse, an interrupt), which
passes teardown by; `dropped` is the ghost set of those pods. `AsyncJobs` writes the shared job field
by field, in the thread, in `submit` (whose mark comes after the thread began)
and in the waiter whose time is over.

### ModelServing

Directory, model file and `CURRENT` (truncated, then written) as steps of
registrations and of a rollback that checks only that the directory exists.

### Sandbox

The child works, answers in one of three ways, may be cut off at any step by
limits or death, or get stuck on output nobody reads; the caller waits, kills at
its timeout, and reads what has arrived. On the stdout way the caller decodes the
output and unpacks the predictions outside any `try`: bytes that are no text
(`garbled`) and predictions that `np.load` or `list` refuse (`odd`, what a
`predict` that returns `None` leaves) make the call raise, except in the remote
executor, whose `try` is around it all.

## 3. Runs

| Run | Instance | States | Shows |
|---|---|---|---|
| `GoalLoop` | 3 moves in 2 families, 18 models, budget 5, 3 rounds, 1 leg, up to 2 authored sources | 3.4 M | the certificate is sound; no look on a hopeless model or after a cancel; the budget overrun is less than one move; the search is not cut short |
| `GoalLoopLegs` | 6 models, one acquisition re-run | 680 k | every run ends (fairness), and implements `SealedSelection` |
| `WebApp` | 2 runs without stream, 1 run with 2 streams, or 2 requests on both lanes over 2 days with 2 LLM and 1 GPU charge and 3 dollars | 280 k | a cancel in time is obeyed; finished means the result is there; streams in order, nothing twice; a lone stream closes; grants within ceilings, durable, honest refusals, no charge waits for ever |
| `Engines` | frontier: 2 programs, 3 scores, 4 rounds, 4 attempts; race: 5 arms, 3 rungs, 2 workers; goal: 3 runs; brain: 3 rounds, budgets 1, 3 and 6, families up to 2 | 860 k | the winner is the champion on disk and attempts implement `RoundSearch`; a kill never removes a possible survivor; what is served is certified; one data move; labels last |
| `Attestra` | loop: 6 attempts, patience 2, budget 6; call: 2 calls, 2 phases, pool and GPU; catalog: 3 rounds of up to 2; generative: 3 turns | 970 k | the loop stops when stuck and overdraws by one overrun; the certificate is of the leader; calls implement `Attempt`; the best is what is certified |
| `Backends` | peeks: 4 runs, 2 tests, one at a time; logs: 3 writers; jobs: budget 6, 3 retries; pods: 3; serving: 3 versions; async; sandbox: 3 ways | 79 k | every recorded look is paid and the file is a counter; what was acknowledged stays; overruns, leaks, false timeouts, outages and broken answers happen only as stated |
| `GoalLoopSpend` | as `GoalLoopLegs` | violation | two legs are billed more than the limit of the run they certify |
| `SpendCapCalls` | 2 requests, 1 day | violation | proposal calls to the LLM are not charged |
| `PeekLedgerShared` | 2 runs at a time, 1 test | violation | two certificates pay the same multiplicity |
| `ResumableRunTwice` | 2 rounds, 2 attempts | violation | a resumed run looks at the sealed test a second time |
| `AttestraPeeks` | as `Attestra` | violation | a call looks at the sealed rows once per phase |
| `SandboxRaises` | one child | violation | a child cut off within its message makes the call raise |

Several properties name exceptions ("except after a death that ...").
Each exception is a behaviour of the code that the run reaches and that a
stricter property was refuted by; the property says that nothing else goes
wrong. `CertificateSound`, `CancelNeverPeeks`, `AcknowledgedStay`, `StaysServed`, `EndedInTimeIsSeen`,
`OnlyUncertainPodsLeak`, `AnswersAreWhole` and `MovesOnce` are of this kind.

**Bounds.** `GoalLoop`: three moves in two families let a family repeat in a
proposal, give batches of one and two, and let the second move carry more
candidates than the budget has left; budget 5 is reached inside a batch and at
the top of a round; the code's `K_NO_IMPROVE` = 3 and `PER_ROUND_EXEC` = 6 are
scaled to 2. The models put scores and bounds on either side of each gate, with
a higher score and a lower bound, a missing bound, and a broken limit; none, one
or two authored sources run beside the anchor. The legs run uses fewer models since the second leg starts from scratch; those it
keeps still end a run on each side of the gates. `WebApp`: the dollars run out
before the counts do when both lanes are charged, the counts when one is, so
each ceiling decides in some behaviour; two threads race for the last charge;
with two runs each may be pruned by the other's post; with two streams each item
may go to either. `Engines`: four rounds and three scores let a champion be
found, tied and improved on both sides of a crash, and attempts change the
number of rounds up and down; five arms on three rungs let a survivor of one cut
fall at the next while two workers hold candidates pending; three runs of a goal
are a resume of a resume; a family of two is used up by failures alone, and six
scores lie on both sides of the bar and its margin. `Attestra`: six attempts
outlast a patience of two and its reset; the ladder ends before the attempts and
the budget may end before either; two phases let the second lead or follow, and
pool and GPU take over from either; three rounds of two proposals reach each
abort of the monitor, with a target above and one far below 0. `Backends`: four
runs on two tests give counts of two and a table that grows; three writers see
an overlap beside an entry acknowledged before and one that comes after; a
budget of six holds a retry after a retry and an attempt that outlives it; three
versions let a rollback go from one to another while the third is made. For the
parts with theorems (section 4) the bounds do not matter.

**Faults.** A process may die between any two system calls, a write may fail or be
cut short, a request may fail with or without its effect, a provider or a
callback may raise, the state file of the ceilings may be unreadable. Two faults
are left out. A peek ledger or a promotion ledger that exists and cannot be read
is taken for an empty one (sealed.py:67, cross_experiment.py:58), and the next
record publishes what is left: nothing that `EveryLookPaid` or `AcknowledgedStay`
says survives that, so their claims are for files that can be read. The other is
a power failure, since only some of the files are synced.

**Fairness.** The goal loop is one thread without blocking operations of its
own, so `WF_vars(Loop)`; the operator and the clock are not fair: nobody has to
cancel, and an untimed run has no clock. Termination holds without the clock
since each round uses up moves or the budget. The threads of `SpendCap` and
`RunServer` are operating-system threads: weak fairness for each, in `WebSpec`
only in the part the behaviour is of. A day need not pass and a crash need not
happen. Weak fairness is enough for the lock because each thread takes it at
most twice. The other modules state safety only. Runs that can finish stop, so
deadlock checking is off: every model ends in a state with nothing left to do.

## 4. Proofs

Every safety property that a passing run checks is a theorem, for all values of
the constants that meet the named `ASSUME`s of the modules; TLC evaluates those
in the runs. `SerialLooksPaid`, `SerialNeverForgets` and `SerialIsCounter` have
the hypothesis `~Overlap`. Nothing else is assumed.

`GoalLoop_proofs`, for every catalogue of moves, set of candidate models and
budget that meets `GoalLoopAssumption` (finitely many moves; the code's positive
limits): `TypeCorrect`, `CertificatesSound`, `NoPeekIsWasted`,
`CancelledRunsNeverPeek`, `BilledCallsAreCleared`, `SelectionIsFrozen`,
`SearchGoesOn`, `OvershootBounded`, and the refinement `PromiseKept`. None of
the safety properties is inductive. `Inv` adds to the types what the places
between the gates know: a decision exists exactly at the end (`DecidedAtEnd`);
at most one look, and nothing but verdict and report after it (`OneLook`); data
past the audit is audited (`Audited`); a model past the gate exists and its bound
is no obstacle (`Chosen`); a cancel that came in time keeps the phase inside the
search (`CancelHeld`); no model is served before the verdict is given
(`ServedLast`). `BilledCallsAreCleared` says that a fan-out and a re-run hold one
grant each, and that one is left over only in a run that was cancelled between
its grant and its fan-out. `OvershootBounded` needs an invariant of its own
(`Rounds`): before the first round only the anchor has run, and afterwards the
count was below the budget when the last move started.

`ResumableRun_proofs`, for any candidates, natural scores, rounds and attempts:
`TypeCorrect`, `WinnersAreChampions`, `FinishedStays`, `LosesLittle`, and the
refinement `SearchResumed`. The inductive invariant says that a running attempt
knows what is on disk (`InStep`), that the done rounds are the first ones
(`Prefix`), where the loop is relative to them (`Position`), and that its best
is the champion or has just improved it (`BestSoFar`).

`PeekLedger_proofs`, for any number of runs and tests: `LedgerTypeCorrect`, and,
one run at a time, `SerialLooksPaid`, `SerialNeverForgets` and the refinement
`SerialIsCounter`. `SerialInv` says that one run is active (`OneActive`), that
the ledger is whole and is not the temporary file (`LedgerReads`; `Abort` leaves
temporary files behind), what a run knows at each of the four operations
(`Holds`), and `Paid`: the ledger counts for each test the looks that were
recorded at it (`AllCounted`), no run is recorded twice (`RecordedOnce`), and a
certificate's multiplicity is the number of looks recorded up to its own
(`Prices`). A look whose run dies before it is recorded is in none of these,
and no certificate pays for it. Without the hypothesis `EveryLookPaid` is
false: the run `PeekLedgerShared`. The types do not need it, only that a run
has the temporary file open exactly between opening and replacing it
(`OpensOnce`): there are more files than open descriptors, so a free one exists
(`UnusedIsThere`).

`WebApp_proofs`:

- the run server, for any runs and connections: `CancelIsObeyed` and
  `FinishedHasResult`, by an invariant per run (`Sound`): it is marked after its
  result (`Marked`), decides once and late (`DecidesLate`), and what a cancel in
  time sets is seen by the last check (`Obeys`). `StreamsAreInOrder` takes an
  invariant over what a stream has *seen*, the item in its handler's hand
  included: an item taken off a queue is in nobody's reach until it is sent or
  lost, and the property alone forgets it. `Queued` says that a queue is the
  last part of what its run has put, with the result and the close at the
  places that the run's progress fixes (`Placed`); `InOrder` that a stream holds
  taken items only, in their order, and all of them if it is alone and alive;
  `Apart` that two streams of a run hold different ones.
- the spend backstop, for any number of threads, days and ceilings:
  `CapTypeCorrect`, `CapsHold`, `GrantsDurable`, `RefusalsHonest`. The inductive
  invariant says that a thread between lock and release is the holder
  (`LockHeld`), that the file is the account of its day (`DiskIsAccount`), that
  what the holder loaded is still that account when it decides
  (`ViewIsAccount`; this is what the lock is for), and that everything granted
  is written (`GrantsWritten`) and within the ceilings.

`Engines_proofs`:

- the race, for any arms, ladder, ratio, scores and workers:
  `KillsAreAdmissible`. The invariant adds to the property that a candidate is
  pending, in flight or settled, and only one of them (`OneState`), and that the
  band is a pair of numbers (`Banded`). A kill is admissible when it is made by
  the guard of the code; it stays so because a score that has settled in a
  rung is never taken back, so that the candidates that beat the killed one can
  only become more, and because kills are forgotten when the rung ends. That the ladder is a function into the positive numbers is an
  induction: the lemmas `Induction` and `Recursion` obtain it from the
  well-foundedness of the naturals, without a theorem that takes an operator.
- the model search and the goal pipeline: `LabelsAreLast`,
  `ForgeServesCertified` and `ForgeMovesOnce`. Of the pipeline one has to know
  what is on disk at each stage (`SavedGoal`, `MarksInOrder`), how many moves
  the deaths explain (`MovesCounted`) and which rows a winner was fitted on
  (`WinnerOfRows`).

`Attestra_proofs`:

- the strategy loop, for any attempts, patience, budget, ladder and scores:
  `LoopTypeCorrect`, `LoopStops`, `OverdrawBounded`. `StuckBound` relates the
  ghost to the patience that is left and to whether the reset was given;
  `AllocationFits` is the arithmetic of an allocation, which is what keeps the
  overdraft to one overrun.
- the calls, for any calls, phases, engines and scores: `CallTypeCorrect`,
  `LeaderCertified`, and the refinement `CallsImplementAttempt`, which needs
  `Traces`: what stream and registry hold of a call at each stage, so that an
  error is the only answer that can differ from the record.
- the catalog engine, for any scores, rounds and batches: `CertifiedIsReported`.
  The best that is kept as it goes along and the best found by a search at the
  end agree because of the *order* of ties: `KnowsOne` says that what is known
  comes before every success of an equal or better score, `KnowsBest` that
  between rounds nothing beats it, and `HasLeader` that a maximum exists in a
  set that grows by one (there is no induction over its size).
- the generative engine, for any solutions: the action property `BestStays`. The
  invariant `HasBest` says that among the sound nodes there is one that is
  first, and every edit of the tree leaves one that is not worse.

`Ledgers_proofs`, for any number of writers: `AcknowledgedAreKept`. The four
disciplines have four invariants over common facts about calls and descriptors
(`LogBase`), and each holds as far as its discipline goes: `Promotion` always
(each writer has a temporary file of its own; what was acknowledged without an
overlap is in every text that was read since), `Chain` until calls overlap
(the one writer in its call has read the log as it is), `Registry` always (every
entry that was written whole and is not there has a torn line of its own: a
count of two sets), `Stream` until calls overlap or a death tears the file. The
lemmas are about what appending, cutting and overwriting leave of a sequence of
lines; that a chain verifies is said line by line, without recursion.

`Backends_proofs` holds the providers, the serving registry and the sandboxes:
`RemoteTypeCorrect` and `OverrunBounded` (`Timed`: what the clock can be at each
request, given the deadline of the attempt), `PodsAccountedFor`, `AnswersWhole`,
`ValuesSeenInTime` and `ModelStaysServed`.

**Compositions.** In each of the four modules of this section that hold several
parts, a lemma (`EachEngine`, `EachPart`; `WebInductive` for the server) shows
that a behaviour of the composed specification is one of every part, since a
step of the whole is a step of one part that leaves the others as they are. From
it follow the type invariants of the compositions (`WebTypeCorrect`,
`EnginesTypeCorrect`, `AttestraTypeCorrect`, `BackendsTypeCorrect`), and
`WebPromises`, `EnginesPromises`, `AttestraPromises` and `BackendsPromises`,
which state the properties and the refinements of the parts for the
specification that the run checks.

**Only model-checked**: the liveness properties `Termination`,
`EveryChargeReturns` and `OwnStreamCloses`, since fairness is out of the prover's
reach. The six properties that runs refute have no theorem, of course.

## 5. Disagreements between the code and its texts

Each is a run that TLC finds violated; PROJECT.json quotes the text.

1. The LLM proposer's calls are not charged to the cap (server.py:610).
2. The peek ledger is not safe across processes: looks are lost (sealed.py:74).
3. A frontier run that is resumed after its result certifies again, on the same
   sealed rows (longrun.py:240).
4. A call of `orchestrate` looks at the sealed rows once in each phase
   (orchestrator.py:848).
5. The cost gate of a certificate forgets what the legs before an acquisition
   re-run were billed (loop.py:813).
6. The sandbox call that "never raises" raises when the child is cut off within
   its message (attestra/execution/sandbox.py:407).

**Seen while modelling**, without a run of its own.

Goal loop and web app: `total_cost` mixes billed dollars with latency seconds
(loop.py:647); a cancel that arrives between a checkpoint and its fan-out leaves
the approval unused (loop.py:537); one during the audit is answered by what the
audit finds; narration or the experiment store may raise behind the registration
of a model (loop.py:1144); a run that dies after it has evaluated the sealed
rows and before it has renamed its ledger is paid by nobody (sealed.py:131), where
sealed.py:55 speaks of every historical look; cancelling a frontier or a vertical
run is accepted and has no effect (server.py:454), though the thread is
said to mirror the goal loop's (server.py:413); a truncated temporary file can become the peek ledger when processes overlap
(sealed.py:77); two streams of one run share its queue, so only one gets the
close; a run older than an hour is pruned although it is still going; a resumed
frontier attempt whose deadline passes before its first round declines although
the checkpoint holds a champion (frontier/core/orchestrator.py:488).

Attestra: a phase with a passed certificate and a score of 0 or less never leads
and its certificate is lost (orchestrator.py:863); with a target below -0.05 the
rounds stop before anything succeeded (cycle/engine.py:252); what is submitted
may carry the name of the pool's or the GPU's model (orchestrator.py:1140); a
call that raises after its submission answers "error" and is tried again
(orchestrator.py:1266); checkpoints are under a name with the time in it, so
none is ever found; the literature is asked in round 0 even when it is switched
off (generative.py:305); the strategy loop never hands on the engine of a rung,
so the tier "generative" changes nothing.

Durable files: overlapping appends fork the effect log or empty it, and cost the
promotion ledger the overlapping lines; a torn line of the registry swallows the
next record, where its docstring says "atomic via tmp+rename"; a torn FDR state
is read as an empty one; `CURRENT` is rewritten in place, and a rollback checks
only that a directory exists.

Back ends: the RunPod budget is passed by up to one post, one poll and one pause
(providers.py:382 says "all bounded by the overall timeout budget"); a pod whose
creation timed out, whose deletion failed, or whose address does not parse
(providers.py:571) bills on; a candidate whose `predict` returns `None`, or that
prints bytes that are no text, makes the frontier's call raise
(frontier/sandbox.py:142, frontier/core/execution.py:617); `submit` may write
"running" over a job that has completed (parallel.py:344); a chatty child of the
file sandbox blocks on its unread output until the wall limit; the CPU-limit
handler may replace a finished `result.json`.

VectorForge: a death between the rewrite of the rows and the mark of the stage
moves the data twice (runner.py:123); `certify` has no mark, so every run of a
goal evaluates the locked test; a goal that was blocked for a leak goes past it
on its second run; half a `state.json` makes the goal and the list of goals
unreadable; with a budget of one experiment the brain recommends labels because
"every allowed axis was exhausted" when none was tried; ties of a race at full
data are decided by completion order.

## 6. Not modelled, and what could follow

Most of the implementation's lines have no order, no second actor and no failure
in them, and a model of them would either be a transliteration or say nothing:

- **Statistics** (`attestra/core/science.py` and `vectorforge/science.py`, which
  are the same text; the certifiers; the arithmetic of the two false-discovery
  controllers): real-valued computations on data. Their verdicts are inputs.
- **Features, neural models, intelligence, the templates of authoring, the data
  engine's cleaners**: transformations of one data set. Their results are the
  scores and failures of the engines.
- **Prompts, parsing, reports, pages, scripts, examples, tests and data**, which
  make up a large part of the files.
- **`prereg.py`, `casebase_store.py`, `attestra/execution/checkpoint.py`** write
  as the promotion ledger and the experiment registry do: what `Ledgers` shows of
  those holds of these, and a module of their own would repeat it.
- **`frontier/budget.py`** adds up seconds and dollars of one thread;
  **`attestra/execution/gpu_backend.py`** is one caller of one remote shell, an
  outcome in `Orchestrate`; **`experiment_manager.py`** is a list of phases with a
  counter; **`frontdoor.py`** dispatches; **`worker/handler.py`** is stateless;
  **`tracking.py`, `voi.py`** rank, and every order of moves is allowed in
  `GoalLoop`. `ParallelASHA` is called by nothing.

Within modelled parts: the post-verdict comparison that re-reads sealed rows
(loop.py:1063), the orchestrator's own best-effort checkpoint, two frontier
attempts on one file, the LLM shell around a VectorForge goal, and request
parsing are left out.

What could follow: liveness of `StrategyLoop` and of `RemoteJobs`; and a
composition of run thread, spend backstop, goal loop and peek ledger in one state
space, now that each of them is proved alone.
