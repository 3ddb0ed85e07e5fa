---------------------------- MODULE VectorForge ----------------------------
(***************************************************************************)
(* vectorforge/runner.py over vectorforge/store.py: a goal goes through    *)
(* profile, audit, split, data engine, research, certify and finalize.     *)
(* Each stage leaves a mark in state.json, which is rewritten in place; a  *)
(* run may die anywhere, and service.run begins another on what it finds.  *)
(* service.predict serves a goal that has PASSED.                          *)
(*                                                                         *)
(* The raw rows never change, and the split of them is seeded.  Training   *)
(* rows are what the stages ask of them; the search for a winner is module *)
(* BrainSearch.                                                            *)
(***************************************************************************)
EXTENDS Integers

CONSTANT MaxGoalRuns   \* bound: runs of the goal

ASSUME VectorForgeAssumption == MaxGoalRuns \in Nat

Stages == {"profile", "audit", "split", "data_engine", "research", "certify"}
Statuses == {"draft", "running", "passed", "failed", "blocked", "needs_input"}

\* Training rows: the data moves they have been through, whether every line
\* parses, whether there are fewer than DATA_LIMITED_TRAIN of them, whether the
\* engine finds something to clean, whether science.audit passes them against
\* the locked test.
TrainSets == [moves : 0..MaxGoalRuns, parses : BOOLEAN, limited : BOOLEAN,
              dirty : BOOLEAN, sound : BOOLEAN]

\* The winner's artifact: the rows it was fitted on, and whether its bound on
\* the locked test clears the threshold.
Winners == [rows : TrainSets, clears : BOOLEAN]

NoGoal == [status |-> "draft", marks |-> {}, adopted |-> FALSE,
           cert |-> "none", deployed |-> FALSE]
Torn == [NoGoal EXCEPT !.status = "torn"]

VARIABLES
    raw,      \* what the raw rows lead to: a leaking feature, too few rows,
              \* and the training rows of the split
    vpc,      \* the next step of the run, "idle" between runs
    goal,     \* the Goal in memory
    saved,    \* state.json
    train,    \* train.jsonl; before the split it holds what the split gives
    winner,   \* artifacts/winner.joblib
    promoted, \* the run's certificate is clear, quick and clean
    goalRuns, \* runs so far
    unmarked  \* deaths between a data move and its mark; no code reads it

disk == <<saved, train, winner>>
forgeVars == <<raw, vpc, goal, disk, promoted, goalRuns, unmarked>>

NoWinner == [rows |-> [moves |-> 0, parses |-> FALSE, limited |-> FALSE,
                       dirty |-> FALSE, sound |-> FALSE], clears |-> FALSE]

\* A locked test below the required size fails every audit.
ForgeInit ==
    /\ raw \in [leaky : BOOLEAN, few : BOOLEAN,
                split : {t \in TrainSets : t.moves = 0 /\ t.parses}]
    /\ raw.few => raw.split.limited \/ ~raw.split.sound
    /\ vpc = "idle"
    /\ goal = NoGoal
    /\ saved = NoGoal
    /\ train = raw.split
    /\ winner = NoWinner
    /\ promoted = FALSE
    /\ goalRuns = 0
    /\ unmarked = 0

\* store.save of a goal.
Save(g) == goal' = g /\ saved' = g

Marked(g, stage) == [g EXCEPT !.marks = @ \cup {stage}]

\* The run goes past a stage that is marked; from the data engine on it needs
\* the training rows.
Pass(stage, next) ==
    /\ vpc = stage
    /\ stage \in goal.marks
    /\ stage = "data_engine" => train.parses
    /\ vpc' = next
    /\ UNCHANGED <<raw, goal, disk, promoted, goalRuns, unmarked>>

\* The status of an early stop, saved after its stage was marked.
Stop(label, status) ==
    /\ vpc = label
    /\ Save([goal EXCEPT !.status = status])
    /\ vpc' = "idle"
    /\ UNCHANGED <<raw, train, winner, promoted, goalRuns, unmarked>>

-----------------------------------------------------------------------------
(* The stages *)

\* Slip: a run of a goal that has passed leaves its status alone.
SlipBegun(g) == IF g.status = "passed" THEN g ELSE [g EXCEPT !.status = "running"]

Begun(g) == [g EXCEPT !.status = "running"]

Begin ==
    /\ vpc = "idle"
    /\ goalRuns < MaxGoalRuns
    /\ saved # Torn
    /\ Save(Begun(saved))
    /\ goalRuns' = goalRuns + 1
    /\ promoted' = FALSE
    /\ vpc' = "profile"
    /\ UNCHANGED <<raw, train, winner, unmarked>>

Profile ==
    /\ vpc = "profile" /\ "profile" \notin goal.marks
    /\ Save(Marked(goal, "profile"))
    /\ vpc' = "audit"
    /\ UNCHANGED <<raw, train, winner, promoted, goalRuns, unmarked>>

\* A tabular goal with a leaking feature is blocked, once: the next run finds
\* the mark and goes on.
Audit ==
    /\ vpc = "audit" /\ "audit" \notin goal.marks
    /\ Save(Marked(goal, "audit"))
    /\ vpc' = IF raw.leaky THEN "leaks" ELSE "split"
    /\ UNCHANGED <<raw, train, winner, promoted, goalRuns, unmarked>>

Split ==
    /\ vpc = "split" /\ "split" \notin goal.marks
    /\ train' = raw.split
    /\ Save(Marked(goal, "split"))
    /\ vpc' = IF raw.few THEN "few" ELSE "data_engine"
    /\ UNCHANGED <<raw, winner, promoted, goalRuns, unmarked>>

\* run_data_engine proposes rows without what it cleans, or with rows it has
\* generated; both only if the surface, the budget and the measurements allow.
Proposed ==
    IF train.dirty
    THEN {t \in TrainSets : /\ t.moves = train.moves + 1
                            /\ t.parses /\ ~t.dirty
                            /\ train.limited => t.limited}
    ELSE {t \in TrainSets : /\ t.moves = train.moves + 1
                            /\ t.parses /\ train.limited}

\* The proposed rows are audited against the locked test once more.
Adopts(t) == t.sound

\* Slip: the data engine is asked in every run.
SlipToMove == vpc = "data_engine" /\ train.parses

\* The data engine is asked once; a train.jsonl that does not parse stops this
\* run and every other.
ToMove ==
    vpc = "data_engine" /\ train.parses /\ "data_engine" \notin goal.marks

\* Adopted rows replace train.jsonl before anything is marked.
AdoptRows ==
    /\ ToMove
    /\ \E t \in Proposed : Adopts(t) /\ train' = t
    /\ vpc' = "moved"
    /\ UNCHANGED <<raw, goal, saved, winner, promoted, goalRuns, unmarked>>

MarkMove ==
    /\ vpc = "moved"
    /\ Save([Marked(goal, "data_engine") EXCEPT !.adopted = TRUE])
    /\ vpc' = "research"
    /\ UNCHANGED <<raw, train, winner, promoted, goalRuns, unmarked>>

\* No move: none is needed, the proposed rows are refused, or there are too
\* few rows that cannot be made more, and labels are asked for.
LeaveRows ==
    /\ ToMove
    /\ Save(Marked(goal, "data_engine"))
    /\ vpc' \in {IF train.limited /\ ~train.dirty THEN "labels" ELSE "research"}
                \cup {"research" : t \in {u \in Proposed : ~Adopts(u)}}
    /\ UNCHANGED <<raw, train, winner, promoted, goalRuns, unmarked>>

\* The winner of the search on train.jsonl; its artifact precedes the mark.
ToSearch == vpc = "research" /\ "research" \notin goal.marks

Research ==
    /\ ToSearch
    /\ winner' \in [rows : {train}, clears : BOOLEAN]
    /\ vpc' = "found"
    /\ UNCHANGED <<raw, goal, saved, train, promoted, goalRuns, unmarked>>

MarkResearch ==
    /\ vpc = "found"
    /\ Save(Marked(goal, "research"))
    /\ vpc' = "certify"
    /\ UNCHANGED <<raw, train, winner, promoted, goalRuns, unmarked>>

\* Every run that comes here evaluates the winner on the locked test, marked
\* or not, with a latency measured anew.
CertifyWinner ==
    /\ vpc = "certify"
    /\ \E quick \in BOOLEAN :
         LET passed == winner.clears /\ quick /\ train.sound
         IN  /\ promoted' = passed
             /\ Save([Marked(goal, "certify") EXCEPT !.cert =
                        IF passed THEN "certified"
                        ELSE IF train.sound THEN "do_not_certify"
                        ELSE "blocked"])
    /\ vpc' = "finalize"
    /\ UNCHANGED <<raw, train, winner, goalRuns, unmarked>>

\* A deployment of an earlier run stays in the record of a later one.
Finalize ==
    /\ vpc = "finalize"
    /\ Save(IF promoted THEN [goal EXCEPT !.status = "passed", !.deployed = TRUE]
            ELSE [goal EXCEPT !.status = IF train.sound THEN "failed"
                                         ELSE "blocked"])
    /\ vpc' = "idle"
    /\ UNCHANGED <<raw, train, winner, promoted, goalRuns, unmarked>>

\* What a death within a rewrite of train.jsonl leaves: fewer rows, or a line
\* that does not parse.
CutRows ==
    IF ToMove /\ \E t \in Proposed : Adopts(t)
    THEN {t \in TrainSets : t.moves = train.moves + 1}
    ELSE {}

\* The process dies or a stage raises; a death within store.save leaves half
\* a state.json, which no run can load, and one within the dump of the winner
\* an artifact that the next run makes again.
Die ==
    /\ vpc # "idle"
    /\ vpc' = "idle"
    /\ saved' \in {saved, Torn}
    /\ train' \in {train} \cup CutRows
    /\ winner' \in {winner} \cup (IF ToSearch THEN {NoWinner} ELSE {})
    /\ unmarked' = IF vpc = "moved" \/ train' # train THEN unmarked + 1
                   ELSE unmarked
    /\ UNCHANGED <<raw, goal, promoted, goalRuns>>

ForgeNext ==
    \/ Begin
    \/ Profile \/ Pass("profile", "audit")
    \/ Audit \/ Stop("leaks", "blocked") \/ Pass("audit", "split")
    \/ Split \/ Stop("few", "needs_input") \/ Pass("split", "data_engine")
    \/ AdoptRows \/ MarkMove \/ LeaveRows \/ Stop("labels", "needs_input")
    \/ Pass("data_engine", "research")
    \/ Research \/ MarkResearch \/ Pass("research", "certify")
    \/ CertifyWinner \/ Finalize \/ Die

ForgeSpec == ForgeInit /\ [][ForgeNext]_forgeVars

-----------------------------------------------------------------------------
(* Properties *)

\* The variables keep their types.
ForgeTypeOK ==
    /\ vpc \in Stages \cup {"idle", "leaks", "few", "moved", "labels", "found",
                          "finalize"}
    /\ {goal, saved} \subseteq
         [status : Statuses \cup {"torn"}, marks : SUBSET Stages,
          adopted : BOOLEAN, deployed : BOOLEAN,
          cert : {"none", "certified", "do_not_certify", "blocked"}]
    /\ train \in TrainSets
    /\ winner \in Winners
    /\ promoted \in BOOLEAN
    /\ goalRuns \in 0..MaxGoalRuns
    /\ unmarked \in Nat

\* What service.predict serves is certified by the certificate beside it, and
\* is the winner that certificate is about, fitted on the rows that are
\* stored, which pass the audit: through runs that die, resume, repeat the
\* certification or end with another verdict than the one before.
ServedIsCertified ==
    saved.status = "passed" =>
        /\ saved.deployed
        /\ saved.cert = "certified"
        /\ winner.clears
        /\ winner.rows = train
        /\ train.sound

\* "At most one data move", whichever stages are run again, and the record of
\* the data engine says whether there was one; only a death between the move
\* and its mark makes the next run move again and forget the first.
MovesOnce ==
    /\ train.moves <= 1 + unmarked
    /\ unmarked = 0 /\ "data_engine" \in goal.marks =>
         train.moves = (IF goal.adopted THEN 1 ELSE 0)
=============================================================================
