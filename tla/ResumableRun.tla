---------------------------- MODULE ResumableRun ----------------------------
(***************************************************************************)
(* A frontier run that survives crashes (ResumableRun in                   *)
(* frontier/longrun.py over CoreOrchestrator.run).  An attempt loads the   *)
(* durable RunState, skips the rounds it lists, runs the others, saves     *)
(* after each, and looks at the sealed test once at its end.  An attempt   *)
(* is one process; it may die between any two of its steps, and the        *)
(* operator may start another with other settings.                         *)
(***************************************************************************)
EXTENDS Integers, FiniteSets

CONSTANTS Programs,     \* candidates that the proposers can come up with
          Scores,       \* validation scores
          MaxRounds,    \* bound on cfg.rounds
          MaxAttempts   \* bound on the attempts

ASSUME ResumableRunAssumption ==
    /\ Scores \subseteq Nat
    /\ MaxRounds \in Nat \ {0}
    /\ MaxAttempts \in Nat

\* A program with the score it was selected by; a program may score differently
\* in another round, on other training rows.
Champions == [prog : Programs, score : Scores]
NoChampion == [prog |-> "none", score |-> -1]

Rounds == 0..(MaxRounds - 1)

\* The RunState; a run without a checkpoint file starts from NoState.
States == [done : SUBSET Rounds, rounds : 0..MaxRounds,
           champion : Champions \union {NoChampion}]
NoState == [done |-> {}, rounds |-> 0, champion |-> NoChampion]

VARIABLES
    file,       \* the checkpoint on disk
    attempts,   \* attempts so far
    pc,         \* where the attempt is, "down" when there is none
    state,      \* self.state, the RunState in memory
    carried,    \* the champion the gate hands back, as it was loaded
    r,          \* the round of the loop
    best,       \* best_prog with best_score
    late,       \* the wall-clock deadline has passed
    bodies,     \* round bodies that were begun, over all attempts
    looked      \* champions that were looked at on the sealed test

memory == <<state, carried, r, best, late>>
history == <<bodies, looked>>
vars == <<file, attempts, pc, memory, history>>

Init ==
    /\ file = NoState
    /\ attempts = 0
    /\ pc = "down"
    /\ state = NoState
    /\ carried = NoChampion
    /\ r = 0
    /\ best = NoChampion
    /\ late = FALSE
    /\ bodies = 0
    /\ looked = {}

Larger(a, b) == IF a < b THEN b ELSE a

-----------------------------------------------------------------------------
(* An attempt begins *)

\* _load_or_init: the rounds of the prior state stay done, the larger number
\* of rounds counts.
Loaded(rounds) == [file EXCEPT !.rounds = Larger(@, rounds)]

\* The state is loaded and saved at once, for its lineage; then the gate takes
\* the champion it will hand back.
Start ==
    /\ pc = "down"
    /\ attempts < MaxAttempts
    /\ \E rounds \in 1..MaxRounds : state' = Loaded(rounds)
    /\ file' = state'
    /\ carried' = file.champion
    /\ attempts' = attempts + 1
    /\ r' = 0
    /\ best' = NoChampion
    /\ late' = FALSE
    /\ pc' = "front"
    /\ UNCHANGED history

\* Routing and the harness self-test: the goal may be declined before the loop.
FrontMatter ==
    /\ pc = "front"
    /\ pc' \in {"loop", "down"}
    /\ UNCHANGED <<file, attempts, memory, history>>

-----------------------------------------------------------------------------
(* The round loop of the orchestrator *)

\* Slip: one round too many.
SlipLeft == r > state.rounds

Left == r >= state.rounds

\* The deadline is looked at before the gate: it also ends the skipping.
LeaveLoop ==
    /\ pc = "loop"
    /\ Left \/ late
    /\ pc' = "winner"
    /\ UNCHANGED <<file, attempts, memory, history>>

\* Slip: rounds are skipped without a word on their champion.
SlipRestored == best

\* A skipped round hands back the champion, unless the loop has a better one.
Restored ==
    IF carried # NoChampion /\ (best = NoChampion \/ carried.score >= best.score)
    THEN carried
    ELSE best

SkipRound ==
    /\ pc = "loop"
    /\ ~Left /\ ~late
    /\ r \in state.done
    /\ best' = Restored
    /\ r' = r + 1
    /\ UNCHANGED <<file, attempts, pc, state, carried, late, history>>

BeginRound ==
    /\ pc = "loop"
    /\ ~Left /\ ~late
    /\ r \notin state.done
    /\ pc' = "body"
    /\ bodies' = bodies + 1
    /\ UNCHANGED <<file, attempts, memory, looked>>

\* No proposal is left: the loop ends, the round is not marked.
NoProposals ==
    /\ pc = "body"
    /\ pc' = "winner"
    /\ UNCHANGED <<file, attempts, memory, history>>

\* Slip: the last candidate of a round is taken, better or not.
SlipBetter(c) == c # NoChampion

Better(c) == c # NoChampion /\ (best = NoChampion \/ c.score > best.score)

\* c is the best candidate of the round that ran, NoChampion if all failed.
RunRound(c) ==
    /\ pc = "body"
    /\ best' = IF Better(c) THEN c ELSE best
    /\ pc' = "complete"
    /\ UNCHANGED <<file, attempts, state, carried, r, late, history>>

Completed == [state EXCEPT !.done = @ \union {r}, !.champion = best]

\* on_complete: one atomic save with the round and its champion.
CompleteRound ==
    /\ pc = "complete"
    /\ state' = Completed
    /\ file' = state'
    /\ pc' = "next"
    /\ UNCHANGED <<attempts, carried, r, best, late, history>>

\* The compute budget is looked at after the round; the deadline at the next.
NextRound ==
    /\ pc = "next"
    /\ \/ pc' = "loop" /\ r' = r + 1
       \/ pc' = "winner" /\ UNCHANGED r
    /\ UNCHANGED <<file, attempts, state, carried, best, late, history>>

-----------------------------------------------------------------------------
(* After the loop *)

\* No candidate ran: the attempt declines without a look.
Decline ==
    /\ pc = "winner"
    /\ best = NoChampion
    /\ pc' = "down"
    /\ UNCHANGED <<file, attempts, memory, history>>

\* _certify_winner: the winner is fitted again, which may fail, then looked at.
Certify ==
    /\ pc = "winner"
    /\ best # NoChampion
    /\ \/ /\ pc' = "down"
          /\ UNCHANGED looked
       \/ /\ pc' = "verdict"
          /\ looked' = looked \union {best}
    /\ UNCHANGED <<file, attempts, memory, bodies>>

\* The oracle, the floor and the report: the attempt has its result.
Return ==
    /\ pc = "verdict"
    /\ pc' = "down"
    /\ UNCHANGED <<file, attempts, memory, history>>

-----------------------------------------------------------------------------
(* The surroundings *)

Deadline ==
    /\ pc # "down"
    /\ ~late
    /\ late' = TRUE
    /\ UNCHANGED <<file, attempts, pc, state, carried, r, best, history>>

\* The process dies, or a save raises; only the file is left.
Crash ==
    /\ pc # "down"
    /\ pc' = "down"
    /\ UNCHANGED <<file, attempts, memory, history>>

Attempt ==
    \/ FrontMatter
    \/ LeaveLoop
    \/ SkipRound
    \/ BeginRound
    \/ NoProposals
    \/ \E c \in Champions \union {NoChampion} : RunRound(c)
    \/ CompleteRound
    \/ NextRound
    \/ Decline
    \/ Certify
    \/ Return

Next == Start \/ Attempt \/ Deadline \/ Crash

Spec == Init /\ [][Next]_vars

-----------------------------------------------------------------------------
(* Properties *)

Labels == {"down", "front", "loop", "body", "complete", "next", "winner",
           "verdict"}

TypeOK ==
    /\ {file, state} \subseteq States
    /\ attempts \in 0..MaxAttempts
    /\ pc \in Labels
    /\ {carried, best} \subseteq Champions \union {NoChampion}
    /\ r \in 0..MaxRounds
    /\ late \in BOOLEAN
    /\ bodies \in Nat
    /\ looked \subseteq Champions

\* A round that is durably done stays so over every crash and every change of
\* settings, and no later attempt runs its body again.
FinishedStaysFinished ==
    [][/\ file.done \subseteq file'.done
       /\ pc' = "body" /\ pc # "body" => r \notin file.done]_vars

\* Wherever an attempt stops, what it would certify is the champion on disk: a
\* crash loses the round in flight and nothing else, and a resumed attempt
\* never certifies less than what was found before it.  Only an attempt whose
\* deadline passes before its first round has no winner at all.
WinnerIsChampion ==
    pc \in {"loop", "next", "winner", "verdict"} =>
        best = file.champion \/ (best = NoChampion /\ r = 0)

\* However often it crashed, the work of at most one round was lost by each
\* attempt: all other bodies that ran belong to rounds that are done.
LosesOneRoundEach == bodies <= Cardinality(file.done) + attempts

\* Crashes and resumes apart, the checkpoint is a search by rounds that nobody
\* interrupted.
Search == INSTANCE RoundSearch WITH
    finished <- file.done,
    champion <- file.champion

ResumesTheSearch == Search!Spec

\* CONTRACT.md: the sealed test is touched exactly once, for the winner.
SealedTouchedOnce == Cardinality(looked) <= 1
=============================================================================
