------------------------ MODULE ResumableRun_proofs ------------------------
(***************************************************************************)
(* Crashes and resumes are invisible in the checkpoint, for any candidates *)
(* and scores and any number of rounds and attempts.                       *)
(***************************************************************************)
EXTENDS ResumableRun, FiniteSetTheorems, TLAPS

\* The rounds before round k.
Before(k) == {q \in Rounds : q < k}

\* An attempt knows what is on disk.
InStep == pc # "down" => state = file

\* Rounds end in their order; without one there is no champion.
Prefix ==
    /\ \E k \in 0..MaxRounds : file.done = Before(k)
    /\ file.done = {} => file.champion = NoChampion

\* The loop has passed only rounds that are done, its gate still holds the
\* champion of those it will skip, and it runs the first one that is not done.
Position ==
    /\ pc = "front" => r = 0 /\ best = NoChampion /\ carried = file.champion
    /\ pc = "loop" => /\ Before(r) \subseteq file.done
                      /\ r \in file.done => carried = file.champion
    /\ pc \in {"body", "complete"} => r \in Rounds /\ file.done = Before(r)
    /\ pc = "next" => r \in Rounds /\ file.done = Before(r + 1)

\* The loop's best is the champion, or one that the round has just improved.
BestSoFar ==
    /\ pc \in {"body", "next"} => best = file.champion
    /\ pc = "complete" =>
          best = file.champion \/ best.score > file.champion.score

\* An attempt that is not in a round has a lost round to its credit.
Credit == IF pc \in {"front", "loop", "next"} THEN 1 ELSE 0
WorkAccounted == bodies + Credit <= Cardinality(file.done) + attempts

Inv ==
    /\ TypeOK
    /\ InStep
    /\ Prefix
    /\ Position
    /\ BestSoFar
    /\ WinnerIsChampion

-----------------------------------------------------------------------------
\* Scores compare as the numbers they are, the missing one below all others.
LEMMA ScoreType ==
    ASSUME NEW c \in Champions \union {NoChampion}
    PROVE  /\ c.score \in Int
           /\ c # NoChampion => c \in Champions /\ c.score > NoChampion.score
<1>1. NoChampion.score = -1
  BY DEF NoChampion
<1>2. CASE c \in Champions
  <2>1. c.score \in Nat
    BY <1>2, ResumableRunAssumption DEF Champions
  <2> QED BY <1>1, <1>2, <2>1
<1>3. CASE c = NoChampion
  BY <1>1, <1>3
<1> QED BY <1>2, <1>3

\* Types, and what an attempt knows of the disk, are kept by every step.
LEMMA TypeStep ==
    TypeOK /\ InStep /\ Position /\ [Next]_vars => TypeOK' /\ InStep'
<1> SUFFICES ASSUME TypeOK, InStep, Position, [Next]_vars
             PROVE  TypeOK' /\ InStep'
  OBVIOUS
<1>0. MaxRounds \in Nat /\ MaxRounds > 0 /\ MaxAttempts \in Nat
  BY ResumableRunAssumption
<1> USE DEF TypeOK, InStep, Labels, memory, history
<1>1. CASE Start
  <2>1. PICK n \in 1..MaxRounds : state' = Loaded(n)
    BY <1>1 DEF Start
  <2>2. Loaded(n) \in States
    BY <1>0, <2>1 DEF Loaded, States, Larger
  <2>3. attempts' \in 0..MaxAttempts /\ 0 \in 0..MaxRounds
    BY <1>0, <1>1 DEF Start
  <2>4. file.champion \in Champions \union {NoChampion}
    BY DEF States
  <2> QED BY <1>1, <2>1, <2>2, <2>3, <2>4 DEF Start
<1>2. CASE FrontMatter
  BY <1>2 DEF FrontMatter
<1>3. CASE LeaveLoop
  BY <1>3 DEF LeaveLoop
<1>4. CASE SkipRound
  <2>1. state.rounds \in 0..MaxRounds /\ r < state.rounds
    BY <1>0, <1>4 DEF SkipRound, Left, States
  <2>2. r + 1 \in 0..MaxRounds
    BY <1>0, <2>1
  <2> QED BY <1>4, <2>2 DEF SkipRound, Restored
<1>5. CASE BeginRound
  BY <1>5 DEF BeginRound
<1>6. CASE NoProposals
  BY <1>6 DEF NoProposals
<1>7. ASSUME NEW c \in Champions \union {NoChampion}, RunRound(c)
      PROVE  TypeOK' /\ InStep'
  BY <1>7 DEF RunRound
<1>8. CASE CompleteRound
  <2>1. r \in Rounds
    BY <1>8 DEF CompleteRound, Position
  <2>2. Completed \in States
    BY <2>1 DEF Completed, States
  <2> QED BY <1>8, <2>2 DEF CompleteRound
<1>9. CASE NextRound
  <2>1. r + 1 \in 0..MaxRounds
    BY <1>0, <1>9 DEF NextRound, Position, Rounds
  <2> QED BY <1>9, <2>1 DEF NextRound
<1>10. CASE Decline
  BY <1>10 DEF Decline
<1>11. CASE Certify
  BY <1>11 DEF Certify
<1>12. CASE Return
  BY <1>12 DEF Return
<1>13. CASE Deadline
  BY <1>13 DEF Deadline
<1>14. CASE Crash
  BY <1>14 DEF Crash
<1>15. CASE UNCHANGED vars
  BY <1>15 DEF vars
<1> QED
  BY <1>1, <1>2, <1>3, <1>4, <1>5, <1>6, <1>7, <1>8, <1>9, <1>10, <1>11,
     <1>12, <1>13, <1>14, <1>15
  DEF Next, Attempt

\* The order of the rounds and the hold on the champion are kept as well.
LEMMA SearchStep ==
    Inv /\ [Next]_vars =>
        Prefix' /\ Position' /\ BestSoFar' /\ WinnerIsChampion'
<1> DEFINE Goal == Prefix' /\ Position' /\ BestSoFar' /\ WinnerIsChampion'
<1> SUFFICES ASSUME Inv, [Next]_vars PROVE Goal
  OBVIOUS
<1>0. /\ MaxRounds \in Nat /\ MaxRounds > 0
      /\ r \in 0..MaxRounds
      /\ file \in States /\ state \in States
      /\ pc \in Labels
      /\ best \in Champions \union {NoChampion}
      /\ file.champion \in Champions \union {NoChampion}
  BY ResumableRunAssumption DEF Inv, TypeOK, States
<1>1. Prefix /\ Position /\ BestSoFar /\ WinnerIsChampion /\ InStep
  BY DEF Inv
<1> HIDE DEF Goal
<1>2. ASSUME UNCHANGED <<file, carried, r, best>>,
             \/ pc' = pc
             \/ pc' \in {"winner", "verdict", "down"}
                /\ pc \in {"loop", "next", "winner", "verdict"}
             \/ pc' = "down"
             \/ pc = "body" /\ pc' = "winner"
      PROVE  Goal
  <2>1. Prefix'
    BY <1>1, <1>2 DEF Prefix, Before
  <2>2. Position' /\ BestSoFar'
    BY <1>1, <1>2 DEF Position, BestSoFar, Before
  <2>3. WinnerIsChampion'
    BY <1>1, <1>2 DEF WinnerIsChampion, BestSoFar
  <2> QED BY <2>1, <2>2, <2>3 DEF Goal
<1>3. CASE Start
  <2>1. PICK n \in 1..MaxRounds : file' = Loaded(n)
    BY <1>3 DEF Start
  <2>2. file'.done = file.done /\ file'.champion = file.champion
    BY <1>0, <2>1 DEF Loaded, States
  <2>3. /\ pc' = "front" /\ r' = 0 /\ best' = NoChampion
        /\ carried' = file.champion
    BY <1>3 DEF Start
  <2>4. Prefix'
    BY <1>1, <2>2 DEF Prefix, Before
  <2> QED
    BY <2>2, <2>3, <2>4
    DEF Goal, Position, BestSoFar, WinnerIsChampion
<1>4. CASE FrontMatter
  <2>1. UNCHANGED <<file, carried, r, best>> /\ pc = "front"
        /\ pc' \in {"loop", "down"}
    BY <1>4 DEF FrontMatter, memory
  <2>2. CASE pc' = "down"
    BY <1>2, <2>1, <2>2
  <2>3. CASE pc' = "loop"
    <3>1. r' = 0 /\ best' = NoChampion /\ carried' = file'.champion
      BY <1>1, <2>1 DEF Position
    <3>2. Prefix'
      BY <1>1, <2>1 DEF Prefix, Before
    <3>3. Before(r') = {}
      BY <3>1 DEF Before, Rounds
    <3> QED
      BY <2>3, <3>1, <3>2, <3>3
      DEF Goal, Position, BestSoFar, WinnerIsChampion
  <2> QED BY <2>1, <2>2, <2>3
<1>5. CASE LeaveLoop
  BY <1>2, <1>5 DEF LeaveLoop, memory
<1>6. CASE SkipRound
  <2>1. /\ pc = "loop" /\ pc' = "loop" /\ r' = r + 1 /\ file' = file
        /\ carried' = carried /\ best' = Restored
        /\ r \in state.done /\ state = file
    BY <1>1, <1>6 DEF SkipRound, InStep
  <2>2. carried = file.champion
    BY <1>1, <2>1 DEF Position
  <2>3. best' = file'.champion
    <3>1. best = file.champion \/ best = NoChampion
      BY <1>1, <2>1 DEF WinnerIsChampion
    <3>2. best.score \in Int
      BY <1>0, ScoreType
    <3> QED BY <2>1, <2>2, <3>1, <3>2 DEF Restored
  <2>4. Before(r') \subseteq file'.done
    BY <1>0, <1>1, <2>1 DEF Position, Before, Rounds
  <2>5. Prefix'
    BY <1>1, <2>1 DEF Prefix, Before
  <2> QED
    BY <2>1, <2>2, <2>3, <2>4, <2>5
    DEF Goal, Position, BestSoFar, WinnerIsChampion
<1>7. CASE BeginRound
  <2>1. /\ pc = "loop" /\ pc' = "body" /\ r' = r /\ file' = file
        /\ best' = best /\ r \notin file.done /\ r < state.rounds
    BY <1>0, <1>1, <1>7 DEF BeginRound, InStep, memory, Left, States
  <2>2. r \in Rounds
    BY <1>0, <2>1 DEF Rounds, States
  <2>3. Before(r) \subseteq file.done
    BY <1>1, <2>1 DEF Position
  <2>4. file.done = Before(r)
    <3>1. PICK k \in 0..MaxRounds : file.done = Before(k)
      BY <1>1 DEF Prefix
    <3>2. ~(r < k)
      BY <2>1, <2>2, <3>1 DEF Before
    <3> QED BY <1>0, <2>3, <3>1, <3>2 DEF Before, Rounds
  <2>5. best = file.champion
    <3>1. r = 0 => file.done = {}
      BY <2>4 DEF Before, Rounds
    <3> QED BY <1>1, <2>1, <3>1 DEF WinnerIsChampion, Prefix
  <2>6. Prefix'
    BY <1>1, <2>1 DEF Prefix, Before
  <2> QED
    BY <2>1, <2>2, <2>4, <2>5, <2>6
    DEF Goal, Position, BestSoFar, WinnerIsChampion, Before
<1>8. CASE NoProposals
  BY <1>2, <1>8 DEF NoProposals, memory
<1>9. ASSUME NEW c \in Champions \union {NoChampion}, RunRound(c) PROVE Goal
  <2>1. /\ pc = "body" /\ pc' = "complete" /\ r' = r /\ file' = file
        /\ best' = IF Better(c) THEN c ELSE best
    BY <1>9 DEF RunRound
  <2>2. best = file.champion
    BY <1>1, <2>1 DEF BestSoFar
  <2>3. best' = file.champion \/ best'.score > file.champion.score
    BY <2>1, <2>2, ScoreType DEF Better
  <2>4. Prefix'
    BY <1>1, <2>1 DEF Prefix, Before
  <2> QED
    BY <1>1, <2>1, <2>3, <2>4
    DEF Goal, Position, BestSoFar, WinnerIsChampion, Before
<1>10. CASE CompleteRound
  <2>1. /\ pc = "complete" /\ pc' = "next" /\ r' = r /\ best' = best
        /\ file' = Completed /\ state = file
    BY <1>1, <1>10 DEF CompleteRound, InStep
  <2>2. r \in Rounds /\ file.done = Before(r)
    BY <1>1, <2>1 DEF Position
  <2>3. file'.done = file.done \union {r} /\ file'.champion = best
    BY <1>0, <2>1 DEF Completed, States
  <2>4. file'.done = Before(r + 1)
    BY <1>0, <2>2, <2>3 DEF Before, Rounds
  <2>5. r + 1 \in 0..MaxRounds
    BY <1>0, <2>2 DEF Rounds
  <2>6. Prefix'
    BY <2>3, <2>4, <2>5 DEF Prefix, Before
  <2> QED
    BY <2>1, <2>2, <2>3, <2>4, <2>6
    DEF Goal, Position, BestSoFar, WinnerIsChampion, Before
<1>11. CASE NextRound
  <2>1. /\ pc = "next" /\ file' = file /\ best' = best /\ carried' = carried
        /\ \/ pc' = "loop" /\ r' = r + 1
           \/ pc' = "winner" /\ r' = r
    BY <1>11 DEF NextRound
  <2>2. CASE pc' = "winner"
    BY <1>2, <2>1, <2>2
  <2>3. CASE pc' = "loop"
    <3>1. r \in Rounds /\ file.done = Before(r + 1) /\ r' = r + 1
      BY <1>1, <2>1, <2>3 DEF Position
    <3>2. r' \notin file'.done /\ Before(r') \subseteq file'.done
      BY <2>1, <3>1 DEF Before, Rounds
    <3>3. best = file.champion
      BY <1>1, <2>1 DEF BestSoFar
    <3>4. Prefix'
      BY <1>1, <2>1 DEF Prefix, Before
    <3> QED
      BY <2>1, <2>3, <3>1, <3>2, <3>3, <3>4
      DEF Goal, Position, BestSoFar, WinnerIsChampion
  <2> QED BY <2>1, <2>2, <2>3
<1>12. CASE Decline
  BY <1>2, <1>12 DEF Decline, memory
<1>13. CASE Certify
  BY <1>2, <1>13 DEF Certify, memory
<1>14. CASE Return
  BY <1>2, <1>14 DEF Return, memory
<1>15. CASE Deadline
  BY <1>2, <1>15 DEF Deadline
<1>16. CASE Crash
  BY <1>2, <1>16 DEF Crash, memory
<1>17. CASE UNCHANGED vars
  BY <1>2, <1>17 DEF vars, memory
<1> QED
  BY <1>3, <1>4, <1>5, <1>6, <1>7, <1>8, <1>9, <1>10, <1>11, <1>12, <1>13,
     <1>14, <1>15, <1>16, <1>17
  DEF Next, Attempt

\* Crashes keep Inv, and so does everything else.
LEMMA InvKept == Spec => []Inv
<1>1. Init => Inv
  <2>1. /\ 0 \in 0..MaxRounds /\ 0 \in 0..MaxAttempts
        /\ NoState.done = {} /\ NoState.champion = NoChampion
        /\ NoState \in States
    BY ResumableRunAssumption DEF NoState, States
  <2>2. Before(0) = {}
    BY DEF Before, Rounds
  <2> SUFFICES ASSUME Init PROVE Inv
    OBVIOUS
  <2>3. TypeOK
    BY <2>1 DEF Init, TypeOK, Labels
  <2> QED
    BY <2>1, <2>2, <2>3
    DEF Init, Inv, InStep, Prefix, Position, BestSoFar, WinnerIsChampion
<1>2. Inv /\ [Next]_vars => Inv'
  BY TypeStep, SearchStep DEF Inv
<1> QED BY <1>1, <1>2, PTL DEF Spec

\* Every variable keeps its type, the checkpoint and its round numbers within
\* the bounds.
THEOREM TypeCorrect == Spec => []TypeOK
<1>1. Inv => TypeOK
  BY DEF Inv
<1> QED BY <1>1, InvKept, PTL

\* Wherever an attempt stops, what it would certify is the champion on disk.
THEOREM WinnersAreChampions == Spec => []WinnerIsChampion
<1>1. Inv => WinnerIsChampion
  BY DEF Inv
<1> QED BY <1>1, InvKept, PTL

-----------------------------------------------------------------------------
\* The only steps that write the checkpoint's rounds or its champion: a round
\* that ends adds itself and a champion that is as good.
LEMMA FileStep ==
    ASSUME Inv, [Next]_vars
    PROVE  IF CompleteRound
           THEN /\ r \in Rounds /\ file.done = Before(r)
                /\ file'.done = file.done \union {r} /\ file'.champion = best
                /\ looked' = looked
           ELSE file'.done = file.done /\ file'.champion = file.champion
<1>1. file \in States /\ (pc # "down" => state = file) /\ Position
  BY DEF Inv, TypeOK, InStep
<1>2. CASE Start
  <2>1. PICK n \in 1..MaxRounds : file' = Loaded(n)
    BY <1>2 DEF Start
  <2>2. file'.done = file.done /\ file'.champion = file.champion
    BY <1>1, <2>1 DEF Loaded, States
  <2> QED BY <1>2, <2>2 DEF Start, CompleteRound
<1>3. CASE CompleteRound
  <2>1. r \in Rounds /\ file.done = Before(r)
    BY <1>1, <1>3 DEF CompleteRound, Position
  <2>2. file' = Completed /\ state = file /\ looked' = looked
    BY <1>1, <1>3 DEF CompleteRound, history
  <2>3. file'.done = file.done \union {r} /\ file'.champion = best
    BY <1>1, <2>2 DEF Completed, States
  <2> QED BY <1>3, <2>1, <2>2, <2>3
<1>4. CASE ~CompleteRound /\ file' = file
  BY <1>4
<1> QED
  BY <1>2, <1>3, <1>4
  DEF Next, Attempt, FrontMatter, LeaveLoop, SkipRound, BeginRound, NoProposals,
      RunRound, NextRound, Decline, Certify, Return, Deadline, Crash, vars

\* A round that is durably done stays so over every crash and every change of
\* settings, and no later attempt runs its body again.
THEOREM FinishedStays == Spec => FinishedStaysFinished
<1>1. Inv /\ [Next]_vars =>
        [/\ file.done \subseteq file'.done
         /\ pc' = "body" /\ pc # "body" => r \notin file.done]_vars
  <2> SUFFICES ASSUME Inv, [Next]_vars
               PROVE  /\ file.done \subseteq file'.done
                      /\ pc' = "body" /\ pc # "body" => r \notin file.done
    OBVIOUS
  <2>1. file.done \subseteq file'.done
    BY FileStep
  <2>2. ASSUME pc' = "body", pc # "body" PROVE r \notin file.done
    <3>1. BeginRound
      BY <2>2
      DEF Next, Attempt, Start, FrontMatter, LeaveLoop, SkipRound, NoProposals,
          RunRound, CompleteRound, NextRound, Decline, Certify, Return,
          Deadline, Crash, vars
    <3>2. state = file
      BY <3>1 DEF Inv, InStep, BeginRound
    <3> QED BY <3>1, <3>2 DEF BeginRound
  <2> QED BY <2>1, <2>2
<1> QED BY <1>1, InvKept, PTL DEF Spec, FinishedStaysFinished

\* Crashes and resumes apart, the checkpoint is a search by rounds that nobody
\* interrupted.
THEOREM SearchResumed == Spec => ResumesTheSearch
<1>1. Init => Search!Init
  BY DEF Init, NoState, Search!Init
<1>2. Inv /\ [Next]_vars => [Search!Next]_(Search!searchVars)
  <2> SUFFICES ASSUME Inv, [Next]_vars
               PROVE  Search!Next \/ UNCHANGED Search!searchVars
    OBVIOUS
  <2> USE DEF Search!searchVars
  <2>1. CASE CompleteRound
    <3>1. /\ r \in Rounds /\ file.done = Before(r)
          /\ file'.done = file.done \union {r} /\ file'.champion = best
          /\ looked' = looked
      BY <2>1, FileStep DEF CompleteRound, history
    <3>2. /\ best = file.champion \/ best.score > file.champion.score
          /\ {best, file.champion} \subseteq Champions \union {NoChampion}
      BY <2>1 DEF Inv, BestSoFar, CompleteRound, TypeOK, States
    <3>3. best = file.champion \/ best \in Champions
      <4>1. ASSUME best = NoChampion, best.score > file.champion.score
            PROVE  FALSE
        BY <3>2, <4>1, ScoreType
      <4> QED BY <3>2, <4>1
    <3>4. Search!EndRound
      BY <3>1, <3>2, <3>3 DEF Search!EndRound, Before
    <3> QED BY <3>4 DEF Search!Next
  <2>2. CASE Certify
    <3>1. file' = file /\ pc = "winner" /\ best # NoChampion
      BY <2>2 DEF Certify
    <3>2. best = file.champion
      BY <3>1 DEF Inv, WinnerIsChampion
    <3>3. looked' = looked \/ Search!Look
      BY <2>2, <3>1, <3>2 DEF Certify, Search!Look
    <3> QED BY <3>1, <3>3 DEF Search!Next
  <2>3. CASE ~CompleteRound /\ ~Certify
    <3>1. looked' = looked
      BY <2>3
      DEF Next, Attempt, Start, FrontMatter, LeaveLoop, SkipRound, BeginRound,
          NoProposals, RunRound, NextRound, Decline, Return, Deadline, Crash,
          vars, history
    <3> QED BY <2>3, <3>1, FileStep
  <2> QED BY <2>1, <2>2, <2>3
<1> QED BY <1>1, <1>2, InvKept, PTL DEF Spec, Search!Spec, ResumesTheSearch

-----------------------------------------------------------------------------
\* A round that has ended counts as one more.
LEMMA OneMore ==
    ASSUME NEW k \in Rounds
    PROVE  /\ IsFiniteSet(Before(k))
           /\ Cardinality(Before(k)) \in Nat
           /\ Cardinality(Before(k) \union {k}) = Cardinality(Before(k)) + 1
<1>1. IsFiniteSet(0..(MaxRounds - 1))
  BY FS_Interval, ResumableRunAssumption
<1>2. Before(k) \subseteq 0..(MaxRounds - 1)
  BY DEF Before, Rounds
<1>3. IsFiniteSet(Before(k))
  BY <1>1, <1>2, FS_Subset
<1>4. k \notin Before(k)
  BY DEF Before, Rounds
<1> QED BY <1>3, <1>4, FS_AddElement, FS_CardinalityType

\* However often it crashed, the work of at most one round was lost by each
\* attempt.
THEOREM LosesLittle == Spec => []LosesOneRoundEach
<1> DEFINE C == Cardinality(file.done)
<1>1. Init => WorkAccounted
  BY FS_EmptySet DEF Init, NoState, WorkAccounted, Credit
<1>2. Inv /\ Inv' /\ WorkAccounted /\ [Next]_vars => WorkAccounted'
  <2> SUFFICES ASSUME Inv, Inv', WorkAccounted, [Next]_vars
               PROVE  WorkAccounted'
    OBVIOUS
  <2>0. bodies \in Nat /\ attempts \in Nat /\ pc \in Labels
    BY ResumableRunAssumption DEF Inv, TypeOK
  <2>1. C \in Nat
    <3>1. PICK k \in 0..MaxRounds : file.done = Before(k)
      BY DEF Inv, Prefix
    <3>2. IsFiniteSet(0..(MaxRounds - 1))
      BY FS_Interval, ResumableRunAssumption
    <3>3. IsFiniteSet(file.done)
      BY <3>1, <3>2, FS_Subset DEF Before, Rounds
    <3> QED BY <3>3, FS_CardinalityType
  <2>2. CASE CompleteRound
    <3>1. C' = C + 1
      <4>1. /\ r \in Rounds /\ file.done = Before(r)
            /\ file'.done = file.done \union {r}
        BY <2>2, FileStep DEF CompleteRound
      <4> QED BY <4>1, OneMore
    <3>2. bodies' = bodies /\ attempts' = attempts /\ Credit = 0 /\ Credit' = 1
      BY <2>2 DEF CompleteRound, history, Credit
    <3> QED BY <2>0, <2>1, <3>1, <3>2 DEF WorkAccounted
  <2>3. CASE ~CompleteRound
    <3>1. C' = C
      BY <2>3, FileStep
    <3>2. \/ Start
          \/ BeginRound
          \/ bodies' = bodies /\ attempts' = attempts /\ Credit' <= Credit
      BY <2>0, <2>3
      DEF Next, Attempt, FrontMatter, LeaveLoop, SkipRound, NoProposals,
          RunRound, NextRound, Decline, Certify, Return, Deadline, Crash, vars,
          history, Credit, Labels
    <3>3. CASE Start
      BY <2>0, <2>1, <3>1, <3>3 DEF Start, history, WorkAccounted, Credit
    <3>4. CASE BeginRound
      BY <2>0, <2>1, <3>1, <3>4 DEF BeginRound, WorkAccounted, Credit
    <3>5. CASE bodies' = bodies /\ attempts' = attempts /\ Credit' <= Credit
      <4>1. Credit \in Nat /\ Credit' \in Nat
        BY DEF Credit
      <4> QED BY <2>0, <2>1, <3>1, <3>5, <4>1 DEF WorkAccounted
    <3> QED BY <3>2, <3>3, <3>4, <3>5
  <2> QED BY <2>2, <2>3
<1>3. Inv /\ WorkAccounted => LosesOneRoundEach
  <2> SUFFICES ASSUME Inv, WorkAccounted PROVE LosesOneRoundEach
    OBVIOUS
  <2>1. PICK k \in 0..MaxRounds : file.done = Before(k)
    BY DEF Inv, Prefix
  <2>2. IsFiniteSet(0..(MaxRounds - 1))
    BY FS_Interval, ResumableRunAssumption
  <2>3. C \in Nat
    BY <2>1, <2>2, FS_Subset, FS_CardinalityType DEF Before, Rounds
  <2>4. bodies \in Nat /\ attempts \in Nat
    BY ResumableRunAssumption DEF Inv, TypeOK
  <2> QED BY <2>3, <2>4 DEF WorkAccounted, Credit, LosesOneRoundEach
<1> QED BY <1>1, <1>2, <1>3, InvKept, PTL DEF Spec
=============================================================================
