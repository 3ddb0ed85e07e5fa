-------------------------- MODULE Attestra_proofs ---------------------------
(***************************************************************************)
(* Attestra's control, for every number of attempts, calls, phases, rounds *)
(* and proposals and every range of scores: what the strategy loop promises; *)
(* the certificate that is reported is the leading phase's own, and calls, *)
(* stores and answers together implement Attempt; the catalog engine reports *)
(* what it certified, and the generative engine never gives up its best.   *)
(***************************************************************************)
EXTENDS MCAttestra, TLAPS

-----------------------------------------------------------------------------
(* The strategy loop *)

\* A new strategy is one: only AtTop keeps the ladder from being left.
LEMMA EscalatedType ==
    ASSUME StrategyAssumption, NEW s \in Strategies, NEW mode \in Modes,
           s.rung < LadderTop
    PROVE  Escalated(s, mode) \in Strategies
  BY DEF StrategyAssumption, Strategies, Tiers, Escalated

LEMMA DiagnosisType == Diagnosis \in Modes
  BY DEF Diagnosis, Modes

LEMMA InitType == LoopInit => LoopTypeOK
  <1> SUFFICES ASSUME LoopInit PROVE LoopTypeOK
    OBVIOUS
  <1>0. /\ MaxAttempts \in Nat /\ TotalBudget \in Nat /\ MaxScore \in Nat
        /\ LadderTop \in Nat /\ Patience \in Nat
    BY StrategyAssumption DEF StrategyAssumption
  <1>1. strategy \in Strategies
    BY <1>0 DEF LoopInit, Strategies, Tiers, Baseline
  <1>2. verdict \in Verdicts
    BY <1>0 DEF LoopInit, Verdicts, AttemptScores
  <1>3. seen \in AttemptScores /\ tried \subseteq AttemptScores
    BY <1>0 DEF LoopInit, AttemptScores
  <1>4. budget \in Int /\ patience \in 0..Patience
        /\ attempts \in 0..MaxAttempts /\ stuck \in Nat
    BY <1>0 DEF LoopInit
  <1>5. pc \in {"head", "judge", "finish", "done"}
    BY DEF LoopInit
  <1>6. resetUsed \in BOOLEAN /\ answer \in Answers \cup {NoAnswer}
    BY Zenon DEF LoopInit
  <1> QED
    BY <1>1, <1>2, <1>3, <1>4, <1>5, <1>6, Zenon DEF LoopTypeOK

\* An attempt that may start is never given more than there is: the minimum
\* is there by the guard, and the fraction is of what is there.
LEMMA AllocationFits ==
    ASSUME budget \in Int, MayTry
    PROVE  /\ Allocation \in Int
           /\ Allocation <= budget
  <1>1. budget >= MinBudget /\ MinBudget \in Nat /\ Reserve \in Nat
    BY StrategyAssumption DEF MayTry, StrategyAssumption
  <1>2. /\ (2 * budget) \div 5 \in Int
        /\ (2 * budget) \div 5 <= budget
    BY <1>1
  <1> QED
    BY <1>1, <1>2 DEF Allocation, Larger, Smaller

\* The patience counter is below the patience whenever an attempt is judged.
Waiting == pc \in {"head", "judge"} => patience < Patience

LEMMA WaitedType ==
    ASSUME LoopTypeOK, Waiting, pc = "judge"
    PROVE  /\ Waited \in 0..Patience
           /\ ~Gained => Waited = patience + 1
           /\ Gained => Waited = 0
  BY StrategyAssumption DEF StrategyAssumption, LoopTypeOK, Waiting, Waited

\* The counter that is restarted once is all that separates the attempts
\* without a gain from the patience counter.
StuckBound == stuck <= patience + (IF resetUsed THEN Patience ELSE 0)

LoopInv == LoopTypeOK /\ Waiting /\ StuckBound /\ OverdrawIsOneOverrun

LEMMA InitInv == LoopInit => LoopInv
  <1> SUFFICES ASSUME LoopInit PROVE LoopInv
    OBVIOUS
  <1>1. LoopTypeOK
    BY InitType
  <1>2. Waiting /\ StuckBound /\ OverdrawIsOneOverrun
    BY StrategyAssumption
    DEF LoopInit, Waiting, StuckBound, OverdrawIsOneOverrun, StrategyAssumption
  <1> QED
    BY <1>1, <1>2 DEF LoopInv

LEMMA StepInv == LoopInv /\ [LoopNext]_loopVars => LoopInv'
  <1> SUFFICES ASSUME LoopInv, [LoopNext]_loopVars PROVE LoopInv'
    OBVIOUS
  <1>0. LoopTypeOK /\ Waiting /\ StuckBound /\ OverdrawIsOneOverrun
    BY DEF LoopInv
  <1>c. /\ Patience \in Nat \ {0}
        /\ MaxAttempts \in Nat
        /\ LadderTop \in Nat
        /\ Overrun \in Nat
        /\ MinGain \in Nat
    BY StrategyAssumption DEF StrategyAssumption
  <1>1. CASE TryOnce
    <2>1. PICK a \in Answers, spent \in 0..(Allocation + Overrun) :
             /\ answer' = a
             /\ budget' = budget - spent
             /\ tried' = tried \cup {a.score}
      BY <1>1 DEF TryOnce
    <2>2. Allocation \in Int /\ Allocation <= budget
      BY <1>0, <1>1, AllocationFits DEF TryOnce, LoopTypeOK
    <2>3. budget' \in Int /\ budget' >= -Overrun
      BY <1>0, <1>c, <2>1, <2>2 DEF LoopTypeOK
    <2>4. a.score \in AttemptScores
      BY <2>1 DEF Answers
    <2>5. attempts' \in 0..MaxAttempts
      BY <1>0, <1>1, <1>c DEF TryOnce, MayTry, LoopTypeOK
    <2>6. LoopTypeOK'
      BY <1>0, <1>1, <2>1, <2>3, <2>4, <2>5 DEF TryOnce, LoopTypeOK
    <2> QED
      BY <1>0, <1>1, <2>3, <2>6
      DEF TryOnce, LoopInv, Waiting, StuckBound, OverdrawIsOneOverrun
  <1>2. CASE StopTrying
    BY <1>0, <1>2
    DEF StopTrying, LoopInv, LoopTypeOK, Waiting, StuckBound,
        OverdrawIsOneOverrun
  <1>3. CASE Certified
    <2>1. answer.score \in AttemptScores
      BY <1>0, <1>c, StrategyAssumption
      DEF LoopTypeOK, Answers, NoAnswer, AttemptScores, StrategyAssumption
    <2> QED
      BY <1>0, <1>3, <2>1
      DEF Certified, LoopInv, LoopTypeOK, Waiting, StuckBound, Verdicts,
          OverdrawIsOneOverrun
  <1>4. CASE Judge
    <2>1. answer.score \in AttemptScores
      BY <1>0, <1>c, StrategyAssumption
      DEF LoopTypeOK, Answers, NoAnswer, AttemptScores, StrategyAssumption
    <2>2. /\ Waited \in 0..Patience
          /\ ~Gained => Waited = patience + 1
          /\ Gained => Waited = 0
      BY <1>0, <1>4, WaitedType DEF Judge
    <2>3. /\ patience' \in 0..Patience
          /\ patience' < Patience
          /\ resetUsed' \in BOOLEAN
          /\ stuck' \in Nat
          /\ StuckBound'
      <3>1. stuck' \in Nat
        BY <1>0, <1>4 DEF Judge, LoopTypeOK
      <3>2. CASE Waited < Patience /\ patience' = Waited /\ UNCHANGED resetUsed
        BY <1>0, <1>4, <1>c, <2>2, <3>1, <3>2
        DEF Judge, LoopTypeOK, StuckBound
      <3>3. CASE /\ Waited >= Patience /\ SecondChance
                 /\ patience' = 0 /\ resetUsed' = TRUE
        <4>1. ~Gained /\ ~resetUsed
          BY <1>c, <2>2, <3>3 DEF SecondChance
        <4>2. stuck <= patience /\ patience + 1 = Waited /\ stuck' = stuck + 1
          BY <1>0, <1>4, <2>2, <4>1 DEF Judge, StuckBound, LoopTypeOK
        <4> QED
          BY <1>0, <1>c, <2>2, <3>1, <3>3, <4>2 DEF StuckBound, LoopTypeOK
      <3> QED
        BY <1>4, <3>2, <3>3 DEF Judge
    <2>4. /\ pc' \in {"head", "finish"}
          /\ strategy' \in Strategies
      <3>1. CASE AtTop
        BY <1>0, <1>4, <3>1 DEF Judge, LoopTypeOK
      <3>2. CASE ~AtTop
        <4>1. strategy.rung < LadderTop
          BY <1>0, <1>c, <3>2 DEF AtTop, LoopTypeOK, Strategies
        <4> QED
          BY <1>0, <1>4, <3>2, <4>1, EscalatedType, DiagnosisType,
             StrategyAssumption
          DEF Judge, LoopTypeOK
      <3> QED
        BY <3>1, <3>2
    <2>5. seen' \in AttemptScores /\ answer' = NoAnswer
      BY <1>0, <1>4, <2>1 DEF Judge, LoopTypeOK
    <2>6. LoopTypeOK'
      BY <1>0, <1>4, <2>3, <2>4, <2>5 DEF Judge, LoopTypeOK
    <2> QED
      BY <1>0, <1>4, <2>3, <2>6
      DEF Judge, LoopInv, Waiting, OverdrawIsOneOverrun
  <1>5. CASE GiveUp
    <2>1. answer.score \in AttemptScores
      BY <1>0, <1>c, StrategyAssumption
      DEF LoopTypeOK, Answers, NoAnswer, AttemptScores, StrategyAssumption
    <2>2. /\ Waited \in 0..Patience
          /\ ~Gained => Waited = patience + 1
          /\ Gained => Waited = 0
      BY <1>0, <1>5, WaitedType DEF GiveUp
    <2>3. /\ patience' \in 0..Patience
          /\ stuck' \in Nat
          /\ seen' \in AttemptScores
          /\ StuckBound'
      BY <1>0, <1>5, <1>c, <2>1, <2>2 DEF GiveUp, LoopTypeOK, StuckBound
    <2>4. LoopTypeOK'
      BY <1>0, <1>5, <2>3 DEF GiveUp, LoopTypeOK
    <2> QED
      BY <1>0, <1>5, <2>3, <2>4
      DEF GiveUp, LoopInv, Waiting, OverdrawIsOneOverrun
  <1>6. CASE Finish
    <2>1. verdict' \in Verdicts
      BY <1>0, <1>6 DEF Finish, LoopTypeOK, Verdicts
    <2> QED
      BY <1>0, <1>6, <2>1
      DEF Finish, LoopInv, LoopTypeOK, Waiting, StuckBound,
          OverdrawIsOneOverrun
  <1>7. CASE UNCHANGED loopVars
    BY <1>0, <1>7
    DEF loopVars, LoopInv, LoopTypeOK, Waiting, StuckBound,
        OverdrawIsOneOverrun
  <1> QED
    BY <1>1, <1>2, <1>3, <1>4, <1>5, <1>6, <1>7 DEF LoopNext

LEMMA Inductive == LoopSpec => []LoopInv
  <1> QED
    BY InitInv, StepInv, PTL DEF LoopSpec

\* The variables of the loop keep their types: no rung above the ladder, no
\* attempt above the limit, no patience above its bound.
THEOREM LoopTypeCorrect == LoopSpec => []LoopTypeOK
  <1>1. LoopInv => LoopTypeOK
    BY DEF LoopInv
  <1> QED
    BY Inductive, <1>1, PTL

\* The loop is never stuck for longer than two patiences.
THEOREM LoopStops == LoopSpec => []StopsWhenStuck
  <1>1. LoopInv => StopsWhenStuck
    BY StrategyAssumption
    DEF StrategyAssumption, LoopInv, LoopTypeOK, Waiting, StuckBound,
        StopsWhenStuck
  <1> QED
    BY Inductive, <1>1, PTL

\* The loop passes its budget by the overrun of one attempt at most.
THEOREM OverdrawBounded == LoopSpec => []OverdrawIsOneOverrun
  <1>1. LoopInv => OverdrawIsOneOverrun
    BY DEF LoopInv
  <1> QED
    BY Inductive, <1>1, PTL

-----------------------------------------------------------------------------
(* Types and the leader *)

\* Only a call that has begun is anywhere but idle.
InCall == stage # "idle" => call \in Calls

LeaderInv == CallTypeOK /\ CertificateOfTheLeader /\ InCall

LEMMA Numbers ==
    /\ MaxCalls \in Nat /\ Phases \in Nat
    /\ \A s \in Scores \cup {0} : s \in Int
  <1>1. \A s \in Scores : s \in Int
    BY OrchestrateAssumption DEF OrchestrateAssumption
  <1> QED
    BY <1>1, OrchestrateAssumption DEF OrchestrateAssumption

LEMMA AppendTyped ==
    ASSUME NEW S, NEW s \in Seq(S), NEW e \in S
    PROVE  Append(s, e) \in Seq(S)
  OBVIOUS

LEMMA ResultScore == ASSUME NEW r \in Results PROVE r.score \in Int
  <1>1. r.score \in Scores \cup {0}
    BY DEF Results
  <1> QED
    BY <1>1, Numbers

LEMMA ScoresAreNumbers ==
    ASSUME CallTypeOK
    PROVE  /\ best.score \in Int
           /\ reports \in Seq(Results)
           /\ \A i \in 1..Len(reports) : reports[i].score \in Int
  <1>1. best.score \in Scores \cup {0}
    BY DEF CallTypeOK
  <1>2. reports \in Seq(Results)
    BY DEF CallTypeOK
  <1>3. ASSUME NEW i \in 1..Len(reports) PROVE reports[i].score \in Int
    <2>1. reports[i] \in Results
      BY <1>2
    <2> QED
      BY <2>1, ResultScore
  <1> QED
    BY <1>1, <1>2, <1>3, Numbers

LEMMA InitLeader == CallInit => LeaderInv
  <1> SUFFICES ASSUME CallInit PROVE LeaderInv
    OBVIOUS
  <1>1. best \in [score : Scores \cup {0}, name : Names]
    BY DEF CallInit, Names
  <1>2. CertificateOfTheLeader
    BY Numbers DEF CallInit, CertificateOfTheLeader, Runs, NoName
  <1>3. call \in 0..MaxCalls /\ peeks \in Nat
    BY Numbers DEF CallInit
  <1>4. answers \in [Calls -> Decisions \cup {"none"}]
    BY DEF CallInit
  <1>5. late \in BOOLEAN /\ held \in {NoName} \cup Runs /\ decision \in Decisions
    BY Zenon DEF CallInit, Decisions
  <1>6. /\ stage = "idle" /\ engine \in Engines \cup {"none"}
        /\ reports \in Seq(Results)
        /\ stream \in Seq([call : Calls, name : Names])
        /\ registry \in Seq([call : Calls, decision : Decisions])
    BY DEF CallInit
  <1> QED
    BY <1>1, <1>2, <1>3, <1>4, <1>5, <1>6, Zenon
    DEF LeaderInv, CallTypeOK, InCall

\* What a call forgets at its end is what it began with.
LEMMA ForgetLeader ==
    ASSUME Forget
    PROVE  /\ engine' = "none" /\ reports' = <<>> /\ late' = FALSE
           /\ best' \in [score : Scores \cup {0}, name : Names]
           /\ held' = NoName /\ decision' \in Decisions /\ peeks' \in Nat
           /\ CertificateOfTheLeader'
  <1>1. best' \in [score : Scores \cup {0}, name : Names]
    BY DEF Forget, Names
  <1>2. decision' \in Decisions
    BY DEF Forget, Decisions
  <1>3. CertificateOfTheLeader'
    BY Numbers DEF Forget, CertificateOfTheLeader, Runs, NoName
  <1> QED
    BY <1>1, <1>2, <1>3 DEF Forget

\* A phase that leads brings its own certificate, one that does not changes
\* nothing.
LEMMA PhaseLeader ==
    ASSUME LeaderInv, NEW r \in CatalogResults, Len(reports) < Phases,
           reports' = Append(reports, r),
           best' = BestAfter(r, Len(reports) + 1),
           held' = HeldAfter(r, Len(reports) + 1)
    PROVE  /\ reports' \in Seq(Results)
           /\ best' \in [score : Scores \cup {0}, name : Names]
           /\ held' \in {NoName} \cup Runs
           /\ CertificateOfTheLeader'
  <1>0. /\ reports \in Seq(Results) /\ r \in Results
        /\ best \in [score : Scores \cup {0}, name : Names]
        /\ held \in {NoName} \cup Runs
        /\ r.score \in Scores \cup {0}
    BY DEF LeaderInv, CallTypeOK, CatalogResults, Results
  <1> DEFINE p == Len(reports) + 1
  <1>1. /\ p \in Runs /\ p \in Names /\ p \in Nat /\ p # NoName
        /\ p # Pool /\ p # Gpu
    BY <1>0, Numbers DEF Runs, Names, NoName, Pool, Gpu
  <1>2. /\ reports' \in Seq(Results) /\ Len(reports') = p
        /\ reports'[p] = r
        /\ \A i \in 1..Len(reports) : reports'[i] = reports[i]
    BY <1>0
  <1>3. best.score \in Int /\ r.score \in Int
        /\ \A i \in 1..Len(reports) : reports[i].score \in Int
    BY <1>0, ScoresAreNumbers, ResultScore DEF LeaderInv
  <1>4. CASE r.score > best.score
    <2>1. best' = [score |-> r.score, name |-> p] /\ held' = p
      BY <1>4 DEF BestAfter, HeldAfter
    <2>2. \A i \in 1..Len(reports') : reports'[i].score <= best'.score
      BY <1>0, <1>2, <1>3, <1>4, <2>1 DEF LeaderInv, CertificateOfTheLeader
    <2>3. CertificateOfTheLeader'
      BY <1>1, <1>2, <2>1, <2>2 DEF CertificateOfTheLeader
    <2> QED
      BY <1>0, <1>1, <1>2, <2>1, <2>3
  <1>5. CASE ~(r.score > best.score)
    <2>1. best' = best /\ held' = held
      BY <1>5 DEF BestAfter, HeldAfter
    <2>2. \A i \in 1..Len(reports') : reports'[i].score <= best'.score
      BY <1>0, <1>2, <1>3, <1>5, <2>1 DEF LeaderInv, CertificateOfTheLeader
    <2>3. held # NoName => held \in 1..Len(reports) /\ held <= Len(reports')
      BY <1>0, <1>2, Numbers
      DEF LeaderInv, CertificateOfTheLeader, Runs, NoName
    <2>4. CertificateOfTheLeader'
      BY <1>2, <2>1, <2>2, <2>3 DEF LeaderInv, CertificateOfTheLeader
    <2> QED
      BY <1>0, <1>2, <2>1, <2>4
  <1> QED
    BY <1>4, <1>5

\* The pool and the GPU take the score and the name, and only to beat them.
LEMMA ChallengerLeader ==
    ASSUME LeaderInv, NEW n \in {Pool, Gpu}, NEW s \in Scores,
           s > best.score, best' = [score |-> s, name |-> n],
           held' = held, reports' = reports
    PROVE  /\ best' \in [score : Scores \cup {0}, name : Names]
           /\ CertificateOfTheLeader'
  <1>0. /\ reports \in Seq(Results)
        /\ best.score \in Int /\ s \in Int
        /\ held \in {NoName} \cup Runs
        /\ \A i \in 1..Len(reports) : reports[i].score \in Int
    <2>1. s \in Int
      BY Numbers
    <2>2. held \in {NoName} \cup Runs
      BY DEF LeaderInv, CallTypeOK
    <2> QED
      BY <2>1, <2>2, ScoresAreNumbers DEF LeaderInv
  <1>1. n \in Names /\ n \notin Runs
    BY Numbers DEF Names, Runs, Pool, Gpu
  <1>2. held # NoName => held \in 1..Len(reports) /\ n # held
    BY <1>0, <1>1, Numbers DEF LeaderInv, CertificateOfTheLeader, Runs, NoName
  <1>3. held # NoName => s > reports[held].score
    BY <1>0, <1>2 DEF LeaderInv, CertificateOfTheLeader
  <1>4. \A i \in 1..Len(reports) : reports[i].score <= s
    BY <1>0 DEF LeaderInv, CertificateOfTheLeader
  <1>5. CertificateOfTheLeader'
    BY <1>1, <1>2, <1>3, <1>4 DEF LeaderInv, CertificateOfTheLeader
  <1> QED
    BY <1>1, <1>5

LEMMA StepLeader == LeaderInv /\ [CallNext]_callVars => LeaderInv'
  <1> SUFFICES ASSUME LeaderInv, [CallNext]_callVars PROVE LeaderInv'
    OBVIOUS
  <1>t. CallTypeOK /\ CertificateOfTheLeader /\ InCall
    BY DEF LeaderInv
  <1>1. CASE Begin
    BY <1>t, <1>1, Numbers
    DEF Begin, LeaderInv, InCall, CallTypeOK, working, CertificateOfTheLeader, Calls
  <1>2. CASE Intake
    BY <1>t, <1>2
    DEF Intake, LeaderInv, InCall, CallTypeOK, CertificateOfTheLeader
  <1>3. CASE RunOnce
    <2>1. PICK r \in Results :
            /\ reports' = <<r>>
            /\ best' = [score |-> r.score, name |-> 1]
            /\ \E n \in Looks(r) : peeks' = peeks + n
      BY <1>3 DEF RunOnce
    <2>2. peeks' \in Nat
      BY <1>t, <2>1 DEF Looks, CallTypeOK
    <2>3. 1 \in Runs /\ 1 \in Names /\ r.score \in Scores \cup {0}
      BY <2>1, Numbers DEF Runs, Names, Results
    <2>4. CertificateOfTheLeader'
      <3>1. /\ Len(reports') = 1 /\ reports'[1] = r
            /\ held' = 1 /\ best'.score = r.score /\ best'.name = 1
        BY <1>3, <2>1 DEF RunOnce
      <3>2. r.score \in Int
        BY <2>3, Numbers
      <3> QED
        BY <3>1, <3>2 DEF CertificateOfTheLeader, NoName
    <2>5. held' \in {NoName} \cup Runs /\ reports' \in Seq(Results)
          /\ best' \in [score : Scores \cup {0}, name : Names]
      BY <1>3, <2>1, <2>3 DEF RunOnce
    <2> QED
      BY <1>t, <1>3, <2>2, <2>4, <2>5 DEF RunOnce, LeaderInv, InCall, CallTypeOK
  <1>4. CASE RunPhase
    <2>1. PICK r \in CatalogResults :
            /\ reports' = Append(reports, r)
            /\ best' = BestAfter(r, Len(reports) + 1)
            /\ held' = HeldAfter(r, Len(reports) + 1)
            /\ \E n \in Looks(r) : peeks' = peeks + n
      BY <1>4 DEF RunPhase
    <2>2. peeks' \in Nat
      BY <1>t, <2>1 DEF Looks, CallTypeOK
    <2>3. Len(reports) < Phases
      BY <1>4 DEF RunPhase
    <2>4. /\ reports' \in Seq(Results)
          /\ best' \in [score : Scores \cup {0}, name : Names]
          /\ held' \in {NoName} \cup Runs
          /\ CertificateOfTheLeader'
      BY <2>1, <2>3, PhaseLeader
    <2>5. stage' \in {"pool", "search"}
      BY <1>4 DEF RunPhase
    <2> QED
      BY <1>t, <1>4, <2>2, <2>4, <2>5 DEF RunPhase, LeaderInv, InCall, CallTypeOK
  <1>5. CASE RunPool
    <2>1. /\ best' \in [score : Scores \cup {0}, name : Names]
          /\ CertificateOfTheLeader'
      <3>1. CASE UNCHANGED best
        BY <1>t, <1>5, <3>1 DEF RunPool, CallTypeOK, CertificateOfTheLeader
      <3>2. CASE \E s \in Scores : /\ s > best.score
                                   /\ best' = [score |-> s, name |-> Pool]
        BY <1>5, <3>2, ChallengerLeader DEF RunPool
      <3> QED
        BY <1>5, <3>1, <3>2 DEF RunPool
    <2> QED
      BY <1>t, <1>5, <2>1 DEF RunPool, LeaderInv, InCall, CallTypeOK
  <1>6. CASE TimePasses
    BY <1>t, <1>6
    DEF TimePasses, LeaderInv, InCall, CallTypeOK, CertificateOfTheLeader
  <1>7. CASE LeavePhases
    BY <1>t, <1>7
    DEF LeavePhases, LeaderInv, InCall, CallTypeOK, working, CertificateOfTheLeader
  <1>8. CASE EscalateToGpu
    <2>1. /\ best' \in [score : Scores \cup {0}, name : Names]
          /\ CertificateOfTheLeader'
      <3>1. CASE UNCHANGED best
        BY <1>t, <1>8, <3>1
        DEF EscalateToGpu, CallTypeOK, CertificateOfTheLeader
      <3>2. CASE \E s \in Scores : /\ s > best.score
                                   /\ best' = [score |-> s, name |-> Gpu]
        BY <1>8, <3>2, ChallengerLeader DEF EscalateToGpu
      <3> QED
        BY <1>8, <3>1, <3>2 DEF EscalateToGpu
    <2> QED
      BY <1>t, <1>8, <2>1 DEF EscalateToGpu, LeaderInv, InCall, CallTypeOK
  <1>9. CASE Decide
    <2>1. decision' \in Decisions /\ stage' \in {"submit", "record"}
      BY <1>9 DEF Decide, Decided, Decisions
    <2> QED
      BY <1>t, <1>9, <2>1
      DEF Decide, LeaderInv, InCall, CallTypeOK, CertificateOfTheLeader
  <1>10. CASE Submit
    <2>1. call \in Calls /\ best.name \in Names
      BY <1>t, <1>10 DEF Submit, InCall, CallTypeOK
    <2>2. stream' \in Seq([call : Calls, name : Names])
      BY <1>t, <1>10, <2>1 DEF Submit, CallTypeOK
    <2> QED
      BY <1>t, <1>10, <2>2
      DEF Submit, LeaderInv, InCall, CallTypeOK, working, CertificateOfTheLeader
  <1>11. CASE Record
    <2>1. call \in Calls
      BY <1>t, <1>11 DEF Record, InCall
    <2>3. decision \in Decisions
      BY <1>t DEF CallTypeOK
    <2>4. [call |-> call, decision |-> decision]
            \in [call : Calls, decision : Decisions]
      BY <2>1, <2>3
    <2>5. registry \in Seq([call : Calls, decision : Decisions])
      BY <1>t DEF CallTypeOK
    <2>2. registry' \in Seq([call : Calls, decision : Decisions])
      <3> DEFINE entry == [call |-> call, decision |-> decision]
      <3>1. registry' = registry \/ registry' = Append(registry, entry)
        BY <1>11 DEF Record
      <3>2. entry \in [call : Calls, decision : Decisions]
        BY <2>4
      <3> HIDE DEF entry
      <3> QED
        BY <3>1, <3>2, <2>5, AppendTyped, Zenon
    <2>6. /\ stage' = "wrapup"
          /\ UNCHANGED <<call, engine, reports, late, best, held, decision,
                         peeks, stream, answers>>
      BY <1>11 DEF Record, working
    <2>7. CertificateOfTheLeader'
      BY <1>t, <2>6 DEF CertificateOfTheLeader
    <2> QED
      BY <1>t, <2>1, <2>2, <2>6, <2>7 DEF LeaderInv, InCall, CallTypeOK
  <1>12. CASE Return
    <2>1. answers' \in [Calls -> Decisions \cup {"none"}]
      BY <1>t, <1>12 DEF Return, CallTypeOK
    <2> QED
      BY <1>t, <1>12, <2>1, ForgetLeader
      DEF Return, LeaderInv, InCall, CallTypeOK
  <1>13. CASE Raise
    <2>1. answers' \in [Calls -> Decisions \cup {"none"}]
      BY <1>t, <1>13 DEF Raise, Failed, CallTypeOK, Decisions
    <2> QED
      BY <1>t, <1>13, <2>1, ForgetLeader
      DEF Raise, LeaderInv, InCall, CallTypeOK
  <1>14. CASE Crash
    BY <1>t, <1>14, ForgetLeader DEF Crash, LeaderInv, InCall, CallTypeOK
  <1>15. CASE UNCHANGED callVars
    BY <1>t, <1>15
    DEF callVars, working, LeaderInv, InCall, CallTypeOK, CertificateOfTheLeader
  <1> QED
    BY <1>1, <1>2, <1>3, <1>4, <1>5, <1>6, <1>7, <1>8, <1>9, <1>10, <1>11,
       <1>12, <1>13, <1>14, <1>15
    DEF CallNext

\* The variables of the calls keep their types.
THEOREM CallTypeCorrect == CallSpec => []CallTypeOK
  BY InitLeader, StepLeader, PTL DEF CallSpec, LeaderInv

\* In every call the certificate and the model reported are the leading
\* phase's own, whatever the pool and the GPU put in front of its score.
THEOREM LeaderCertified == CallSpec => []CertificateOfTheLeader
  BY InitLeader, StepLeader, PTL DEF CallSpec, LeaderInv
-----------------------------------------------------------------------------
(* The call as an attempt *)

\* The calls of a stream, and a registry as a function of the call.
CallsIn(s) == {s[i].call : i \in 1..Len(s)}
Entries == [call : Calls, decision : Decisions]
RecordOf(r) ==
    [c \in Calls |->
       IF \E i \in 1..Len(r) : r[i].call = c
       THEN r[CHOOSE i \in 1..Len(r) : r[i].call = c].decision
       ELSE "none"]

\* No call is in the registry twice.
Single(r) ==
    \A i \in 1..Len(r) : \A j \in 1..Len(r) : r[i].call = r[j].call => i = j

LEMMA RecordOfEntry ==
    ASSUME NEW r \in Seq(Entries), Single(r), NEW i \in 1..Len(r)
    PROVE  /\ r[i].call \in Calls /\ r[i].decision # "none"
           /\ RecordOf(r)[r[i].call] = r[i].decision
  <1>1. r[i] \in Entries
    <2> HIDE DEF Entries
    <2> QED
      OBVIOUS
  <1>2. r[i].call \in Calls /\ r[i].decision # "none"
    BY <1>1 DEF Entries, Decisions
  <1> DEFINE P(j) == r[j].call = r[i].call
             k == CHOOSE j \in 1..Len(r) : P(j)
  <1>3. k \in 1..Len(r) /\ P(k)
    <2>1. \E j \in 1..Len(r) : P(j)
      OBVIOUS
    <2> HIDE DEF P
    <2> QED
      BY <2>1, Zenon
  <1>4. k = i
    <2>1. k \in 1..Len(r) /\ r[k].call = r[i].call
      BY <1>3
    <2> HIDE DEF k
    <2> QED
      BY <2>1, Zenon DEF Single
  <1>5. RecordOf(r)[r[i].call] = r[k].decision
    BY <1>2, Zenon DEF RecordOf
  <1> QED
    BY <1>2, <1>4, <1>5, Zenon

LEMMA RecordOfNone ==
    ASSUME NEW r, NEW c \in Calls, \A i \in 1..Len(r) : r[i].call # c
    PROVE  RecordOf(r)[c] = "none"
  BY Zenon DEF RecordOf

LEMMA RecordOfType ==
    ASSUME NEW r \in Seq(Entries), Single(r)
    PROVE  RecordOf(r) \in [Calls -> Decisions \cup {"none"}]
  <1>1. ASSUME NEW c \in Calls PROVE RecordOf(r)[c] \in Decisions \cup {"none"}
    <2>1. CASE \E i \in 1..Len(r) : r[i].call = c
      <3>1. PICK i \in 1..Len(r) : r[i].call = c
        BY <2>1
      <3>2. r[i] \in Entries
        <4> HIDE DEF Entries
        <4> QED
          OBVIOUS
      <3>3. r[i].decision \in Decisions
        BY <3>2 DEF Entries
      <3> QED
        BY <3>1, <3>3, RecordOfEntry, Zenon
    <2>2. CASE \A i \in 1..Len(r) : r[i].call # c
      BY <2>2, RecordOfNone, Zenon
    <2> QED
      BY <2>1, <2>2, Zenon
  <1>2. RecordOf(r) = [c \in Calls |-> RecordOf(r)[c]]
    BY DEF RecordOf
  <1> HIDE DEF RecordOf
  <1> QED
    BY <1>1, <1>2

\* A record of a call that has none is a change at that call.
LEMMA RecordOfAppend ==
    ASSUME NEW r \in Seq(Entries), Single(r), NEW e \in Entries,
           RecordOf(r)[e.call] = "none"
    PROVE  /\ Append(r, e) \in Seq(Entries) /\ Single(Append(r, e))
           /\ RecordOf(Append(r, e))
                = [RecordOf(r) EXCEPT ![e.call] = e.decision]
  <1> DEFINE t == Append(r, e)
  <1>1. /\ t \in Seq(Entries)
        /\ Len(r) \in Nat /\ Len(t) = Len(r) + 1 /\ t[Len(r) + 1] = e
        /\ \A i \in 1..Len(r) : t[i] = r[i]
    <2> HIDE DEF Entries
    <2> QED
      OBVIOUS
  <1> HIDE DEF t
  <1>2. 1..Len(t) = (1..Len(r)) \cup {Len(r) + 1}
    BY <1>1
  <1>3. \A i \in 1..Len(r) : r[i].call # e.call
    BY RecordOfEntry, Zenon
  <1>4. Single(t)
    BY <1>1, <1>2, <1>3, Zenon DEF Single
  <1>5. e.call \in Calls /\ e.decision \in Decisions
    BY DEF Entries
  <1>6. ASSUME NEW c \in Calls
        PROVE  RecordOf(t)[c] = IF c = e.call THEN e.decision ELSE RecordOf(r)[c]
    <2>1. CASE c = e.call
      <3>1. Len(r) + 1 \in 1..Len(t)
        BY <1>1
      <3> QED
        BY <1>1, <1>4, <2>1, <3>1, RecordOfEntry, Zenon
    <2>2. CASE c # e.call /\ \E i \in 1..Len(r) : r[i].call = c
      <3>1. PICK i \in 1..Len(r) : r[i].call = c
        BY <2>2
      <3>2. i \in 1..Len(t) /\ t[i] = r[i]
        BY <1>1, <1>2, <3>1
      <3>3. RecordOf(r)[c] = r[i].decision
        BY <3>1, RecordOfEntry, Zenon
      <3>4. RecordOf(t)[c] = t[i].decision
        BY <1>1, <1>4, <3>1, <3>2, RecordOfEntry, Zenon
      <3> QED
        BY <2>2, <3>2, <3>3, <3>4, Zenon
    <2>3. CASE c # e.call /\ \A i \in 1..Len(r) : r[i].call # c
      <3>1. \A i \in 1..Len(t) : t[i].call # c
        BY <1>1, <1>2, <2>3, Zenon
      <3> QED
        BY <2>3, <3>1, RecordOfNone, Zenon
    <2> QED
      BY <2>1, <2>2, <2>3, Zenon
  <1>7. /\ RecordOf(t) \in [Calls -> Decisions \cup {"none"}]
        /\ RecordOf(r) \in [Calls -> Decisions \cup {"none"}]
    BY <1>1, <1>4, RecordOfType, Zenon
  <1>8. RecordOf(t) = [RecordOf(r) EXCEPT ![e.call] = e.decision]
    <2> HIDE DEF RecordOf
    <2> QED
      BY <1>5, <1>6, <1>7
  <1> QED
    BY <1>1, <1>4, <1>8 DEF t

\* A submission adds its call to the stream's, whatever its name.
LEMMA CallsInAppend ==
    ASSUME NEW S, NEW s \in Seq(S), NEW e \in S
    PROVE  CallsIn(Append(s, e)) = CallsIn(s) \cup {e.call}
  <1> DEFINE t == Append(s, e)
  <1>1. /\ Len(s) \in Nat /\ Len(t) = Len(s) + 1 /\ t[Len(s) + 1] = e
        /\ \A i \in 1..Len(s) : t[i] = s[i]
    OBVIOUS
  <1> HIDE DEF t
  <1>2. 1..Len(t) = (1..Len(s)) \cup {Len(s) + 1}
    BY <1>1
  <1>4. ASSUME NEW c PROVE c \in CallsIn(t) => c \in CallsIn(s) \cup {e.call}
    BY <1>1, <1>2 DEF CallsIn
  <1>5. ASSUME NEW c PROVE c \in CallsIn(s) \cup {e.call} => c \in CallsIn(t)
    BY <1>1, <1>2 DEF CallsIn
  <1>3. CallsIn(t) = CallsIn(s) \cup {e.call}
    <2> HIDE DEF CallsIn
    <2> QED
      BY <1>4, <1>5
  <1> QED
    BY <1>3 DEF t

-----------------------------------------------------------------------------
(* The call as an attempt *)

\* Calls to come have left no trace, and a call's traces follow its stages.
Untouched ==
    \A c \in Calls : c > call =>
       c \notin Submitted /\ Recorded[c] = "none" /\ answers[c] = "none"

Staged ==
    /\ stage # "idle" => answers[call] = "none"
    /\ stage \notin {"idle", "record", "wrapup"} => call \notin Submitted
    /\ stage \notin {"idle", "wrapup"} => Recorded[call] = "none"
    /\ stage = "wrapup" => Recorded[call] \in {"none", decision}
    /\ stage \in {"record", "wrapup"} =>
         (decision = "certified" <=> call \in Submitted)
    /\ stage = "submit" => decision = "certified"

Traces == Single(registry) /\ Untouched /\ Staged
AttemptInv == LeaderInv /\ Traces

LEMMA Views == Submitted = CallsIn(stream) /\ Recorded = RecordOf(registry)
  BY DEF Submitted, CallsIn, Recorded, RecordOf

LEMMA ViewsNext ==
    Submitted' = CallsIn(stream') /\ Recorded' = RecordOf(registry')
  BY DEF Submitted, CallsIn, Recorded, RecordOf

LEMMA StoresKept ==
    ASSUME stream' = stream, registry' = registry, AttemptInv
    PROVE  /\ Submitted' = Submitted /\ Recorded' = Recorded
           /\ Single(registry')
  BY Views, ViewsNext DEF AttemptInv, Traces

LEMMA InitTraces == CallInit => Traces
  <1> SUFFICES ASSUME CallInit PROVE Traces
    OBVIOUS
  <1>1. stream = <<>> /\ registry = <<>> /\ stage = "idle"
        /\ answers = [c \in Calls |-> "none"]
    BY DEF CallInit
  <1>2. Submitted = {}
    BY <1>1 DEF Submitted
  <1>3. Recorded = [c \in Calls |-> "none"]
    BY <1>1 DEF Recorded
  <1> QED
    BY <1>1, <1>2, <1>3 DEF Traces, Single, Untouched, Staged

\* A step of a call that touches neither store nor answer.
LEMMA QuietTraces ==
    ASSUME AttemptInv,
           UNCHANGED <<call, stream, registry, answers>>,
           \/ /\ stage' \in {"intake", "search", "pool", "gpu", "decide"}
              /\ stage \in {"intake", "search", "pool", "gpu", "decide"}
           \/ UNCHANGED <<stage, decision>>
           \/ stage' = "idle"
    PROVE  Traces'
  <1>1. Submitted' = Submitted /\ Recorded' = Recorded /\ Single(registry')
    BY StoresKept
  <1>2. Untouched'
    BY <1>1 DEF AttemptInv, Traces, Untouched
  <1>3. Staged'
    BY <1>1 DEF AttemptInv, Traces, Staged
  <1> QED
    BY <1>1, <1>2, <1>3 DEF Traces

\* The step from Decide on writes what the decision says.
LEMMA SubmitView ==
    ASSUME AttemptInv, Submit
    PROVE  Submitted' = Submitted \cup {call} /\ Recorded' = Recorded
           /\ Single(registry') /\ call \in Calls
  <1>1. call \in Calls /\ best.name \in Names
        /\ stream \in Seq([call : Calls, name : Names])
    BY DEF Submit, AttemptInv, LeaderInv, InCall, CallTypeOK
  <1> DEFINE e == [call |-> call, name |-> best.name]
  <1>2. e \in [call : Calls, name : Names] /\ e.call = call
    BY <1>1
  <1>3. stream' = Append(stream, e) /\ registry' = registry
    BY DEF Submit
  <1> HIDE DEF e
  <1>4. CallsIn(stream') = CallsIn(stream) \cup {call}
    <2> DEFINE S == [call : Calls, name : Names]
    <2>1. stream \in Seq(S) /\ e \in S
      BY <1>1, <1>2
    <2> HIDE DEF S
    <2>2. CallsIn(Append(stream, e)) = CallsIn(stream) \cup {e.call}
      BY <2>1, CallsInAppend
    <2> QED
      BY <1>2, <1>3, <2>2
  <1> QED
    BY <1>1, <1>3, <1>4, Views, ViewsNext DEF AttemptInv, Traces

LEMMA RecordView ==
    ASSUME AttemptInv, Record
    PROVE  /\ Submitted' = Submitted
           /\ \/ Recorded' = Recorded
              \/ Recorded' = [Recorded EXCEPT ![call] = decision]
           /\ Recorded \in [Calls -> Decisions \cup {"none"}]
           /\ Recorded[call] = "none" /\ call \in Calls
           /\ decision \in Decisions /\ Single(registry')
  <1>1. call \in Calls
    BY DEF Record, AttemptInv, LeaderInv, InCall
  <1>2. decision \in Decisions /\ registry \in Seq(Entries)
    BY DEF AttemptInv, LeaderInv, CallTypeOK, Entries
  <1>3. Recorded[call] = "none"
    BY DEF Record, AttemptInv, Traces, Staged
  <1>4. Recorded \in [Calls -> Decisions \cup {"none"}]
    BY <1>2, Views, RecordOfType, Zenon DEF AttemptInv, Traces
  <1> DEFINE e == [call |-> call, decision |-> decision]
  <1>5. e \in Entries /\ e.call = call /\ e.decision = decision
    BY <1>1, <1>2 DEF Entries
  <1>6. (registry' = registry \/ registry' = Append(registry, e))
        /\ stream' = stream
    BY DEF Record
  <1> HIDE DEF e
  <1>7. CASE registry' = registry
    BY <1>1, <1>2, <1>3, <1>4, <1>6, <1>7, StoresKept
  <1>8. CASE registry' = Append(registry, e)
    <2>1. /\ Single(registry')
          /\ RecordOf(registry') = [RecordOf(registry) EXCEPT ![call] = decision]
      BY <1>2, <1>3, <1>5, <1>8, Views, RecordOfAppend, Zenon
      DEF AttemptInv, Traces
    <2> QED
      BY <1>1, <1>2, <1>3, <1>4, <1>6, <2>1, Views, ViewsNext, Zenon
  <1> QED
    BY <1>6, <1>7, <1>8

LEMMA StepTraces == AttemptInv /\ [CallNext]_callVars => Traces'
  <1> SUFFICES ASSUME AttemptInv, [CallNext]_callVars PROVE Traces'
    OBVIOUS
  <1>t. /\ call \in 0..MaxCalls /\ MaxCalls \in Nat
        /\ answers \in [Calls -> Decisions \cup {"none"}]
    BY Numbers DEF AttemptInv, LeaderInv, CallTypeOK
  <1>1. CASE Begin
    <2>1. Submitted' = Submitted /\ Recorded' = Recorded /\ Single(registry')
      BY <1>1, StoresKept DEF Begin
    <2>2. /\ call' \in Calls /\ call' > call
          /\ call' = call + 1 /\ stage' = "intake" /\ answers' = answers
      BY <1>t, <1>1 DEF Begin, Calls
    <2>3. /\ call' \notin Submitted /\ Recorded[call'] = "none"
          /\ answers[call'] = "none"
      BY <2>2 DEF AttemptInv, Traces, Untouched
    <2>4. Untouched'
      <3> SUFFICES ASSUME NEW c \in Calls, c > call'
                   PROVE  /\ c \notin Submitted' /\ Recorded'[c] = "none"
                          /\ answers'[c] = "none"
        BY DEF Untouched
      <3>1. c > call
        BY <1>t, <2>2 DEF Calls
      <3> QED
        BY <2>1, <2>2, <3>1 DEF AttemptInv, Traces, Untouched
    <2> QED
      BY <2>1, <2>2, <2>3, <2>4 DEF Traces, Staged
  <1>2. CASE Intake
    BY <1>2, QuietTraces DEF Intake
  <1>3. CASE RunOnce
    BY <1>3, QuietTraces DEF RunOnce
  <1>4. CASE RunPhase
    BY <1>4, QuietTraces DEF RunPhase
  <1>5. CASE RunPool
    BY <1>5, QuietTraces DEF RunPool
  <1>6. CASE TimePasses
    BY <1>6, QuietTraces DEF TimePasses
  <1>7. CASE LeavePhases
    BY <1>7, QuietTraces DEF LeavePhases
  <1>8. CASE EscalateToGpu
    BY <1>8, QuietTraces DEF EscalateToGpu
  <1>9. CASE Decide
    <2>1. Submitted' = Submitted /\ Recorded' = Recorded /\ Single(registry')
      BY <1>9, StoresKept DEF Decide
    <2>2. Untouched'
      BY <1>9, <2>1 DEF Decide, AttemptInv, Traces, Untouched
    <2>3. CASE IsCertified
      <3>1. stage' = "submit" /\ decision' = "certified"
        BY <1>9, <2>3 DEF Decide, Decided
      <3> QED
        BY <1>9, <2>1, <2>2, <3>1 DEF Decide, AttemptInv, Traces, Staged
    <2>4. CASE ~IsCertified
      <3>1. stage' = "record" /\ decision' # "certified"
        BY <1>9, <2>4 DEF Decide, Decided
      <3> QED
        BY <1>9, <2>1, <2>2, <3>1 DEF Decide, AttemptInv, Traces, Staged
    <2> QED
      BY <2>3, <2>4
  <1>10. CASE Submit
    <2>1. /\ Submitted' = Submitted \cup {call} /\ Recorded' = Recorded
          /\ Single(registry') /\ call \in Calls
      BY <1>10, SubmitView
    <2>2. /\ stage = "submit" /\ stage' = "record"
          /\ UNCHANGED <<call, decision, answers>>
      BY <1>10 DEF Submit, working
    <2>3. Untouched'
      BY <1>t, <2>1, <2>2 DEF AttemptInv, Traces, Untouched, Calls
    <2>4. Staged'
      BY <2>1, <2>2 DEF AttemptInv, Traces, Staged
    <2> QED
      BY <2>1, <2>3, <2>4 DEF Traces
  <1>11. CASE Record
    <2>1. /\ Submitted' = Submitted /\ Single(registry')
          /\ \/ Recorded' = Recorded
             \/ Recorded' = [Recorded EXCEPT ![call] = decision]
          /\ Recorded \in [Calls -> Decisions \cup {"none"}]
          /\ Recorded[call] = "none" /\ call \in Calls
      BY <1>11, RecordView, Zenon
    <2>2. /\ stage = "record" /\ stage' = "wrapup"
          /\ UNCHANGED <<call, decision, answers>>
      BY <1>11 DEF Record, working
    <2>3. Untouched'
      BY <1>t, <2>1, <2>2 DEF AttemptInv, Traces, Untouched, Calls
    <2>4. Recorded'[call] \in {"none", decision}
      BY <2>1
    <2>5. Staged'
      BY <2>1, <2>2, <2>4 DEF AttemptInv, Traces, Staged
    <2> QED
      BY <2>1, <2>3, <2>5 DEF Traces
  <1>12. ASSUME Return \/ Raise \/ Crash PROVE Traces'
    <2>1. /\ stage # "idle" /\ stage' = "idle"
          /\ UNCHANGED <<call, stream, registry>>
          /\ \A c \in Calls : c # call => answers'[c] = answers[c]
      BY <1>t, <1>12 DEF Return, Raise, Crash
    <2>2. Submitted' = Submitted /\ Recorded' = Recorded /\ Single(registry')
      BY <2>1, StoresKept
    <2>3. Untouched'
      BY <1>t, <2>1, <2>2 DEF AttemptInv, Traces, Untouched, Calls
    <2>4. Staged'
      BY <2>1 DEF Staged
    <2> QED
      BY <2>2, <2>3, <2>4 DEF Traces
  <1>13. CASE UNCHANGED callVars
    BY <1>13, QuietTraces DEF callVars, working
  <1> QED
    BY <1>1, <1>2, <1>3, <1>4, <1>5, <1>6, <1>7, <1>8, <1>9, <1>10, <1>11,
       <1>12, <1>13
    DEF CallNext

-----------------------------------------------------------------------------
(* The refinement *)

LEMMA InitImplements == CallInit => A!Init
  <1> SUFFICES ASSUME CallInit PROVE A!Init
    OBVIOUS
  <1>1. stream = <<>> /\ registry = <<>> /\ stage = "idle"
        /\ answers = [c \in Calls |-> "none"]
    BY DEF CallInit
  <1>2. Submitted = {}
    BY <1>1 DEF Submitted
  <1>3. Recorded = [c \in Calls |-> "none"]
    BY <1>1 DEF Recorded
  <1> QED
    BY <1>1, <1>2, <1>3 DEF A!Init, A!Calls, Calls

\* A step that leaves the stores, the answers and the call's being open alone.
LEMMA QuietImplements ==
    ASSUME AttemptInv, UNCHANGED <<call, stream, registry, answers>>,
           stage' = stage \/ (stage # "idle" /\ stage' # "idle")
    PROVE  UNCHANGED A!vars
  <1>1. Submitted' = Submitted /\ Recorded' = Recorded
    BY StoresKept
  <1> QED
    BY <1>1 DEF A!vars

LEMMA AgreesWhen ==
    ASSUME stage # "idle", decision = "certified" <=> call \in Submitted
    PROVE  A!Agrees(decision)
  <1>1. A!Agrees(decision)
          = ((decision = "certified")
               = ((IF stage = "idle" THEN 0 ELSE call) \in Submitted))
    BY DEF A!Agrees
  <1>2. (IF stage = "idle" THEN 0 ELSE call) = call
    OBVIOUS
  <1>3. (decision = "certified") = (call \in Submitted)
    OBVIOUS
  <1> QED
    BY <1>1, <1>2, <1>3, Zenon

LEMMA StepImplements == AttemptInv /\ [CallNext]_callVars => [A!Next]_A!vars
  <1> SUFFICES ASSUME AttemptInv, [CallNext]_callVars PROVE [A!Next]_A!vars
    OBVIOUS
  <1>t. /\ call \in 0..MaxCalls /\ MaxCalls \in Nat
        /\ answers \in [Calls -> Decisions \cup {"none"}]
        /\ stage # "idle" => call \in Calls
        /\ decision \in Decisions
    BY Numbers DEF AttemptInv, LeaderInv, CallTypeOK, InCall
  <1>1. CASE Begin
    <2>1. Submitted' = Submitted /\ Recorded' = Recorded
      BY <1>1, StoresKept DEF Begin
    <2>2. /\ call' \in Calls /\ call' > call /\ call' # 0
          /\ stage = "idle" /\ stage' = "intake" /\ answers' = answers
      BY <1>t, <1>1 DEF Begin, Calls
    <2>3. A!Fresh(call')
      BY <2>2 DEF AttemptInv, Traces, Untouched, A!Fresh
    <2>4. A!Begin
      BY <2>1, <2>2, <2>3 DEF A!Begin, A!Calls, Calls
    <2> QED
      BY <2>4 DEF A!Next
  <1>2. CASE Intake
    BY <1>2, QuietImplements DEF Intake
  <1>3. CASE RunOnce
    BY <1>3, QuietImplements DEF RunOnce
  <1>4. CASE RunPhase
    BY <1>4, QuietImplements DEF RunPhase
  <1>5. CASE RunPool
    BY <1>5, QuietImplements DEF RunPool
  <1>6. CASE TimePasses
    BY <1>6, QuietImplements DEF TimePasses
  <1>7. CASE LeavePhases
    BY <1>7, QuietImplements DEF LeavePhases
  <1>8. CASE EscalateToGpu
    BY <1>8, QuietImplements DEF EscalateToGpu
  <1>9. CASE Decide
    BY <1>9, QuietImplements DEF Decide
  <1>10. CASE Submit
    <2>1. Submitted' = Submitted \cup {call} /\ Recorded' = Recorded
      BY <1>10, SubmitView
    <2>2. /\ stage = "submit" /\ stage' = "record"
          /\ UNCHANGED <<call, answers>>
      BY <1>10 DEF Submit
    <2>3. call \in Calls /\ call # 0 /\ call \notin Submitted
          /\ Recorded[call] = "none"
      BY <1>t, <2>2 DEF AttemptInv, Traces, Staged, Calls
    <2>4. A!Submit
      BY <2>1, <2>2, <2>3 DEF A!Submit
    <2> QED
      BY <2>4 DEF A!Next
  <1>11. CASE Record
    <2>1. /\ Submitted' = Submitted
          /\ Recorded[call] = "none" /\ call \in Calls
          /\ \/ Recorded' = Recorded
             \/ Recorded' = [Recorded EXCEPT ![call] = decision]
      BY <1>11, RecordView, Zenon
    <2>2. /\ stage = "record" /\ stage' = "wrapup"
          /\ UNCHANGED <<call, answers>>
      BY <1>11 DEF Record
    <2>3. CASE Recorded' = Recorded
      BY <2>1, <2>2, <2>3 DEF A!vars
    <2>4. CASE Recorded' = [Recorded EXCEPT ![call] = decision]
      <3>1. decision = "certified" <=> call \in Submitted
        BY <2>2 DEF AttemptInv, Traces, Staged
      <3>2. call # 0 /\ decision \in A!Decisions
        BY <1>t, <2>1 DEF Calls, A!Decisions, Decisions
      <3>4. A!Agrees(decision)
        BY <2>2, <3>1, AgreesWhen
      <3>3. A!Record
        BY <2>1, <2>2, <2>4, <3>2, <3>4 DEF A!Record
      <3> QED
        BY <3>3 DEF A!Next
    <2> QED
      BY <2>1, <2>3, <2>4
  <1>12. ASSUME Return \/ Raise \/ Crash
         PROVE  /\ stage # "idle" /\ stage' = "idle" /\ call \in Calls
                /\ call # 0
                /\ Submitted' = Submitted /\ Recorded' = Recorded
    <2>1. /\ stage # "idle" /\ stage' = "idle"
          /\ UNCHANGED <<stream, registry>>
      BY <1>12 DEF Return, Raise, Crash
    <2> QED
      BY <1>t, <2>1, StoresKept DEF Calls
  <1>13. CASE Return
    <2>1. /\ stage = "wrapup" /\ answers' = [answers EXCEPT ![call] = decision]
      BY <1>13 DEF Return
    <2>2. /\ Recorded[call] \in {"none", decision}
          /\ decision = "certified" <=> call \in Submitted
      BY <2>1 DEF AttemptInv, Traces, Staged
    <2>3. decision \in A!Decisions
      BY <1>t DEF A!Decisions, Decisions
    <2>5. A!Agrees(decision)
      BY <1>12, <1>13, <2>2, AgreesWhen
    <2>4. A!Answer
      BY <1>12, <1>13, <2>1, <2>2, <2>3, <2>5 DEF A!Answer
    <2> QED
      BY <2>4 DEF A!Next
  <1>14. CASE Raise
    <2>1. answers' = [answers EXCEPT ![call] = "error"]
      BY <1>14 DEF Raise, Failed
    <2>2. "error" \in A!Decisions
      BY DEF A!Decisions
    <2>3. A!Answer
      BY <1>12, <1>14, <2>1, <2>2 DEF A!Answer
    <2> QED
      BY <2>3 DEF A!Next
  <1>15. CASE Crash
    <2>1. answers' = answers
      BY <1>15 DEF Crash
    <2>2. A!Crash
      BY <1>12, <1>15, <2>1 DEF A!Crash
    <2> QED
      BY <2>2 DEF A!Next
  <1>16. CASE UNCHANGED callVars
    BY <1>16, QuietImplements DEF callVars
  <1> QED
    BY <1>1, <1>2, <1>3, <1>4, <1>5, <1>6, <1>7, <1>8, <1>9, <1>10, <1>11,
       <1>13, <1>14, <1>15, <1>16
    DEF CallNext

\* For the caller and for the two stores every run of the calls is a run of
\* Attempt: one submission and one record at most, "certified" exactly of
\* what was submitted, and errors the only answers that contradict a record.
THEOREM CallsImplementAttempt == CallSpec => ImplementsAttempt
  <1>1. CallInit => AttemptInv
    BY InitLeader, InitTraces DEF AttemptInv
  <1>2. AttemptInv /\ [CallNext]_callVars => AttemptInv'
    BY StepLeader, StepTraces DEF AttemptInv
  <1> QED
    BY <1>1, <1>2, InitImplements, StepImplements, PTL
    DEF CallSpec, ImplementsAttempt, A!Spec

-----------------------------------------------------------------------------
(* The catalog engine *)

\* Among the successes, if there are any, one leads.
HasLeader == Successes # {} => \E i \in Successes : Leads(i)

\* What the engine knows is the first success of its score above 0, which a
\* success of this round may have beaten.
KnowsOne ==
    /\ known.id = 0 => known.score = 0
    /\ known.id # 0 =>
         /\ known.id \in Successes
         /\ known.score = evaluated[known.id].score
         /\ known.score > 0
         /\ \A j \in Successes :
              evaluated[j].score >= known.score => known.id <= j

\* Between rounds nothing has beaten it.
KnowsBest ==
    step # "evaluate" =>
      \A j \in Successes : evaluated[j].score <= known.score

\* The sealed rows are looked at in the last step and at the leader.
LooksLast ==
    /\ step # "done" => looked = <<>>
    /\ looked = <<>> \/ \E i \in Successes : Leads(i) /\ looked = <<i>>

\* A round that is under way is not one too many.
InRound == step = "evaluate" => round < MaxRounds

EngineInv ==
    EngineTypeOK /\ HasLeader /\ KnowsOne /\ KnowsBest /\ LooksLast /\ InRound

LEMMA EngineNumbers ==
    /\ MaxRounds \in Nat /\ MaxPerRound \in Nat \ {0}
    /\ \A s \in CycleScores \cup {0} : s \in Int
    /\ \A e \in Evaluations : e.score \in CycleScores \cup {0} /\ e.score \in Int
  <1>1. \A s \in CycleScores : s \in Int
    BY EngineAssumption DEF EngineAssumption
  <1>2. \A e \in Evaluations : e.score \in CycleScores \cup {0}
    BY DEF Evaluations
  <1> QED
    BY <1>1, <1>2, EngineAssumption DEF EngineAssumption

LEMMA ScoredEvaluations ==
    ASSUME EngineTypeOK
    PROVE  /\ Len(evaluated) \in Nat
           /\ \A i \in Ids : evaluated[i] \in Evaluations
                             /\ evaluated[i].score \in Int
           /\ Successes \subseteq Ids
  <1>1. evaluated \in Seq(Evaluations)
    BY DEF EngineTypeOK
  <1> QED
    BY <1>1, EngineNumbers DEF Ids, Successes

\* The leader is one, and CHOOSE finds it.
LEMMA WinnerLeads ==
    ASSUME EngineTypeOK, HasLeader, Successes # {}
    PROVE  /\ Winner \in Successes
           /\ Leads(Winner)
           /\ \A i \in Successes : Leads(i) => i = Winner
  <1>1. PICK i \in Successes : Leads(i)
    BY DEF HasLeader
  <1>2. Winner = CHOOSE j \in Successes : Leads(j)
    BY DEF Winner
  <1>3. Winner \in Successes /\ Leads(Winner)
    BY <1>1, <1>2
  <1>4. ASSUME NEW j \in Successes, Leads(j) PROVE j = Winner
    BY <1>3, <1>4, ScoredEvaluations DEF Leads, Ids
  <1> QED
    BY <1>3, <1>4

\* What the engine knows and nothing has beaten is the winner.
LEMMA KnownIsWinner ==
    ASSUME EngineTypeOK, HasLeader, KnowsOne, known.id # 0,
           \A j \in Successes : evaluated[j].score <= known.score
    PROVE  known.id = Winner
  <1>1. Leads(known.id)
    BY ScoredEvaluations, EngineNumbers DEF Leads, KnowsOne, EngineTypeOK, Ids
  <1> QED
    BY <1>1, WinnerLeads DEF KnowsOne

LEMMA InitEngine == EngineInit => EngineInv
  <1> SUFFICES ASSUME EngineInit PROVE EngineInv
    OBVIOUS
  <1>1. Successes = {}
    BY DEF EngineInit, Successes, Ids
  <1>2. EngineTypeOK
    <2>1. /\ 0 \in 0..MaxRounds /\ 0 \in 0..MaxPerRound
          /\ evaluated \in Seq(Evaluations) /\ looked \in Seq(Nat)
          /\ known \in [score : CycleScores \cup {0}, id : Nat]
      BY EngineNumbers DEF EngineInit
    <2> QED
      BY <2>1 DEF EngineInit, EngineTypeOK
  <1> QED
    BY <1>1, <1>2
    DEF EngineInit, EngineInv, HasLeader, KnowsOne, KnowsBest, LooksLast,
        InRound

\* An evaluation more keeps a leader: the old one, or the new one when it is
\* strictly better.
LEMMA EvaluateKeeps ==
    ASSUME EngineInv, Evaluate
    PROVE  /\ EngineTypeOK'
           /\ HasLeader'
           /\ KnowsOne'
           /\ InRound'
  <1>1. PICK e \in Evaluations : evaluated' = Append(evaluated, e)
    BY DEF Evaluate
  <1> DEFINE n == Len(evaluated) + 1
  <1>2. evaluated \in Seq(Evaluations) /\ Len(evaluated) \in Nat
    BY DEF EngineInv, EngineTypeOK
  <1>3. /\ evaluated' \in Seq(Evaluations)
        /\ Len(evaluated') = n
        /\ evaluated'[n] = e
        /\ \A i \in Ids : evaluated'[i] = evaluated[i]
    BY <1>1, <1>2 DEF Ids
  <1>4. EngineTypeOK'
    <2>1. left' \in 0..MaxPerRound
      BY EngineNumbers DEF EngineInv, EngineTypeOK, Evaluate
    <2> QED
      BY <1>3, <2>1 DEF EngineInv, EngineTypeOK, Evaluate
  <1>5. /\ Ids' = Ids \cup {n} /\ n \notin Ids
        /\ Successes' = Successes \cup (IF e.ok THEN {n} ELSE {})
        /\ \A i \in Ids : i < n
    BY <1>2, <1>3 DEF Ids, Successes
  <1>6. /\ \A i \in Ids' : i \in Nat /\ evaluated'[i].score \in Int
        /\ \A i \in Ids : evaluated[i].score \in Int
        /\ Successes \subseteq Ids /\ Successes' \subseteq Ids'
    BY <1>2, <1>3, EngineNumbers DEF Ids, Successes
  <1>7. HasLeader'
    <2> DEFINE Heads(i) ==
          /\ i \in Successes'
          /\ \A j \in Successes' :
               \/ evaluated'[j].score < evaluated'[i].score
               \/ evaluated'[j].score = evaluated'[i].score /\ i <= j
    <2>0. ASSUME NEW i \in Successes', Heads(i) PROVE HasLeader'
      BY <2>0 DEF HasLeader, Leads
    <2> n \in Int /\ e.score \in Int
      BY <1>2, EngineNumbers
    <2> HIDE DEF n
    <2>1. CASE Successes = {}
      <3>1. Successes' # {} => n \in Successes' /\ Heads(n)
        BY <1>5, <1>6, <2>1
      <3> QED
        BY <3>1, <2>0 DEF HasLeader
    <2>2. CASE Successes # {}
      <3>1. PICK i \in Successes : Leads(i)
        BY <2>2 DEF EngineInv, HasLeader
      <3>2. CASE e.ok /\ e.score > evaluated[i].score
        <4>1. n \in Successes' /\ Heads(n)
          BY <1>3, <1>5, <1>6, <3>1, <3>2 DEF Leads
        <4> QED
          BY <4>1, <2>0
      <3>3. CASE ~(e.ok /\ e.score > evaluated[i].score)
        <4>1. i \in Successes' /\ Heads(i)
          BY <1>3, <1>5, <1>6, <3>1, <3>3 DEF Leads
        <4> QED
          BY <4>1, <2>0
      <3> QED
        BY <3>2, <3>3
    <2> QED
      BY <2>1, <2>2
  <1>8. KnowsOne'
    <2>1. known' = known
      BY DEF Evaluate
    <2>2. known.id # 0 => known.id \in Successes
      BY DEF EngineInv, KnowsOne
    <2> QED
      BY <1>3, <1>5, <1>6, <2>1, <2>2 DEF EngineInv, KnowsOne
  <1> QED
    BY <1>4, <1>7, <1>8 DEF EngineInv, InRound, Evaluate

\* _update_state leaves the engine with the winner, or with nothing when
\* nothing is above 0.
LEMMA EndRoundKnows ==
    ASSUME EngineInv, EndRound
    PROVE  EngineTypeOK' /\ KnowsOne' /\ KnowsBest' /\ InRound'
  <1>0. /\ evaluated' = evaluated /\ known' = Updated
        /\ Successes' = Successes
        /\ known.score \in Int /\ known.score \in CycleScores \cup {0}
        /\ known.id \in Nat
    BY EngineNumbers
    DEF EndRound, Successes, Ids, EngineInv, EngineTypeOK
  <1>1. known.score >= 0
    BY <1>0 DEF EngineInv, KnowsOne
  <1>t. /\ round' \in 0..MaxRounds /\ left' \in 0..MaxPerRound
        /\ step' \in {"head", "certify"}
        /\ target' \in Targets /\ timeUp' \in BOOLEAN /\ looked' \in Seq(Nat)
        /\ evaluated' \in Seq(Evaluations)
    BY EngineNumbers DEF EndRound, EngineInv, EngineTypeOK, InRound
  <1>2. CASE \E i \in Successes : evaluated[i].score > known.score
    <2>1. PICK i \in Successes : evaluated[i].score > known.score
      BY <1>2
    <2>2. /\ Winner \in Successes /\ Leads(Winner)
      BY <2>1, WinnerLeads DEF EngineInv
    <2>3. known' = [score |-> evaluated[Winner].score, id |-> Winner]
      BY <1>0, <1>2 DEF Updated
    <2>4. evaluated[Winner].score >= evaluated[i].score
      BY <2>1, <2>2, ScoredEvaluations DEF EngineInv, Leads
    <2>5. evaluated[Winner].score > 0
      BY <1>0, <1>1, <2>1, <2>2, <2>4, ScoredEvaluations DEF EngineInv
    <2>6. /\ Winner \in Nat /\ Winner # 0
          /\ evaluated[Winner].score \in CycleScores \cup {0}
      BY <2>2, ScoredEvaluations, EngineNumbers DEF EngineInv, Ids
    <2>7. KnowsOne' /\ KnowsBest'
      BY <1>0, <2>2, <2>3, <2>5, <2>6, ScoredEvaluations
      DEF EngineInv, KnowsOne, KnowsBest, Leads, Ids
    <2> QED
      BY <1>t, <2>3, <2>6, <2>7 DEF EngineTypeOK, InRound
  <1>3. CASE ~\E i \in Successes : evaluated[i].score > known.score
    <2>1. known' = known
      BY <1>0, <1>3 DEF Updated
    <2>2. KnowsOne'
      BY <1>0, <2>1 DEF EngineInv, KnowsOne
    <2>3. KnowsBest'
      BY <1>0, <1>3, <2>1, ScoredEvaluations DEF EngineInv, KnowsBest
    <2> QED
      BY <1>t, <2>1, <2>2, <2>3 DEF EngineInv, EngineTypeOK, InRound
  <1> QED
    BY <1>2, <1>3

LEMMA StepEngine == EngineInv /\ [EngineNext]_engineVars => EngineInv'
  <1> SUFFICES ASSUME EngineInv, [EngineNext]_engineVars PROVE EngineInv'
    OBVIOUS
  <1>0. EngineTypeOK /\ HasLeader /\ KnowsOne /\ KnowsBest /\ LooksLast
        /\ InRound
    BY DEF EngineInv
  <1>a. ASSUME UNCHANGED <<evaluated, known, looked>>,
               step' # "evaluate" => step # "evaluate",
               step # "done"
        PROVE  HasLeader' /\ KnowsOne' /\ KnowsBest' /\ LooksLast'
    <2>1. Successes' = Successes /\ \A i : Leads(i)' <=> Leads(i)
      BY <1>a DEF Successes, Ids, Leads
    <2> QED
      BY <1>0, <1>a, <2>1 DEF HasLeader, KnowsOne, KnowsBest, LooksLast
  <1>1. CASE StartRound
    BY <1>0, <1>1, <1>a DEF StartRound, EngineInv, EngineTypeOK, InRound
  <1>2. CASE LeaveRounds
    BY <1>0, <1>2, <1>a DEF LeaveRounds, EngineInv, EngineTypeOK, InRound
  <1>3. CASE Evaluate
    <2>1. KnowsBest' /\ LooksLast'
      BY <1>0, <1>3 DEF Evaluate, KnowsBest, LooksLast
    <2> QED
      BY <1>3, <2>1, EvaluateKeeps DEF EngineInv
  <1>4. CASE EndRound
    <2>1. Successes' = Successes /\ \A i : Leads(i)' <=> Leads(i)
      BY <1>4 DEF EndRound, Successes, Ids, Leads
    <2>2. HasLeader' /\ LooksLast'
      BY <1>0, <1>4, <2>1 DEF EndRound, HasLeader, LooksLast
    <2> QED
      BY <1>4, <2>2, EndRoundKnows DEF EngineInv
  <1>5. CASE DeadlinePasses
    BY <1>0, <1>5, <1>a DEF DeadlinePasses, EngineInv, EngineTypeOK,
                             InRound
  <1>6. CASE Certify
    <2>1. Successes' = Successes /\ \A i : Leads(i)' <=> Leads(i)
      BY <1>6 DEF Certify, Successes, Ids, Leads
    <2>2. looked = <<>>
      BY <1>0, <1>6 DEF Certify, LooksLast
    <2>3. HasLeader' /\ KnowsOne' /\ KnowsBest'
      BY <1>0, <1>6, <2>1 DEF Certify, HasLeader, KnowsOne, KnowsBest
    <2>4. CASE looked' = looked
      BY <1>0, <1>6, <2>2, <2>3, <2>4
      DEF Certify, EngineInv, EngineTypeOK, LooksLast, InRound
    <2>5. CASE Winner # 0 /\ looked' = Append(looked, Winner)
      <3>1. Successes # {}
        BY <2>5 DEF Winner
      <3>2. Winner \in Successes /\ Leads(Winner) /\ Winner \in Nat
        BY <1>0, <3>1, WinnerLeads, ScoredEvaluations DEF Ids
      <3>3. looked' = <<Winner>>
        BY <2>2, <2>5
      <3>4. LooksLast'
        BY <1>6, <2>1, <3>2, <3>3 DEF LooksLast, Certify
      <3> QED
        BY <1>0, <1>6, <2>3, <3>2, <3>3, <3>4
        DEF Certify, EngineInv, EngineTypeOK, InRound
    <2> QED
      BY <1>6, <2>4, <2>5 DEF Certify, Candidate
  <1>7. CASE UNCHANGED engineVars
    <2>1. Successes' = Successes /\ \A i : Leads(i)' <=> Leads(i)
      BY <1>7 DEF engineVars, Successes, Ids, Leads
    <2> QED
      BY <1>0, <1>7, <2>1
      DEF engineVars, EngineInv, EngineTypeOK, HasLeader, KnowsOne, KnowsBest,
          LooksLast, InRound
  <1> QED
    BY <1>1, <1>2, <1>3, <1>4, <1>5, <1>6, <1>7 DEF EngineNext

LEMMA EngineInductive == EngineSpec => []EngineInv
  BY InitEngine, StepEngine, PTL DEF EngineSpec

\* However the rounds of the catalog engine end, it certifies what it has
\* reported as its best, and looks at the sealed rows once, last.
THEOREM CertifiedIsReported == EngineSpec => []ReportsTheCertified
  <1>1. EngineInv => ReportsTheCertified
    <2> SUFFICES ASSUME EngineInv PROVE ReportsTheCertified
      OBVIOUS
    <2>0. EngineTypeOK /\ HasLeader /\ KnowsOne /\ KnowsBest /\ LooksLast
      BY DEF EngineInv
    <2>1. ASSUME step \in {"head", "certify", "done"}
          PROVE  IF known.id = 0
                 THEN \A i \in Successes : evaluated[i].score <= 0
                 ELSE /\ known.id = Winner
                      /\ known.score = evaluated[Winner].score
                      /\ known.score > 0
      BY <2>0, <2>1, KnownIsWinner DEF KnowsOne, KnowsBest
    <2>2. /\ Len(looked) <= 1
          /\ \A k \in 1..Len(looked) : step = "done" /\ Leads(looked[k])
      BY <2>0 DEF LooksLast
    <2> QED
      BY <2>1, <2>2 DEF ReportsTheCertified
  <1> QED
    BY <1>1, EngineInductive, PTL

-----------------------------------------------------------------------------
(* The generative engine *)

\* The solutions of a sequence that ran, the best of them in the order of the
\* tree, and what is true of every tree: the best is one.
SoundIn(s) == {i \in 1..Len(s) : s[i].ok}

BestIn(s, i) ==
    /\ i \in SoundIn(s)
    /\ \A j \in SoundIn(s) \ {i} :
         \/ s[i].score > s[j].score
         \/ s[i].score = s[j].score /\ i < j

HasBest(s) == s \in Seq(Solutions) /\ (SoundIn(s) # {} => \E i : BestIn(s, i))

NotWorse(s, t) ==
    SoundIn(s) # {} =>
      /\ SoundIn(t) # {}
      /\ \A i, j : BestIn(s, i) /\ BestIn(t, j) => t[j].score >= s[i].score

LEMMA SolutionScores == \A e \in Solutions : e.score \in Int
  <1>1. \A e \in Solutions : e.score \in TreeScores \cup {0}
    BY DEF Solutions
  <1>2. \A v \in TreeScores : v \in Int
    BY TreeAssumption DEF TreeAssumption
  <1> QED
    BY <1>1, <1>2

\* A solution more keeps a best, and one no worse.
LEMMA GrowthIsNotWorse ==
    ASSUME NEW s, HasBest(s), NEW e \in Solutions
    PROVE  HasBest(Append(s, e)) /\ NotWorse(s, Append(s, e))
  <1> DEFINE t == Append(s, e)
             n == Len(s) + 1
  <1>1. s \in Seq(Solutions) /\ Len(s) \in Nat
    BY DEF HasBest
  <1>2. /\ t \in Seq(Solutions) /\ Len(t) = n /\ t[n] = e
        /\ \A i \in 1..Len(s) : t[i] = s[i]
    BY <1>1
  <1>3. SoundIn(t) = SoundIn(s) \cup (IF e.ok THEN {n} ELSE {})
    BY <1>1, <1>2 DEF SoundIn
  <1>4. /\ \A i \in SoundIn(s) :
             /\ i \in Int /\ i < n /\ s[i].score \in Int
             /\ t[i].score = s[i].score
        /\ t[n].score \in Int /\ n \in Int
    BY <1>1, <1>2, SolutionScores DEF SoundIn
  <1>5. e.ok => n \in SoundIn(t)
    BY <1>3
  <1> HIDE DEF t, n
  <1>6. CASE SoundIn(s) = {}
    <2>1. SoundIn(t) # {} => BestIn(t, n)
      BY <1>3, <1>6 DEF BestIn
    <2> QED
      BY <1>2, <1>6, <2>1 DEF HasBest, NotWorse, t
  <1>7. CASE SoundIn(s) # {}
    <2>1. PICK i : BestIn(s, i)
      BY <1>7 DEF HasBest
    <2>2. \A k : BestIn(s, k) => k = i
      BY <1>4, <2>1 DEF BestIn
    <2>3. CASE e.ok /\ e.score > s[i].score
      <3>1. BestIn(t, n)
        BY <1>2, <1>3, <1>4, <2>1, <2>3 DEF BestIn
      <3>2. \A k : BestIn(t, k) => k = n
        BY <1>2, <1>3, <1>4, <2>1, <2>3 DEF BestIn
      <3>3. t[n].score >= s[i].score
        BY <1>2, <1>4, <2>1, <2>3 DEF BestIn
      <3> QED
        BY <1>2, <2>2, <3>1, <3>2, <3>3 DEF HasBest, NotWorse, BestIn, t
    <2>4. CASE ~(e.ok /\ e.score > s[i].score)
      <3>1. BestIn(t, i)
        BY <1>2, <1>3, <1>4, <2>1, <2>4 DEF BestIn
      <3>2. \A k : BestIn(t, k) => k = i
        BY <1>2, <1>3, <1>4, <3>1 DEF BestIn
      <3>3. t[i].score >= s[i].score
        BY <1>4, <2>1 DEF BestIn
      <3> QED
        BY <1>2, <2>2, <3>1, <3>2, <3>3 DEF HasBest, NotWorse, BestIn, t
    <2> QED
      BY <2>3, <2>4
  <1> QED
    BY <1>6, <1>7 DEF t

\* Two solutions more do not make it worse either.
LEMMA NotWorseTwice ==
    ASSUME NEW s, NEW t, NEW u, HasBest(s), HasBest(t), HasBest(u),
           NotWorse(s, t), NotWorse(t, u)
    PROVE  NotWorse(s, u)
  <1> SUFFICES ASSUME SoundIn(s) # {}
               PROVE  /\ SoundIn(u) # {}
                      /\ \A i, j : BestIn(s, i) /\ BestIn(u, j)
                                     => u[j].score >= s[i].score
    BY DEF NotWorse
  <1>1. SoundIn(t) # {} /\ SoundIn(u) # {}
    BY DEF NotWorse
  <1>2. PICK k : BestIn(t, k)
    BY <1>1 DEF HasBest
  <1>3. ASSUME NEW i, NEW j, BestIn(s, i), BestIn(u, j)
        PROVE  u[j].score >= s[i].score
    <2>1. t[k].score >= s[i].score /\ u[j].score >= t[k].score
      BY <1>1, <1>2, <1>3 DEF NotWorse
    <2>2. s[i].score \in Int /\ t[k].score \in Int /\ u[j].score \in Int
      BY <1>2, <1>3, SolutionScores DEF HasBest, BestIn, SoundIn
    <2> QED
      BY <2>1, <2>2
  <1> QED
    BY <1>1, <1>3

\* The sealed rows are scored in the last step.
TreeInv == HasBest(tree) /\ (gstep # "certified" => sealed = <<>>)

LEMMA FirstIsBest ==
    ASSUME HasBest(tree), Sound # {}
    PROVE  BestIn(tree, First(Sound))
  <1>1. Sound = SoundIn(tree)
    BY DEF Sound, SoundIn, Nodes
  <1>2. PICK i \in Sound : \A j \in Sound \ {i} : Before(i, j)
    BY <1>1 DEF HasBest, BestIn, Before
  <1>3. First(Sound) \in Sound /\ \A j \in Sound \ {First(Sound)} :
                                    Before(First(Sound), j)
    BY <1>2 DEF First
  <1> QED
    BY <1>1, <1>3 DEF BestIn, Before

\* What a step may do to the tree keeps a best, and one no worse.
LEMMA StepTree ==
    ASSUME HasBest(tree), [TreeNext]_treeVars
    PROVE  HasBest(tree') /\ NotWorse(tree, tree')
  <1>1. \A s : HasBest(s) => NotWorse(s, s)
    <2> SUFFICES ASSUME NEW s, HasBest(s), SoundIn(s) # {},
                        NEW i, NEW j, BestIn(s, i), BestIn(s, j)
                 PROVE  s[j].score >= s[i].score
      BY DEF NotWorse
    <2>1. s[i].score \in Int /\ s[j].score \in Int
      BY SolutionScores DEF HasBest, BestIn, SoundIn
    <2> QED
      BY <2>1 DEF BestIn
  <1>2. ASSUME Ask PROVE HasBest(tree') /\ NotWorse(tree, tree')
    BY <1>1, <1>2, GrowthIsNotWorse DEF Ask, Grown
  <1>3. ASSUME NEW next, Seed(next)
        PROVE  HasBest(tree') /\ NotWorse(tree, tree')
    <2>1. PICK s \in Solutions, t \in Solutions :
            tree' \in {Append(tree, s), Append(Append(tree, s), t)}
      BY <1>3 DEF Seed
    <2>2. /\ HasBest(Append(tree, s))
          /\ NotWorse(tree, Append(tree, s))
          /\ HasBest(Append(Append(tree, s), t))
          /\ NotWorse(Append(tree, s), Append(Append(tree, s), t))
      BY GrowthIsNotWorse
    <2>3. NotWorse(tree, Append(Append(tree, s), t))
      BY <2>2, NotWorseTwice
    <2> QED
      BY <2>1, <2>2, <2>3
  <1>4. ASSUME tree' = tree PROVE HasBest(tree') /\ NotWorse(tree, tree')
    BY <1>1, <1>4
  <1> QED
    BY <1>2, <1>3, <1>4
    DEF TreeNext, treeVars, FirstSeeds, MoreSeeds, BeginTurn, LeaveTurns,
        FromLiterature, Improve, Branch, Merge, TimeRunsOut, CertifyBest

LEMMA InitTree == TreeInit => TreeInv
  BY DEF TreeInit, TreeInv, HasBest, SoundIn

LEMMA StepTreeInv == TreeInv /\ [TreeNext]_treeVars => TreeInv'
  <1> SUFFICES ASSUME TreeInv, [TreeNext]_treeVars PROVE TreeInv'
    OBVIOUS
  <1>1. gstep' # "certified" => sealed' = <<>>
    BY DEF TreeInv, TreeNext, treeVars, FirstSeeds, MoreSeeds, BeginTurn,
           LeaveTurns, FromLiterature, Improve, Branch, Merge, TimeRunsOut,
           CertifyBest, Seed
  <1> QED
    BY <1>1, StepTree DEF TreeInv

LEMMA TreeInductive == TreeSpec => []TreeInv
  BY InitTree, StepTreeInv, PTL DEF TreeSpec

\* The best solution of the generative engine's tree never gets worse, and
\* the sealed rows are asked about the best there is.
THEOREM BestStays == TreeSpec => BestNeverDrops
  <1> DEFINE Drops == /\ Sound # {} => Sound' # {} /\ Peak' >= Peak
                      /\ sealed' # sealed => tree'[sealed'[1]].score = Peak
  <1>1. TreeInv /\ TreeInv' /\ [TreeNext]_treeVars => [Drops]_treeVars
    <2> SUFFICES ASSUME TreeInv, TreeInv', [TreeNext]_treeVars PROVE Drops
      OBVIOUS
    <2>1. Sound = SoundIn(tree) /\ Sound' = SoundIn(tree')
      BY DEF Sound, SoundIn, Nodes
    <2>2. ASSUME Sound # {} PROVE Sound' # {} /\ Peak' >= Peak
      <3>1. BestIn(tree, First(Sound))
        BY <2>2, FirstIsBest DEF TreeInv
      <3>2. Sound' # {}
        BY <2>1, <2>2, StepTree DEF TreeInv, NotWorse
      <3>3. TreeInv /\ Sound # {} => BestIn(tree, First(Sound))
        BY FirstIsBest DEF TreeInv
      <3>4. (TreeInv /\ Sound # {} => BestIn(tree, First(Sound)))'
        BY FirstIsBest, PTL DEF TreeInv
      <3>5. BestIn(tree, First(Sound))'
        BY <3>2, <3>4
      <3> QED
        BY <2>1, <2>2, <3>1, <3>2, <3>5, StepTree DEF TreeInv, NotWorse, Peak
    <2>3. ASSUME sealed' # sealed PROVE tree'[sealed'[1]].score = Peak
      <3>1. CertifyBest
        BY <2>3 DEF TreeNext, treeVars, FirstSeeds, MoreSeeds, BeginTurn,
                    LeaveTurns, FromLiterature, Improve, Branch, Merge,
                    TimeRunsOut
      <3> QED
        BY <2>3, <3>1 DEF CertifyBest, TreeInv, Peak
    <2> QED
      BY <2>2, <2>3
  <1> QED
    BY <1>1, TreeInductive, PTL DEF TreeSpec, BestNeverDrops

-----------------------------------------------------------------------------
(* Attestra's control as a whole *)

\* A step of the whole is one of a part, which leaves the others as they were.
LEMMA EachPart == PartSpec => LoopSpec /\ CallSpec /\ EngineSpec /\ TreeSpec
  <1>1. PartInit => LoopInit /\ CallInit /\ EngineInit /\ TreeInit
    BY DEF PartInit
  <1>2. [PartNext]_<<part, loopVars, callVars, engineVars, treeVars>> =>
          /\ [LoopNext]_loopVars /\ [CallNext]_callVars
          /\ [EngineNext]_engineVars /\ [TreeNext]_treeVars
    BY DEF PartNext
  <1> QED
    BY <1>1, <1>2, PTL DEF PartSpec, LoopSpec, CallSpec, EngineSpec, TreeSpec

\* Every variable of the loop, the calls and the catalog engine keeps its
\* type, for any attempts, calls, phases, rounds and scores.
THEOREM AttestraTypeCorrect == PartSpec => []AttestraTypeOK
  <1>1. LoopTypeOK /\ CallTypeOK /\ EngineTypeOK => AttestraTypeOK
    BY DEF AttestraTypeOK
  <1>2. EngineInv => EngineTypeOK
    BY DEF EngineInv
  <1> QED
    BY <1>1, <1>2, EachPart, LoopTypeCorrect, CallTypeCorrect,
       EngineInductive, PTL

\* What is promised of the parts holds of the whole.
THEOREM AttestraPromises ==
    PartSpec => /\ [](/\ StopsWhenStuck /\ OverdrawIsOneOverrun
                      /\ CertificateOfTheLeader /\ ReportsTheCertified)
                /\ ImplementsAttempt /\ BestNeverDrops
  BY EachPart, LoopStops, OverdrawBounded, LeaderCertified,
     CertifiedIsReported, CallsImplementAttempt, BestStays, PTL
=============================================================================
