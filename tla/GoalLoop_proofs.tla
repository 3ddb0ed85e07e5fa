-------------------------- MODULE GoalLoop_proofs --------------------------
(***************************************************************************)
(* The promises of one goal run, for every catalogue of moves, every set   *)
(* of models training can produce and every budget.                        *)
(***************************************************************************)
EXTENDS GoalLoop, FiniteSetTheorems, TLAPS

\* Only a batch that is not used up has a move in flight.
MoveInFlight == phase \in {"cleared", "measure"} => batch # <<>>

\* Types, together with what the sums and differences of a step rest on.
TypeInv == TypeOK /\ BilledCallsCleared /\ MoveInFlight

\* A run has a decision exactly when it is over.
DecidedAtEnd == decision = "none" <=> phase # "done"

\* At most one look at the sealed test, and nothing but the verdict after it.
OneLook ==
    /\ peeks \in {0, 1}
    /\ peeks = 1 => phase \in {"verdict", "report", "done"}
    /\ phase \in {"verdict", "report"} => peeks = 1 /\ sealedLB # NoBound
    /\ sealedLB # NoBound => peeks = 1

\* Beyond intake the data passed its audit.
Audited == phase \notin {"intake", "audit", "done"} \/ peeks = 1 => data = "clean"

\* Beyond the gate there is a model, and its validation bound is no obstacle.
Chosen ==
    phase \in {"certify", "rerun", "peek", "verdict", "report"} \/ peeks = 1 =>
        winner # NoModel /\ ~FailsValGate

\* A cancel that came in time keeps the run in the search.
CancelHeld ==
    /\ cancelled <=> cancelAt # "never"
    /\ cancelAt \in {"search", "audit"} => phase \in SearchPhases \union {"done"}
    /\ cancelAt = "search" => phase # "audit"
    /\ CancelNeverPeeks

\* Only a verdict that certifies serves a model, and before it none is served.
ServedLast == served => phase \in {"report", "done"}

Inv ==
    /\ TypeInv
    /\ DecidedAtEnd
    /\ OneLook
    /\ Audited
    /\ Chosen
    /\ CancelHeld
    /\ ServedLast
    /\ CertificateSound

-----------------------------------------------------------------------------
\* A model's validation bound is a bound, or missing.
LEMMA BoundType ==
    ASSUME NEW m \in Candidates \union {NoModel}
    PROVE  m.lb \in Bounds \union {NoBound}
<1>1. CASE m \in Candidates
  BY <1>1, GoalLoopAssumption DEF Models
<1>2. CASE m = NoModel
  BY <1>2 DEF NoModel
<1> QED BY <1>1, <1>2

\* No model is no candidate.
LEMMA NoModelIsNone == NoModel \notin Candidates
BY GoalLoopAssumption DEF Models, NoModel, Places

\* A batch is a sequence of moves.
LEMMA BatchIsSequence ==
    ASSUME NEW P \in SUBSET Moves, nruns \in Nat, nruns < Budget,
           NEW b \in Batches(P)
    PROVE  b \in Seq(AllMoves)
<1> DEFINE Fams == {Family[m] : m \in P}
           f == [m \in P |-> Family[m]]
<1>1. IsFiniteSet(P)
  BY FS_Subset, GoalLoopAssumption
<1>2. f \in Surjection(P, Fams)
  BY DEF Surjection
<1>3. Cardinality(Fams) \in Nat
  BY <1>1, <1>2, FS_Surjection, FS_CardinalityType
<1>4. BatchSize(P) \in Nat
  BY <1>3, GoalLoopAssumption DEF BatchSize
<1>5. b \in [1..BatchSize(P) -> AllMoves]
  BY DEF Batches, AllMoves
<1> QED BY <1>4, <1>5

\* Types are kept by every step of the loop and of its surroundings.
LEMMA TypeStep == TypeInv /\ [Next]_vars => TypeInv'
<1> SUFFICES ASSUME TypeInv, [Next]_vars PROVE TypeInv'
  OBVIOUS
<1>a. /\ MoveCosts \subseteq Nat
      /\ \A m \in AllMoves : Size[m] \in Nat
  BY GoalLoopAssumption
<1> USE DEF TypeInv, TypeOK, MoveInFlight, BilledCallsCleared, GrantedCredit,
        Phases, SearchPhases, Decisions, request, surround, search, money,
        result, Finish
<1>0. /\ acquire \in Nat /\ rnd \in Nat /\ nruns \in Nat /\ stagnant \in Nat
      /\ cost \in Nat /\ spend \in Nat /\ credit \in Nat /\ peeks \in Nat
  OBVIOUS
<1>1. CASE Cancel
  BY <1>1 DEF Cancel, Running
<1>2. CASE Tick
  BY <1>2 DEF Tick, Running
<1>3. ASSUME NEW d \in {"unsupported", "blocked", "raised"}, AuditEnds(d)
      PROVE  TypeInv'
  BY <1>3 DEF AuditEnds
<1>4. CASE AuditAccepts
  BY <1>4 DEF AuditAccepts, AllMoves
<1>24. CASE CheckIntake
  BY <1>24 DEF CheckIntake
<1>5. CASE ClearMove
  <2>1. UNCHANGED <<request, surround, search, cost, spend, result>>
    BY <1>5 DEF ClearMove
  <2>2. \/ phase' = "done" /\ decision' \in Decisions /\ credit' = credit
        \/ phase' = "cleared" /\ decision' = decision
           /\ credit' = credit + (IF paid THEN 1 ELSE 0)
    BY <1>5 DEF ClearMove
  <2>3. phase = "exec" /\ batch # <<>>
    BY <1>5 DEF ClearMove, BatchOver
  <2> QED BY <2>1, <2>2, <2>3
<1>21. CASE StartMove
  <2>1. /\ phase = "cleared" /\ UNCHANGED <<request, surround, search, money, result>>
        /\ \/ phase' = "done" /\ decision' = "cancelled"
           \/ phase' = "measure" /\ decision' = decision
    BY <1>21 DEF StartMove
  <2>2. credit = 0 \/ (paid /\ credit = 1)
    OBVIOUS
  <2> QED BY <2>1, <2>2
<1>6. ASSUME NEW best \in Candidates \union {NoModel},
             NEW c \in MoveCosts \union {0}, FinishMove(best, c)
      PROVE  TypeInv'
  <2>1. batch # <<>> /\ batch \in Seq(AllMoves)
    BY <1>6 DEF FinishMove
  <2>2. Head(batch) \in AllMoves /\ Tail(batch) \in Seq(AllMoves)
    BY <2>1
  <2>3. nruns' \in Nat /\ cost' \in Nat /\ spend' \in Nat
    <3>1. c \in Nat /\ Size[Head(batch)] \in Nat
      BY ONLY <1>a, <2>2, <1>6
    <3>2. /\ nruns' = nruns + Size[Head(batch)]
          /\ cost' = cost + c
          /\ spend' = IF paid THEN spend + c ELSE spend
      BY <1>6 DEF FinishMove
    <3>3. nruns + Size[Head(batch)] \in Nat /\ cost + c \in Nat /\ spend + c \in Nat
      BY ONLY <1>0, <3>1
    <3> QED BY <1>0, <3>2, <3>3
  <2>4. winner' \in Candidates \union {NoModel}
    BY <1>6 DEF FinishMove, Better
  <2>5. credit' = 0 /\ phase' = "exec"
    BY <1>6 DEF FinishMove
  <2>6. used' \subseteq AllMoves /\ batch' \in Seq(AllMoves)
    BY <1>6, <2>2 DEF FinishMove
  <2>7. UNCHANGED <<request, surround, data, acquire, rnd, floor, stagnant,
                    authored, result, decision>>
    BY <1>6 DEF FinishMove
  <2> QED BY <2>3, <2>4, <2>5, <2>6, <2>7
<1>7. CASE MoveRaises
  BY <1>7 DEF MoveRaises
<1>8. ASSUME NEW best \in Candidates \union {NoModel},
             NEW n \in 0..MaxAuthored, FinishAnchor(best, n)
      PROVE  TypeInv'
  <2>1. winner' \in Candidates \union {NoModel}
    BY <1>8 DEF FinishAnchor, Better
  <2>2. nruns' \in Nat
    BY <1>0, <1>8, GoalLoopAssumption DEF FinishAnchor
  <2> QED BY <1>8, <2>1, <2>2 DEF FinishAnchor
<1>9. CASE LeaveLoop
  BY <1>9 DEF LeaveLoop
<1>10. CASE ProposeRound
  <2>1. batch' \in Seq(AllMoves)
    <3>1. PICK P \in Proposals \ {{}} : batch' \in Batches(P)
      BY <1>10 DEF ProposeRound
    <3>2. P \in SUBSET Moves
      BY DEF Proposals, Untried
    <3> QED
      BY <1>10, <3>1, <3>2, BatchIsSequence DEF ProposeRound, LoopGoesOn
  <2>2. floor' \in Bounds \union {NoBound}
    <3>1. floor' = winner.lb
      BY <1>10 DEF ProposeRound
    <3> QED BY <3>1, BoundType
  <2> QED BY <1>10, <2>1, <2>2 DEF ProposeRound
<1>11. CASE StopExhausted
  BY <1>11 DEF StopExhausted, Exhausted
<1>12. CASE AcquireAndRerun
  <2>1. acquire' \in Nat
    <3>1. acquire > 0 /\ acquire' = acquire - 1
      BY <1>12 DEF AcquireAndRerun, AcquireLeft
    <3> QED BY <1>0, <3>1
  <2>2. /\ phase' = "intake" /\ data' = "unaudited" /\ batch' = <<>>
        /\ used' = {} /\ winner' = NoModel /\ floor' = NoBound
        /\ rnd' = 0 /\ nruns' = 0 /\ stagnant' = 0 /\ cost' = 0
        /\ authored' = FALSE
        /\ clock' = IF clock = "untimed" THEN clock ELSE "within"
        /\ UNCHANGED <<request, cancelled, cancelAt, spend, credit, result,
                       decision>>
    BY <1>12 DEF AcquireAndRerun
  <2>3. phase = "round"
    BY <1>12 DEF AcquireAndRerun, Exhausted
  <2>4. BilledCallsCleared' /\ MoveInFlight'
    BY <2>2, <2>3
  <2>5. clock' \in {"untimed", "within", "spent", "capped"}
    BY <2>2
  <2>6. /\ winner' \in Candidates \union {NoModel}
        /\ floor' \in Bounds \union {NoBound}
        /\ batch' \in Seq(AllMoves)
    BY <2>2
  <2>7. {acquire', rnd', nruns', stagnant', cost', spend', credit', peeks'}
            \subseteq Nat
    BY <1>0, <2>1, <2>2
  <2> QED BY <2>2, <2>4, <2>5, <2>6, <2>7
<1>13. CASE EndRound
  <2>1. stagnant' \in Nat /\ rnd' \in Nat
    BY <1>0, <1>13 DEF EndRound
  <2>2. phase' \in {"gate", "round"}
    BY <1>13 DEF EndRound
  <2> QED BY <1>13, <2>1, <2>2 DEF EndRound
<1>14. CASE Gate
  <2>1. /\ phase = "gate"
        /\ UNCHANGED <<request, surround, search, money, peeks, sealedLB,
                       servable, served>>
    BY <1>14 DEF Gate
  <2>2. \/ phase' = "done" /\ decision' \in Decisions
        \/ phase' = "certify" /\ decision' = decision
    BY <1>14 DEF Gate
  <2>3. negative' \in BOOLEAN
    BY <1>14 DEF Gate
  <2> QED BY <2>1, <2>2, <2>3
<1>15. CASE PredictLocally
  BY <1>15 DEF PredictLocally
<1>16. CASE PredictRemotely
  <2>1. phase = "certify"
    BY <1>16 DEF PredictRemotely
  <2>2. \/ phase' = "done" /\ decision' = "raised" /\ credit' = credit
           /\ servable' = servable
        \/ phase' = "rerun" /\ decision' = decision /\ servable' = FALSE
           /\ credit' = credit + (IF paid THEN 1 ELSE 0)
    BY <1>16 DEF PredictRemotely
  <2>3. credit' = IF paid /\ phase' = "rerun" THEN 1 ELSE 0
    BY <2>1, <2>2
  <2>4. UNCHANGED <<request, surround, search, cost, spend, peeks, sealedLB,
                    served, negative>>
    BY <1>16 DEF PredictRemotely
  <2>5. credit' \in Nat
    BY <2>3
  <2>6. phase' \in Phases /\ decision' \in Decisions \union {"none"}
    BY <2>2
  <2>7. servable' \in BOOLEAN
    BY <2>2
  <2>8. BilledCallsCleared' /\ MoveInFlight'
    BY <2>1, <2>2, <2>3, <2>4
  <2> QED BY <2>4, <2>5, <2>6, <2>7, <2>8
<1>17. CASE RerunReturns
  BY <1>17 DEF RerunReturns
<1>18. CASE Peek
  <2>1. peeks' \in Nat
    BY <1>0, <1>18 DEF Peek
  <2>2. sealedLB' \in Bounds \union {NoBound}
    BY <1>18 DEF Peek
  <2> QED BY <1>18, <2>1, <2>2 DEF Peek
<1>19. CASE Verdict
  <2>1. /\ phase = "verdict" /\ phase' = "report" /\ served' \in BOOLEAN
        /\ UNCHANGED <<request, surround, search, money, peeks, sealedLB,
                       servable, negative, decision>>
    BY <1>19 DEF Verdict
  <2> QED BY <2>1
<1>20. CASE UNCHANGED vars
  BY <1>20 DEF vars
<1>22. CASE CallbackRaises
  BY <1>22 DEF CallbackRaises, Exhausted
<1>23. CASE Report
  BY <1>23 DEF Report, Label
<1> QED
  BY <1>1, <1>2, <1>3, <1>4, <1>5, <1>6, <1>7, <1>8, <1>9, <1>10, <1>11,
     <1>12, <1>13, <1>14, <1>15, <1>16, <1>17, <1>18, <1>19, <1>20, <1>21,
     <1>22, <1>23, <1>24
  DEF Next, Loop

\* Every run starts well typed.
LEMMA InitTypes == Init => TypeInv
<1> SUFFICES ASSUME Init PROVE TypeInv
  OBVIOUS
<1>1. acquire \in Nat
  BY GoalLoopAssumption DEF Init
<1>2. batch \in Seq(AllMoves) /\ used \subseteq AllMoves
  BY DEF Init
<1>3. BilledCallsCleared /\ MoveInFlight
  BY DEF Init, BilledCallsCleared, MoveInFlight
<1>4. TypeOK
  <2>1. winner \in Candidates \union {NoModel}
    BY DEF Init
  <2>2. {acquire, rnd, nruns, stagnant, cost, spend, credit, peeks} \subseteq Nat
    BY <1>1 DEF Init
  <2>3. {paid, worker, authored, cancelled, servable, served, negative}
            \subseteq BOOLEAN
    BY DEF Init
  <2>4. {floor, sealedLB} \subseteq Bounds \union {NoBound}
    BY DEF Init
  <2> QED
    BY <1>2, <2>1, <2>2, <2>3, <2>4 DEF Init, TypeOK, Phases, SearchPhases
<1> QED BY <1>3, <1>4 DEF TypeInv

\* The types are right in every reachable state.
THEOREM TypeCorrect == Spec => []TypeOK
<1>1. TypeInv => TypeOK
  BY DEF TypeInv
<1> QED
  BY <1>1, InitTypes, TypeStep, PTL DEF Spec

-----------------------------------------------------------------------------
\* The parts of the invariant that a step can disturb beside the types.
Gates ==
    /\ DecidedAtEnd
    /\ OneLook
    /\ Audited
    /\ Chosen
    /\ CancelHeld
    /\ ServedLast
    /\ CertificateSound

\* A step of the search or of intake: no look, no verdict, audited data.  Only
\* the audit may end without asking for a cancel.
LEMMA SearchStep ==
    ASSUME Inv,
           phase \in SearchPhases,
           UNCHANGED <<objective, surround, peeks, sealedLB, served>>,
           phase' \in SearchPhases \union {"done"},
           phase' = "audit" => ~cancelled,
           phase' \in {"intake", "audit", "done"} \/ data' = "clean",
           \/ phase' # "done" /\ decision' = decision
           \/ phase' = "done" /\ decision' \in {"cancelled", "raised"}
           \/ /\ phase' = "done"
              /\ decision' \in {"no_model", "honest_stop"}
              /\ ~cancelled
           \/ /\ phase = "audit" /\ phase' = "done"
              /\ decision' \in {"unsupported", "blocked"}
    PROVE  Gates'
<1> USE DEF Inv, SearchPhases, surround
<1>1. peeks = 0 /\ sealedLB = NoBound /\ ~served /\ decision = "none"
  BY DEF OneLook, DecidedAtEnd, ServedLast
<1>2. DecidedAtEnd' /\ OneLook'
  BY <1>1 DEF DecidedAtEnd, OneLook
<1>3. Audited' /\ Chosen'
  BY <1>1 DEF Audited, Chosen
<1>4. CancelHeld'
  BY <1>1 DEF CancelHeld, CancelNeverPeeks
<1>5. ServedLast' /\ CertificateSound'
  BY <1>1 DEF ServedLast, CertificateSound
<1> QED BY <1>2, <1>3, <1>4, <1>5 DEF Gates

LEMMA GatesStep == Inv /\ [Next]_vars => Gates'
<1> SUFFICES ASSUME Inv, [Next]_vars PROVE Gates'
  OBVIOUS
<1> USE DEF request, surround, search, money, result, Finish
<1>1. CASE Cancel
  <2>1. decision = "none"
    BY <1>1 DEF Cancel, Running, Inv, DecidedAtEnd
  <2>2. DecidedAtEnd' /\ OneLook' /\ Audited' /\ Chosen' /\ ServedLast'
        /\ CertificateSound'
    BY <1>1 DEF Cancel, Inv, DecidedAtEnd, OneLook, Audited, Chosen,
       ServedLast, CertificateSound, FailsValGate
  <2>3. CancelHeld'
    BY <1>1, <2>1 DEF Cancel, Running, Inv, CancelHeld, CancelNeverPeeks,
       OneLook, SearchPhases
  <2> QED BY <2>2, <2>3 DEF Gates
<1>2. CASE Tick
  BY <1>2 DEF Tick, Inv, Gates, DecidedAtEnd, OneLook, Audited, Chosen,
     CancelHeld, CancelNeverPeeks, ServedLast, CertificateSound, FailsValGate
<1>3. ASSUME NEW d \in {"unsupported", "blocked", "raised"}, AuditEnds(d)
      PROVE  Gates'
  BY <1>3, SearchStep DEF AuditEnds, SearchPhases
<1>4. CASE CheckIntake \/ AuditAccepts
  BY <1>4, SearchStep DEF CheckIntake, AuditAccepts, SearchPhases
<1>5. CASE ClearMove \/ StartMove
  BY <1>5, SearchStep DEF ClearMove, StartMove, SearchPhases, Inv, Audited
<1>6. ASSUME NEW best \in Candidates \union {NoModel},
             NEW c \in MoveCosts \union {0}, FinishMove(best, c)
      PROVE  Gates'
  BY <1>6, SearchStep DEF FinishMove, SearchPhases, Inv, Audited
<1>7. CASE MoveRaises
  BY <1>7, SearchStep DEF MoveRaises, SearchPhases
<1>8. ASSUME NEW best \in Candidates \union {NoModel},
             NEW n \in 0..MaxAuthored, FinishAnchor(best, n)
      PROVE  Gates'
  BY <1>8, SearchStep DEF FinishAnchor, SearchPhases, Inv, Audited
<1>9. CASE LeaveLoop
  BY <1>9, SearchStep DEF LeaveLoop, SearchPhases, Inv, Audited
<1>10. CASE ProposeRound
  BY <1>10, SearchStep DEF ProposeRound, SearchPhases, Inv, Audited
<1>11. CASE StopExhausted
  BY <1>11, SearchStep DEF StopExhausted, Exhausted, SearchPhases, Inv, Audited
<1>12. CASE AcquireAndRerun
  <2>1. phase = "round" /\ phase' = "intake" /\ ~cancelled
    BY <1>12 DEF AcquireAndRerun, Exhausted
  <2>2. UNCHANGED <<objective, cancelled, cancelAt, peeks, sealedLB, served,
                    decision>>
    BY <1>12 DEF AcquireAndRerun
  <2>3. peeks = 0 /\ sealedLB = NoBound /\ ~served
    BY <2>1 DEF Inv, OneLook, ServedLast
  <2>4. DecidedAtEnd' /\ OneLook' /\ Audited' /\ Chosen'
    BY <2>1, <2>2, <2>3
    DEF Inv, DecidedAtEnd, OneLook, Audited, Chosen
  <2>5. CancelHeld' /\ ServedLast' /\ CertificateSound'
    BY <2>1, <2>2, <2>3
    DEF Inv, CancelHeld, CancelNeverPeeks, ServedLast, CertificateSound,
        DecidedAtEnd, SearchPhases
  <2> QED BY <2>4, <2>5 DEF Gates
<1>13. CASE EndRound
  BY <1>13, SearchStep DEF EndRound, SearchPhases, Inv, Audited
<1>14. CASE Gate
  <2>1. phase = "gate" /\ UNCHANGED <<objective, surround, data, winner, peeks,
                                     sealedLB, served>>
    BY <1>14 DEF Gate
  <2>2. CASE phase' = "done"
    BY <1>14, <2>1, <2>2, SearchStep
    DEF Gate, CancelledAtGate, SearchPhases
  <2>3. CASE phase' # "done"
    <3>1. /\ phase' = "certify" /\ decision' = decision
          /\ winner # NoModel /\ ~FailsValGate /\ ~cancelled
      BY <1>14, <2>3 DEF Gate, CancelledAtGate
    <3>2. peeks = 0 /\ sealedLB = NoBound /\ ~served /\ data = "clean"
      BY <2>1 DEF Inv, OneLook, ServedLast, Audited
    <3>3. DecidedAtEnd' /\ OneLook' /\ Audited'
      BY <2>1, <3>1, <3>2 DEF Inv, DecidedAtEnd, OneLook, Audited
    <3>4. Chosen'
      BY <2>1, <3>1 DEF Chosen, FailsValGate
    <3>5. CancelHeld' /\ ServedLast' /\ CertificateSound'
      BY <2>1, <3>1, <3>2
      DEF Inv, CancelHeld, CancelNeverPeeks, ServedLast, CertificateSound,
          DecidedAtEnd
    <3> QED BY <3>3, <3>4, <3>5 DEF Gates
  <2> QED BY <2>2, <2>3
<1>15. CASE PredictLocally
  BY <1>15 DEF PredictLocally, Inv, Gates, DecidedAtEnd, OneLook, Audited,
     Chosen, CancelHeld, CancelNeverPeeks, ServedLast, CertificateSound,
     FailsValGate, SearchPhases
<1>16. CASE PredictRemotely
  BY <1>16 DEF PredictRemotely, Inv, Gates, DecidedAtEnd, OneLook, Audited,
     Chosen, CancelHeld, CancelNeverPeeks, ServedLast, CertificateSound,
     FailsValGate, SearchPhases
<1>17. CASE RerunReturns
  BY <1>17 DEF RerunReturns, Inv, Gates, DecidedAtEnd, OneLook, Audited,
     Chosen, CancelHeld, CancelNeverPeeks, ServedLast, CertificateSound,
     FailsValGate, SearchPhases
<1>18. CASE Peek
  BY <1>18, GoalLoopAssumption
  DEF Peek, Inv, Gates, DecidedAtEnd, OneLook, Audited, Chosen, CancelHeld,
      CancelNeverPeeks, ServedLast, CertificateSound, FailsValGate,
      SearchPhases, Bounds, NoBound
<1>19. CASE Verdict
  <2>1. /\ phase = "verdict" /\ phase' = "report" /\ decision' = decision
        /\ served' => Certifiable
        /\ UNCHANGED <<request, surround, search, money, peeks, sealedLB>>
    BY <1>19 DEF Verdict
  <2>2. /\ peeks = 1 /\ sealedLB # NoBound /\ data = "clean"
        /\ winner # NoModel /\ ~FailsValGate /\ decision = "none"
    BY <2>1 DEF Inv, OneLook, Audited, Chosen, DecidedAtEnd
  <2>3. Audited' /\ Chosen' /\ DecidedAtEnd' /\ OneLook' /\ ServedLast'
    BY <2>1, <2>2
    DEF Audited, Chosen, FailsValGate, DecidedAtEnd, OneLook, ServedLast
  <2>4. CancelHeld'
    BY <2>1, <2>2 DEF Inv, CancelHeld, CancelNeverPeeks, SearchPhases
  <2>5. CertificateSound'
    BY <2>1, <2>2 DEF CertificateSound, Certifiable, BoundClears, CostOk
  <2> QED BY <2>3, <2>4, <2>5 DEF Gates
<1>20. CASE UNCHANGED vars
  BY <1>20 DEF vars, Inv, Gates, DecidedAtEnd, OneLook, Audited, Chosen,
     CancelHeld, CancelNeverPeeks, ServedLast, CertificateSound, FailsValGate
<1>21. CASE CallbackRaises
  BY <1>21, SearchStep DEF CallbackRaises, Exhausted, SearchPhases
<1>22. CASE Report
  <2>1. /\ phase = "report" /\ phase' = "done"
        /\ decision' \in {Label, "raised"}
        /\ UNCHANGED <<request, surround, search, money, result>>
    BY <1>22 DEF Report
  <2>2. /\ peeks = 1 /\ sealedLB # NoBound /\ data = "clean"
        /\ winner # NoModel /\ ~FailsValGate
    BY <2>1 DEF Inv, OneLook, Audited, Chosen
  <2>3. Label \in {"certified", "best_effort", "do_not_certify"}
    BY DEF Label
  <2>4. Audited' /\ Chosen' /\ DecidedAtEnd' /\ OneLook' /\ ServedLast'
    BY <2>1, <2>2, <2>3
    DEF Audited, Chosen, FailsValGate, DecidedAtEnd, OneLook, ServedLast
  <2>5. CancelHeld'
    BY <2>1, <2>2, <2>3
    DEF Inv, CancelHeld, CancelNeverPeeks, SearchPhases
  <2>6. served => Certifiable
    BY <2>1, <2>2 DEF Inv, CertificateSound, Certifiable, BoundClears, CostOk
  <2>7. CertificateSound'
    BY <2>1, <2>2, <2>6
    DEF CertificateSound, Label, Certifiable, BoundClears, CostOk
  <2> QED BY <2>4, <2>5, <2>7 DEF Gates
<1> QED
  BY <1>1, <1>2, <1>3, <1>4, <1>5, <1>6, <1>7, <1>8, <1>9, <1>10, <1>11,
     <1>12, <1>13, <1>14, <1>15, <1>16, <1>17, <1>18, <1>19, <1>20, <1>21,
     <1>22
  DEF Next, Loop

\* The gates of a run are kept from its first step to its last.
LEMMA GatesKept == Spec => []Inv
<1>1. Init => Inv
  <2>1. Init => Gates
    BY DEF Init, Gates, DecidedAtEnd, OneLook, Audited, Chosen, CancelHeld,
       CancelNeverPeeks, ServedLast, CertificateSound
  <2>2. Init => TypeInv
    BY InitTypes
  <2> QED BY <2>1, <2>2 DEF Inv, Gates
<1>2. Inv /\ [Next]_vars => Inv'
  BY TypeStep, GatesStep DEF Inv, Gates
<1> QED
  BY <1>1, <1>2, PTL DEF Spec

-----------------------------------------------------------------------------
\* A certificate means one counted look, on audited data, at a model that
\* keeps every gate of the verify spec; only such a model is served.
THEOREM CertificatesSound == Spec => []CertificateSound
<1>1. Inv => CertificateSound
  BY DEF Inv
<1> QED
  BY <1>1, GatesKept, PTL

\* In certify mode the sealed test is never spent on a model whose own
\* validation bound does not clear the threshold.
THEOREM NoPeekIsWasted == Spec => []NoWastedPeek
<1>1. Inv => NoWastedPeek
  <2> SUFFICES ASSUME Inv, objective = "certify", peeks > 0,
                      winner.lb # NoBound
               PROVE  winner.lb > Theta
    BY DEF NoWastedPeek
  <2>1. winner # NoModel /\ ~FailsValGate
    BY DEF Inv, OneLook, Chosen
  <2>2. winner.lb \in Int /\ Theta \in Int
    <3>1. winner.lb \in Bounds \union {NoBound}
      BY BoundType DEF Inv, TypeInv, TypeOK
    <3>2. Theta \in Bounds /\ MaxBound \in Nat
      BY GoalLoopAssumption
    <3> QED BY ONLY <3>1, <3>2 DEF Bounds, NoBound
  <2> QED BY <2>1, <2>2 DEF FailsValGate
<1> QED
  BY <1>1, GatesKept, PTL

\* A cancel that comes before the last check of the loop keeps the run away
\* from the sealed test, and a cancelled run never looked at it.
THEOREM CancelledRunsNeverPeek == Spec => []CancelNeverPeeks
<1>1. Inv => CancelNeverPeeks
  BY DEF Inv, CancelHeld
<1> QED
  BY <1>1, GatesKept, PTL

\* Whatever is billed went through the cost checkpoint first.
THEOREM BilledCallsAreCleared == Spec => []BilledCallsCleared
<1>1. Inv => BilledCallsCleared
  BY DEF Inv, TypeInv
<1> QED
  BY <1>1, GatesKept, PTL

\* The model, its data and the counters of the search stay as they were when
\* the sealed test was first evaluated.
THEOREM SelectionIsFrozen == Spec => SelectionFrozen
<1>1. Inv /\ [Next]_vars
        => [peeks > 0 => UNCHANGED <<winner, nruns, used, peeks, data>>]_vars
  <2> SUFFICES ASSUME Inv, [Next]_vars, peeks > 0
               PROVE  UNCHANGED <<winner, nruns, used, peeks, data>>
    OBVIOUS
  <2>1. phase \in {"verdict", "report", "done"}
    BY DEF Inv, OneLook
  <2>2. Cancel \/ Tick \/ Verdict \/ Report \/ UNCHANGED vars
    BY <2>1
    DEF Next, Loop, CheckIntake, AuditEnds, AuditAccepts, ClearMove,
        StartMove, FinishMove, MoveRaises, FinishAnchor, LeaveLoop,
        ProposeRound, StopExhausted, Exhausted, AcquireAndRerun,
        CallbackRaises, EndRound, Gate, PredictLocally, PredictRemotely,
        RerunReturns, Peek
  <2> QED BY <2>2 DEF Cancel, Tick, Verdict, Report, search, result, vars
<1> QED
  BY <1>1, GatesKept, PTL DEF Spec, SelectionFrozen

\* While the time budget runs, the search ends only with the experiment
\* budget used up or with nothing left to propose.
THEOREM SearchGoesOn == Spec => KeepsSearching
<1>1. Inv /\ [Next]_vars
        => [WithinBudget /\ phase' = "gate" /\ phase \in {"round", "exec"}
              => nruns >= Budget \/ Grid \subseteq used]_vars
  <2> SUFFICES ASSUME Inv, [Next]_vars, WithinBudget, phase' = "gate",
                      phase \in {"round", "exec"}
               PROVE  nruns >= Budget \/ Grid \subseteq used
    OBVIOUS
  <2>1. nruns \in Int /\ Budget \in Int
    BY GoalLoopAssumption DEF Inv, TypeInv, TypeOK
  <2>2. LeaveLoop \/ StopExhausted \/ EndRound
    BY DEF Next, Loop, Cancel, Tick, CheckIntake, AuditEnds, AuditAccepts,
       ClearMove, StartMove, FinishMove, MoveRaises, FinishAnchor,
       ProposeRound, AcquireAndRerun, CallbackRaises, Gate, PredictLocally,
       PredictRemotely, RerunReturns, Peek, Verdict, Report, Finish, vars
  <2>3. CASE LeaveLoop
    BY <2>1, <2>3
    DEF LeaveLoop, LoopGoesOn, StopsEarly, WithinBudget, Finish
  <2>4. CASE StopExhausted
    <3>1. {} \in Proposals
      BY <2>4 DEF StopExhausted, Exhausted
    <3> QED BY <3>1 DEF Proposals
  <2>5. CASE EndRound
    BY <2>5 DEF EndRound, StagnationStops, WithinBudget
  <2> QED BY <2>2, <2>3, <2>4, <2>5
<1> QED
  BY <1>1, GatesKept, PTL DEF Spec, KeepsSearching

-----------------------------------------------------------------------------
\* Round 0 is the anchor move alone; every later move starts within budget.
Rounds ==
    /\ phase \in {"intake", "audit"} => rnd = 0
    /\ phase \in {"round", "gate"} => rnd > 0
    /\ rnd = 0 => used \subseteq {Baseline} /\ batch \in {<<>>, <<Baseline>>}
    /\ phase \in {"cleared", "measure"} /\ rnd > 0 => nruns < Budget

LEMMA RoundsStep ==
    TypeInv /\ Rounds /\ OvershootIsOneMove /\ [Next]_vars
        => Rounds' /\ OvershootIsOneMove'
<1> SUFFICES ASSUME TypeInv, Rounds, OvershootIsOneMove, [Next]_vars
             PROVE  Rounds' /\ OvershootIsOneMove'
  OBVIOUS
<1> USE DEF request, surround, search, money, result, Finish
<1>0. /\ nruns \in Nat /\ rnd \in Nat /\ Budget \in Nat
      /\ batch \in Seq(AllMoves)
  BY GoalLoopAssumption DEF TypeInv, TypeOK
<1>1. ASSUME UNCHANGED <<rnd, used, batch, nruns>>,
             phase' \in {phase, "done"}
      PROVE  Rounds' /\ OvershootIsOneMove'
  BY <1>1 DEF Rounds, OvershootIsOneMove
<1>2. CASE Cancel \/ Tick \/ UNCHANGED vars
  BY <1>1, <1>2 DEF Cancel, Tick, vars
<1>3. ASSUME NEW d \in {"unsupported", "blocked", "raised"}, AuditEnds(d)
      PROVE  Rounds' /\ OvershootIsOneMove'
  BY <1>1, <1>3 DEF AuditEnds
<1>4. CASE CheckIntake \/ AuditAccepts
  BY <1>4 DEF CheckIntake, AuditAccepts, Rounds, OvershootIsOneMove
<1>5. CASE ClearMove \/ StartMove
  BY <1>0, <1>5
  DEF ClearMove, StartMove, BatchOver, Rounds, OvershootIsOneMove
<1>6. ASSUME NEW best \in Candidates \union {NoModel},
             NEW c \in MoveCosts \union {0}, FinishMove(best, c)
      PROVE  Rounds' /\ OvershootIsOneMove'
  <2>1. /\ phase = "measure" /\ phase' = "exec" /\ rnd' = rnd
        /\ nruns' = nruns + Size[Head(batch)]
        /\ used' = used \union {Head(batch)} /\ batch' = Tail(batch)
    BY <1>6 DEF FinishMove
  <2>2. batch # <<>> /\ Head(batch) \in AllMoves
    BY <1>0, <2>1 DEF TypeInv, MoveInFlight
  <2>3. CASE rnd = 0
    <3>1. batch = <<Baseline>>
      BY <2>2, <2>3 DEF Rounds
    <3>2. used' \subseteq {Baseline} /\ batch' = <<>>
      BY <2>1, <2>3, <3>1 DEF Rounds
    <3> QED BY <2>1, <3>2 DEF Rounds, OvershootIsOneMove
  <2>4. CASE rnd # 0
    <3>1. nruns < Budget
      BY <1>0, <2>1, <2>4 DEF Rounds
    <3>2. Size[Head(batch)] \in Nat
      BY <2>2, GoalLoopAssumption
    <3>3. nruns' < Budget + Size[Head(batch)] /\ Head(batch) \in used'
      BY <1>0, <2>1, <3>1, <3>2
    <3> QED BY <2>1, <2>4, <3>3 DEF Rounds, OvershootIsOneMove
  <2> QED BY <2>3, <2>4
<1>7. CASE MoveRaises \/ CallbackRaises
  BY <1>1, <1>7 DEF MoveRaises, CallbackRaises
<1>8. ASSUME NEW best \in Candidates \union {NoModel},
             NEW n \in 0..MaxAuthored, FinishAnchor(best, n)
      PROVE  Rounds' /\ OvershootIsOneMove'
  BY <1>8 DEF FinishAnchor, Rounds, OvershootIsOneMove
<1>9. CASE LeaveLoop
  BY <1>9 DEF LeaveLoop, Rounds, OvershootIsOneMove
<1>10. CASE ProposeRound
  BY <1>0, <1>10 DEF ProposeRound, Rounds, OvershootIsOneMove
<1>11. CASE StopExhausted
  BY <1>11 DEF StopExhausted, Exhausted, Rounds, OvershootIsOneMove
<1>12. CASE AcquireAndRerun
  BY <1>12 DEF AcquireAndRerun, Rounds, OvershootIsOneMove
<1>13. CASE EndRound
  BY <1>0, <1>13 DEF EndRound, Rounds, OvershootIsOneMove
<1>14. CASE Gate
  BY <1>14 DEF Gate, Rounds, OvershootIsOneMove
<1>15. CASE PredictLocally \/ PredictRemotely
  BY <1>15
  DEF PredictLocally, PredictRemotely, Rounds, OvershootIsOneMove
<1>16. CASE RerunReturns \/ Peek \/ Verdict \/ Report
  BY <1>16 DEF RerunReturns, Peek, Verdict, Report, Rounds, OvershootIsOneMove
<1> QED
  BY <1>2, <1>3, <1>4, <1>5, <1>6, <1>7, <1>8, <1>9, <1>10, <1>11, <1>12,
     <1>13, <1>14, <1>15, <1>16
  DEF Next, Loop

\* However large the moves are and however they are batched, the experiment
\* budget is overrun by less than the one move that was under way.
THEOREM OvershootBounded == Spec => []OvershootIsOneMove
<1>1. Init => Rounds /\ OvershootIsOneMove
  BY DEF Init, Rounds, OvershootIsOneMove
<1>2. Inv => TypeInv
  BY DEF Inv
<1> QED
  BY <1>1, <1>2, GatesKept, RoundsStep, PTL DEF Spec

-----------------------------------------------------------------------------
\* Every step of a run is a step of the abstract promise or stutters.
LEMMA PromiseStep ==
    Inv /\ [Next]_vars => [Promise!Next]_(Promise!abstractVars)
<1> SUFFICES ASSUME Inv, [Next]_vars
             PROVE  Promise!Next \/ UNCHANGED Promise!abstractVars
  OBVIOUS
<1> USE DEF request, surround, search, money, result, Finish
<1> DEFINE Stays == UNCHANGED <<winner, sealedLB, peeks>>
<1>1. ASSUME Stays, decision' = decision
      PROVE  UNCHANGED Promise!abstractVars
  BY <1>1 DEF Promise!abstractVars
<1>2. ASSUME UNCHANGED <<winner, sealedLB>>, peeks' \in {peeks, 1},
             phase # "done", decision' \in Decisions \ {"certified"}
      PROVE  Promise!GiveUp
  BY <1>2 DEF Promise!GiveUp, Inv, DecidedAtEnd, Decisions
<1>3. ASSUME UNCHANGED <<sealedLB, peeks, decision>>,
             phase \in SearchPhases, winner' \in Candidates \union {NoModel}
      PROVE  Promise!Select
  BY <1>3 DEF Promise!Select, Inv, DecidedAtEnd, OneLook, SearchPhases
<1>4. CASE Cancel \/ Tick \/ UNCHANGED vars
  BY <1>1, <1>4 DEF Cancel, Tick, vars
<1>5. ASSUME NEW d \in {"unsupported", "blocked", "raised"}, AuditEnds(d)
      PROVE  Promise!Next
  BY <1>2, <1>5 DEF AuditEnds, Promise!Next, Decisions
<1>6. CASE AuditAccepts \/ ProposeRound \/ StopExhausted \/ EndRound \/ Verdict
  BY <1>1, <1>6
  DEF AuditAccepts, ProposeRound, StopExhausted, EndRound, Verdict
<1>7. CASE CheckIntake \/ ClearMove \/ StartMove \/ MoveRaises \/ LeaveLoop
  BY <1>1, <1>2, <1>7
  DEF CheckIntake, ClearMove, StartMove, MoveRaises, LeaveLoop, Promise!Next,
      Decisions
<1>14. CASE CallbackRaises
  BY <1>2, <1>14 DEF CallbackRaises, Exhausted, Promise!Next, Decisions
<1>8. ASSUME NEW best \in Candidates \union {NoModel},
             NEW c \in MoveCosts \union {0}, FinishMove(best, c)
      PROVE  Promise!Next
  <2>1. winner' \in Candidates \union {NoModel}
    BY <1>8 DEF FinishMove, Better, Inv, TypeInv, TypeOK
  <2> QED BY <1>3, <1>8, <2>1 DEF FinishMove, Promise!Next, SearchPhases
<1>9. ASSUME NEW best \in Candidates \union {NoModel},
             NEW n \in 0..MaxAuthored, FinishAnchor(best, n)
      PROVE  Promise!Next
  <2>1. winner' \in Candidates \union {NoModel}
    BY <1>9 DEF FinishAnchor, Better, Inv, TypeInv, TypeOK
  <2> QED BY <1>3, <1>9, <2>1 DEF FinishAnchor, Promise!Next, SearchPhases
<1>10. CASE AcquireAndRerun
  BY <1>3, <1>10
  DEF AcquireAndRerun, Exhausted, Promise!Next, SearchPhases
<1>11. CASE Gate \/ PredictLocally \/ PredictRemotely \/ RerunReturns
  BY <1>1, <1>2, <1>11
  DEF Gate, PredictLocally, PredictRemotely, RerunReturns, Promise!Next,
      Decisions
<1>12. CASE Peek
  <2>1. phase = "peek" /\ peeks = 0 /\ winner # NoModel /\ decision = "none"
    BY <1>12 DEF Peek, Inv, OneLook, Chosen, DecidedAtEnd
  <2>2. CASE decision' = "raised"
    BY <1>2, <1>12, <2>1, <2>2 DEF Peek, Promise!Next, Decisions
  <2>3. CASE decision' # "raised"
    <3>1. /\ peeks' = 1 /\ sealedLB' \in Bounds
          /\ UNCHANGED <<winner, decision>>
      BY <1>12, <2>1, <2>3 DEF Peek
    <3>2. Promise!Measure
      BY <2>1, <3>1 DEF Promise!Measure
    <3> QED BY <3>2 DEF Promise!Next
  <2> QED BY <2>2, <2>3
<1>13. CASE Report
  <2>1. /\ phase = "report" /\ peeks = 1 /\ decision = "none"
        /\ sealedLB # NoBound
    BY <1>13 DEF Report, Inv, OneLook, DecidedAtEnd
  <2>2. CASE decision' = "certified"
    <3>1. Certifiable /\ Stays
      BY <1>13, <2>2 DEF Report, Label
    <3>2. sealedLB > Theta
      BY <3>1 DEF Certifiable, BoundClears
    <3>3. Promise!Certify
      BY <2>1, <2>2, <3>1, <3>2 DEF Promise!Certify
    <3> QED BY <3>3 DEF Promise!Next
  <2>3. CASE decision' # "certified"
    BY <1>2, <1>13, <2>1, <2>3 DEF Report, Label, Promise!Next, Decisions
  <2> QED BY <2>2, <2>3
<1> QED
  BY <1>4, <1>5, <1>6, <1>7, <1>8, <1>9, <1>10, <1>11, <1>12, <1>13, <1>14
  DEF Next, Loop

\* A whole run, with its rounds, legs, checkpoints and gates, implements the
\* promise: selection on validation, one look, and a certificate only from a
\* measured bound above the threshold.
THEOREM PromiseKept == Spec => KeepsPromise
<1>1. Init => Promise!Init
  BY DEF Init, Promise!Init
<1> QED
  BY <1>1, GatesKept, PromiseStep, PTL DEF Spec, KeepsPromise, Promise!Spec
=============================================================================
