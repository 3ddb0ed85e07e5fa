----------------------------- MODULE MCAttestra -----------------------------
(* Attestra's control, each part over its own abstraction of the part it   *)
(* calls: the strategy loop, calls of orchestrate(), the two engines of a  *)
(* call.  A behaviour is one of one part; the others stay as they began.   *)
(*                                                                         *)
(* Six attempts outlast both patiences of two, the ladder ends before the  *)
(* attempts and the budget may end before either; two calls of two phases  *)
(* see a pool or GPU that leads and a call after one that failed; three    *)
(* rounds of two proposals reach every abort of the health monitor, with a *)
(* target above and one far below 0; three turns of the generative engine  *)
(* do each of its operations.                                              *)
EXTENDS StrategyLoop, Orchestrate, ResearchEngine, GenerativeEngine

VARIABLE part

MCScores == {-1, 1, 2}
MCEngines == {"frontier", "generative", "catalog"}
MCCycleScores == {-3, 0, 1, 3}
MCTargets == {-3, 1}

PartInit ==
    /\ part \in {"loop", "call", "catalog", "generative"}
    /\ LoopInit
    /\ CallInit
    /\ EngineInit
    /\ TreeInit

PartNext ==
    \/ part = "loop" /\ LoopNext /\ UNCHANGED <<part, callVars, engineVars, treeVars>>
    \/ part = "call" /\ CallNext /\ UNCHANGED <<part, loopVars, engineVars, treeVars>>
    \/ part = "catalog" /\ EngineNext /\ UNCHANGED <<part, loopVars, callVars, treeVars>>
    \/ part = "generative" /\ TreeNext /\ UNCHANGED <<part, loopVars, callVars, engineVars>>

PartSpec == PartInit /\ [][PartNext]_<<part, loopVars, callVars, engineVars, treeVars>>

\* The variables of all parts keep their types.
AttestraTypeOK == LoopTypeOK /\ CallTypeOK /\ EngineTypeOK
=============================================================================
