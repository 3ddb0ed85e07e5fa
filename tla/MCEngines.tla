----------------------------- MODULE MCEngines ------------------------------
(* The engines that search for a model, each on its own: a behaviour is    *)
(* one of one part, the other parts stay as they began.                    *)
(*                                                                         *)
(* Two programs let champions tie or be replaced; five arms on 3 rungs let *)
(* a survivor of one cut fall at the next; three runs of a goal are a      *)
(* resume of a resume; with three rounds and a family of two an axis is    *)
(* used up by failures alone.                                              *)
EXTENDS ResumableRun, Portfolio, VectorForge, BrainSearch, TLC

CONSTANTS p1, p2, a1, a2, a3, a4, a5

VARIABLE part

EngineInit ==
    /\ part \in {"resume", "portfolio", "forge", "brain"}
    /\ Init
    /\ PortInit
    /\ ForgeInit
    /\ BrainInit
    /\ part # "brain" =>
        /\ setup.allowed = {} /\ ~setup.imbalanced
        /\ setup.budget = CHOOSE n \in MaxExperiments : TRUE
        /\ val = CHOOSE s \in ValScores : TRUE
        /\ ~uncalibrated
    /\ part # "forge" =>
        /\ ~raw.leaky /\ ~raw.few
        /\ ~raw.split.limited /\ ~raw.split.dirty /\ raw.split.sound

EngineNext ==
    /\ UNCHANGED part
    /\ \/ /\ part = "resume" /\ Next
          /\ UNCHANGED <<portVars, forgeVars, brainVars>>
       \/ /\ part = "portfolio" /\ PortNext
          /\ UNCHANGED <<vars, forgeVars, brainVars>>
       \/ /\ part = "forge" /\ ForgeNext
          /\ UNCHANGED <<vars, portVars, brainVars>>
       \/ /\ part = "brain" /\ BrainNext
          /\ UNCHANGED <<vars, portVars, forgeVars>>

EngineVars == <<vars, portVars, forgeVars, brainVars>>

EngineSpec == EngineInit /\ [][EngineNext]_<<part, EngineVars>>

Symmetry == Permutations(Programs)

\* The variables of all engines keep their types.
EnginesTypeOK == TypeOK /\ PortTypeOK /\ ForgeTypeOK /\ BrainTypeOK
=============================================================================
