----------------------------- MODULE MCBackends -----------------------------
(* The durable files and the compute back ends, each on its own: a         *)
(* behaviour is one of one part, the other parts stay as they began.       *)
(*                                                                         *)
(* Four runs and two locked tests see every order of looks and deaths in   *)
(* the peek ledger; three writers see an overlap beside an entry that was  *)
(* acknowledged before it and one that comes after it; three registrations *)
(* a rollback from one to another while the third is made; a budget of six *)
(* with posts of two a retry after a retry and an attempt that outlives    *)
(* the budget.                                                             *)
EXTENDS PeekLedger, Ledgers, RemoteJobs, GpuPod, AsyncJobs, ModelServing,
        Sandbox, TLC

CONSTANTS g1, g2, g3, g4, testA, testB, w1, w2, w3, v1, v2, v3

VARIABLE part

PartVars == <<vars, logVars, remoteVars, podVars, asyncVars, serveVars,
              sandboxVars>>

PartInit ==
    /\ part \in {"peeks", "logs", "remote", "pods", "async", "serving", "sandbox"}
    /\ Init
    /\ LogInit
    /\ RemoteInit
    /\ PodInit
    /\ AsyncInit
    /\ ServeInit
    /\ SandboxInit
    /\ part # "peeks" => \A r, q \in Runs : digest[r] = digest[q]
    /\ part # "logs" => kind = "wal"
    /\ part # "sandbox" => way = "pipe"

PartNext ==
    /\ UNCHANGED part
    /\ \/ /\ part = "peeks" /\ Next
          /\ UNCHANGED <<logVars, remoteVars, podVars, asyncVars, serveVars,
                         sandboxVars>>
       \/ /\ part = "logs" /\ LogNext
          /\ UNCHANGED <<vars, remoteVars, podVars, asyncVars, serveVars,
                         sandboxVars>>
       \/ /\ part = "remote" /\ RemoteNext
          /\ UNCHANGED <<vars, logVars, podVars, asyncVars, serveVars,
                         sandboxVars>>
       \/ /\ part = "pods" /\ PodNext
          /\ UNCHANGED <<vars, logVars, remoteVars, asyncVars, serveVars,
                         sandboxVars>>
       \/ /\ part = "async" /\ AsyncNext
          /\ UNCHANGED <<vars, logVars, remoteVars, podVars, serveVars,
                         sandboxVars>>
       \/ /\ part = "serving" /\ ServeNext
          /\ UNCHANGED <<vars, logVars, remoteVars, podVars, asyncVars,
                         sandboxVars>>
       \/ /\ part = "sandbox" /\ SandboxNext
          /\ UNCHANGED <<vars, logVars, remoteVars, podVars, asyncVars,
                         serveVars>>

PartSpec == PartInit /\ [][PartNext]_<<part, PartVars>>

Symmetry == Permutations(Runs) \cup Permutations(Digests)

\* The variables of all parts keep their types.
BackendsTypeOK ==
    /\ TypeOK /\ LogTypeOK /\ RemoteTypeOK
    /\ PodTypeOK /\ AsyncTypeOK /\ ServeTypeOK
    /\ SandboxTypeOK
=============================================================================
