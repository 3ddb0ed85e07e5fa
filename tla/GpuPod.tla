------------------------------- MODULE GpuPod -------------------------------
(***************************************************************************)
(* vfplatform/providers.py, PrimeIntellectPodProvider, over the client of  *)
(* vfplatform/_prime_intellect.py: a pod is rented for a series of jobs,   *)
(* waited for, used, and deleted by teardown.  A pod bills from its        *)
(* creation to its deletion.  Every request may fail with or without its   *)
(* effect at the other end.                                                *)
(***************************************************************************)
EXTENDS Integers

CONSTANTS MaxPods,   \* bound: pods that are ever rented
          MaxSpecs   \* bound: jobs that are ever run

ASSUME GpuPodAssumption == MaxPods \in Nat /\ MaxSpecs \in Nat

Pods == 1..MaxPods
NoPod == 0

VARIABLES
    gpc,      \* "idle", "offer", "create", "wait" or "run"
    pod,      \* self.pod_id
    ssh,      \* self._ssh_info is known
    billed,   \* pods that exist at the provider
    known,    \* pods the program was told the id of
    refused,  \* pods whose deletion was asked for and did not happen
    dropped,  \* pods whose wait an exception ended
    specs     \* jobs that were run

podVars == <<gpc, pod, ssh, billed, known, refused, dropped, specs>>

PodInit ==
    /\ gpc = "idle"
    /\ pod = NoPod
    /\ ssh = FALSE
    /\ billed = {}
    /\ known = {}
    /\ refused = {}
    /\ dropped = {}
    /\ specs = 0

\* teardown: the pod is deleted, or is not, and forgotten.
Teardown ==
    /\ pod' = NoPod
    /\ ssh' = FALSE
    /\ \/ pod = NoPod /\ UNCHANGED <<billed, refused>>
       \/ pod # NoPod /\ billed' = billed \ {pod} /\ UNCHANGED refused
       \/ /\ pod \in billed
          /\ refused' = refused \cup {pod}
          /\ UNCHANGED billed

\* ensure_pod for a job: a pod that can be reached is used again.
NeedPod ==
    /\ gpc = "idle"
    /\ specs < MaxSpecs
    /\ gpc' = IF pod # NoPod /\ ssh THEN "run" ELSE "offer"
    /\ UNCHANGED <<pod, ssh, billed, known, refused, dropped, specs>>

\* The cheapest offer of the first kind that has one; without any the job is
\* gated.
FindOffer ==
    /\ gpc = "offer"
    /\ gpc' \in {"create", "idle"}
    /\ UNCHANGED <<pod, ssh, billed, known, refused, dropped, specs>>

NewPod == CHOOSE p \in Pods : p \notin billed \cup known

\* The pod is created and its id read.
CreatePod ==
    /\ gpc = "create"
    /\ Pods \ (billed \cup known) # {}
    /\ pod' = NewPod
    /\ billed' = billed \cup {NewPod}
    /\ known' = known \cup {NewPod}
    /\ gpc' = "wait"
    /\ UNCHANGED <<ssh, refused, dropped, specs>>

\* The request fails or times out, which leaves the pod that was held, or it is
\* answered without an id.
CreateFails ==
    /\ gpc = "create"
    /\ Pods \ (billed \cup known) # {}
    /\ billed' \in {billed, billed \cup {NewPod}}
    /\ pod' \in {pod, NoPod}
    /\ gpc' = "idle"
    /\ UNCHANGED <<ssh, known, refused, dropped, specs>>

PodActive ==
    /\ gpc = "wait"
    /\ ssh' = TRUE
    /\ gpc' = "run"
    /\ UNCHANGED <<pod, billed, known, refused, dropped, specs>>

\* Slip: a pod that does not come up is forgotten without being deleted.
SlipGiveUpPod ==
    /\ pod' = NoPod
    /\ ssh' = FALSE
    /\ UNCHANGED <<billed, refused>>

GiveUpPod == Teardown

\* One failed poll, an error, a pod gone, ten minutes or no address.
PodFails ==
    /\ gpc = "wait"
    /\ GiveUpPod
    /\ gpc' = "idle"
    /\ UNCHANGED <<known, dropped, specs>>

\* An address that cannot be parsed, or the wait is interrupted: no teardown,
\* and the pod that is still held is not used again.
WaitRaises ==
    /\ gpc = "wait"
    /\ dropped' = dropped \cup {pod}
    /\ gpc' = "idle"
    /\ UNCHANGED <<pod, ssh, billed, known, refused, specs>>

\* A job ends with its result or with an error; the pod is kept either way.
RunSpec ==
    /\ gpc = "run"
    /\ specs' = specs + 1
    /\ gpc' = "idle"
    /\ UNCHANGED <<pod, ssh, billed, known, refused, dropped>>

\* The caller ends the series.
EndSeries ==
    /\ gpc = "idle"
    /\ pod # NoPod
    /\ Teardown
    /\ UNCHANGED <<gpc, known, dropped, specs>>

\* The provider ends a pod on its own; the program is not told.
PodGone ==
    /\ \E p \in billed : billed' = billed \ {p}
    /\ UNCHANGED <<gpc, pod, ssh, known, refused, dropped, specs>>

PodNext ==
    \/ NeedPod \/ FindOffer \/ CreatePod \/ CreateFails \/ PodActive
    \/ PodFails \/ WaitRaises \/ RunSpec \/ EndSeries \/ PodGone

PodSpec == PodInit /\ [][PodNext]_podVars

-----------------------------------------------------------------------------
(* Properties *)

PodTypeOK ==
    /\ gpc \in {"idle", "offer", "create", "wait", "run"}
    /\ pod \in Pods \cup {NoPod}
    /\ ssh \in BOOLEAN
    /\ {billed, known, refused, dropped} \subseteq SUBSET Pods
    /\ specs \in 0..MaxSpecs

\* A pod that bills and that the program does not hold is one it was never
\* told of, one whose deletion failed, or one whose wait an exception ended and
\* that was replaced since (providers.py:567-571, then 547 and 562): no other
\* path through waiting, running and failing drops a pod it could still delete.
OnlyUncertainPodsLeak ==
    billed \subseteq {pod} \cup refused \cup dropped \cup (Pods \ known)
=============================================================================
