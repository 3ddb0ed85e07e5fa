-------------------------- MODULE Backends_proofs ---------------------------
(***************************************************************************)
(* The compute providers for every budget, every pace of an endpoint and   *)
(* every number of retries, pods and jobs; the registry of served models for *)
(* every set of versions; the executor and the sandboxes for every order of *)
(* their steps; and the types of all parts that MCBackends puts together.  *)
(***************************************************************************)
EXTENDS MCBackends, PeekLedger_proofs, Ledgers_proofs, TLAPS

-----------------------------------------------------------------------------
(* Serverless jobs *)

States == {"runs", "completed", "broken"}

Typed ==
    /\ rpc \in {"loop", "poll", "failed", "over"}
    /\ now \in Nat /\ expiry \in Nat /\ attempt \in Nat
    /\ jobs \in Seq(States)
    /\ polled \in 0..Len(jobs)
    /\ output \in -1..Len(jobs)

\* One job a transient failure, and one for the attempt under way.
Posted ==
    /\ attempt <= MaxRetries
    /\ Len(jobs) <= attempt + (IF rpc = "loop" THEN 0 ELSE 1)

\* An attempt begins within the budget and is given what is left of it, to be
\* counted from the end of its post.
Timed ==
    /\ rpc = "loop" => now <= Budget
    /\ expiry <= Budget + PostTime
    /\ OverrunIsOneExchange

RemoteInv == Typed /\ Posted /\ Timed

LEMMA Constants ==
    /\ Budget \in Nat /\ PostTime \in Nat /\ PollTime \in Nat /\ Pause \in Nat
    /\ MaxRetries \in Nat
  BY RemoteJobsAssumption DEF RemoteJobsAssumption

LEMMA PostedJob ==
    ASSUME NEW s \in Seq(States)
    PROVE  /\ Append(s, "runs") \in Seq(States)
           /\ Len(Append(s, "runs")) = Len(s) + 1
           /\ Len(s) \in Nat
  BY DEF States

LEMMA InitRemote == RemoteInit => RemoteInv
  BY Constants
  DEF RemoteInit, RemoteInv, Typed, Posted, Timed, OverrunIsOneExchange

LEMMA StepRemote == RemoteInv /\ [RemoteNext]_remoteVars => RemoteInv'
  <1> SUFFICES ASSUME RemoteInv, [RemoteNext]_remoteVars PROVE RemoteInv'
    OBVIOUS
  <1> USE Constants
  <1>t. Typed /\ Posted /\ Timed /\ Len(jobs) \in Nat
    BY DEF RemoteInv, Typed
  <1>1. CASE OutOfBudget
    BY <1>t, <1>1
    DEF OutOfBudget, Raises, RemoteInv, Typed, Posted, Timed,
        OverrunIsOneExchange
  <1>2. CASE Post
    <2>1. PICK d \in 0..PostTime :
            now' = now + d /\ expiry' = now + d + Remaining
      BY <1>2 DEF Post
    <2>2. /\ rpc = "loop" /\ now < Budget /\ rpc' = "poll"
          /\ jobs' = Append(jobs, "runs") /\ polled' = Len(jobs')
          /\ attempt' = attempt /\ output' = output
      BY <1>2 DEF Post
    <2>3. now' \in Nat /\ expiry' \in Nat /\ expiry' <= Budget + PostTime
          /\ now' <= Budget + PostTime
      BY <1>t, <2>1, <2>2 DEF Typed, Remaining
    <2>4. jobs' \in Seq(States) /\ Len(jobs') = Len(jobs) + 1
      BY <1>t, <2>2, PostedJob DEF Typed
    <2>5. Typed'
      BY <1>t, <2>2, <2>3, <2>4 DEF Typed
    <2>6. Posted'
      BY <1>t, <2>2, <2>4 DEF Posted, Typed
    <2>7. Timed'
      BY <2>2, <2>3 DEF Timed, OverrunIsOneExchange
    <2> QED
      BY <2>5, <2>6, <2>7 DEF RemoteInv
  <1>3. CASE PostFails
    <2>1. PICK d \in 0..PostTime : now' = now + d
      BY <1>3 DEF PostFails
    <2>2. /\ rpc = "loop" /\ now < Budget /\ polled' = 0
          /\ expiry' = expiry /\ attempt' = attempt
          /\ rpc' \in {"over", "failed"}
          /\ output' = -1 \/ output' = output
          /\ jobs' = jobs \/ jobs' = Append(jobs, "runs")
      BY <1>3 DEF PostFails, Raises
    <2>3. now' \in Nat /\ now' <= Budget + PostTime
      BY <1>t, <2>1, <2>2 DEF Typed
    <2>4. /\ jobs' \in Seq(States) /\ Len(jobs') \in Nat
          /\ Len(jobs') = Len(jobs) \/ Len(jobs') = Len(jobs) + 1
      <3>1. jobs \in Seq(States)
        BY <1>t DEF Typed
      <3>2. CASE jobs' = jobs
        BY <1>t, <3>1, <3>2
      <3>3. CASE jobs' = Append(jobs, "runs")
        BY <1>t, <3>1, <3>3, PostedJob
      <3> QED
        BY <2>2, <3>2, <3>3
    <2>5. Typed'
      BY <1>t, <2>2, <2>3, <2>4 DEF Typed
    <2>6. Posted'
      BY <1>t, <2>2, <2>4 DEF Posted, Typed
    <2>7. Timed'
      BY <1>t, <2>2, <2>3 DEF Timed, OverrunIsOneExchange
    <2> QED
      BY <2>5, <2>6, <2>7 DEF RemoteInv
  <1>4. CASE Poll
    <2>1. PICK d \in 0..PollTime :
            \/ now' = now + d /\ rpc' = "over" /\ output' \in {-1, polled}
            \/ now' = now + d + Pause /\ UNCHANGED <<rpc, output>>
      BY <1>4 DEF Poll, Raises
    <2>2. /\ rpc = "poll" /\ now < expiry
          /\ UNCHANGED <<expiry, attempt, jobs, polled>>
      BY <1>4 DEF Poll
    <2>3. now' \in Nat /\ now' <= Budget + PostTime + PollTime + Pause
      BY <1>t, <2>1, <2>2 DEF Typed, Timed
    <2> QED
      BY <1>t, <2>1, <2>2, <2>3
      DEF RemoteInv, Typed, Posted, Timed, OverrunIsOneExchange
  <1>5. CASE PollFails
    <2>1. PICK d \in 0..PollTime : now' = now + d
      BY <1>5 DEF PollFails
    <2>2. /\ rpc = "poll" /\ now < expiry
          /\ \/ rpc' = "over" /\ output' = -1
             \/ rpc' = "failed" /\ output' = output
          /\ UNCHANGED <<expiry, attempt, jobs, polled>>
      BY <1>5 DEF PollFails, Raises
    <2>3. now' \in Nat /\ now' <= Budget + PostTime + PollTime + Pause
      BY <1>t, <2>1, <2>2 DEF Typed, Timed
    <2> QED
      BY <1>t, <2>2, <2>3
      DEF RemoteInv, Typed, Posted, Timed, OverrunIsOneExchange
  <1>6. CASE NotInTime
    BY <1>t, <1>6
    DEF NotInTime, Raises, RemoteInv, Typed, Posted, Timed,
        OverrunIsOneExchange
  <1>7. CASE Retry
    <2>1. Backoff \in Nat
      BY DEF Backoff
    <2>2. /\ rpc = "failed" /\ attempt < MaxRetries /\ rpc' = "loop"
          /\ now' = now + Backoff /\ Budget - now > Backoff
          /\ attempt' = attempt + 1 /\ polled' = 0
          /\ UNCHANGED <<expiry, jobs, output>>
      BY <1>7 DEF Retry
    <2>3. now' \in Nat /\ now' <= Budget
      BY <1>t, <2>1, <2>2 DEF Typed
    <2> QED
      BY <1>t, <2>2, <2>3
      DEF RemoteInv, Typed, Posted, Timed, OverrunIsOneExchange
  <1>8. CASE GiveUpJob
    BY <1>t, <1>8
    DEF GiveUpJob, Raises, RemoteInv, Typed, Posted, Timed,
        OverrunIsOneExchange
  <1>9. CASE JobEnds
    <2>1. /\ UNCHANGED <<rpc, now, expiry, attempt, polled, output>>
          /\ \E j \in 1..Len(jobs) :
               \/ jobs' = [jobs EXCEPT ![j] = "completed"]
               \/ jobs' = [jobs EXCEPT ![j] = "broken"]
      BY <1>9 DEF JobEnds
    <2>2. jobs' \in Seq(States) /\ Len(jobs') = Len(jobs)
      BY <1>t, <2>1 DEF Typed, States
    <2> QED
      BY <1>t, <2>1, <2>2
      DEF RemoteInv, Typed, Posted, Timed, OverrunIsOneExchange
  <1>10. CASE UNCHANGED remoteVars
    BY <1>t, <1>10
    DEF remoteVars, RemoteInv, Typed, Posted, Timed, OverrunIsOneExchange
  <1> QED
    BY <1>1, <1>2, <1>3, <1>4, <1>5, <1>6, <1>7, <1>8, <1>9, <1>10
    DEF RemoteNext

LEMMA RemoteInvTypes == RemoteInv => RemoteTypeOK
  <1> SUFFICES ASSUME RemoteInv PROVE RemoteTypeOK
    OBVIOUS
  <1>1. Len(jobs) \in Nat /\ Len(jobs) <= MaxRetries + 1
    BY Constants DEF RemoteInv, Typed, Posted
  <1> QED
    BY <1>1 DEF RemoteInv, Typed, RemoteTypeOK, States

\* The variables of a submission keep their types, and it posts one job more
\* than it may retry at most.
THEOREM RemoteTypeCorrect == RemoteSpec => []RemoteTypeOK
  BY InitRemote, StepRemote, RemoteInvTypes, PTL DEF RemoteSpec

\* Whatever fails and however often it is retried, the submission is over by
\* its budget and one post, one poll and one pause.
THEOREM OverrunBounded == RemoteSpec => []OverrunIsOneExchange
  BY InitRemote, StepRemote, PTL DEF RemoteSpec, RemoteInv, Timed

-----------------------------------------------------------------------------
(* Rented pods *)

\* A pod that is held between jobs, or while a new one is looked for, can be
\* reached or is one whose wait an exception ended.
Held ==
    /\ gpc = "idle" => (pod # NoPod => ssh \/ pod \in dropped)
    /\ gpc \in {"offer", "create"} => pod \in dropped \cup {NoPod}
    /\ gpc = "wait" => pod # NoPod
    /\ gpc = "run" => ssh
    /\ gpc # "idle" => specs < MaxSpecs

PodInv == PodTypeOK /\ Held /\ OnlyUncertainPodsLeak

LEMMA InitPod == PodInit => PodInv
  <1> SUFFICES ASSUME PodInit PROVE PodInv
    OBVIOUS
  <1>1. Held /\ OnlyUncertainPodsLeak
    BY DEF PodInit, Held, OnlyUncertainPodsLeak
  <1>2. specs \in 0..MaxSpecs
    BY GpuPodAssumption DEF GpuPodAssumption, PodInit
  <1>4. ssh \in BOOLEAN
    BY DEF PodInit
  <1>3. PodTypeOK
    BY <1>2, <1>4 DEF PodInit, PodTypeOK
  <1> QED
    BY <1>1, <1>3 DEF PodInv

LEMMA NewPodIsNew ==
    ASSUME Pods \ (billed \cup known) # {}
    PROVE  NewPod \in Pods /\ NewPod \notin billed \cup known
  BY Zenon DEF NewPod

\* A pod that is let go is gone, or its deletion was refused.
LEMMA TeardownPod ==
    ASSUME PodInv, Teardown, UNCHANGED <<known, dropped>>
    PROVE  /\ pod' = NoPod /\ ssh' = FALSE
           /\ billed' \subseteq Pods /\ refused' \subseteq Pods
           /\ OnlyUncertainPodsLeak'
  <1>1. /\ billed \subseteq Pods /\ refused \subseteq Pods
        /\ billed \subseteq {pod} \cup refused \cup dropped \cup (Pods \ known)
    BY DEF PodInv, PodTypeOK, OnlyUncertainPodsLeak
  <1>2. NoPod \notin Pods
    BY DEF NoPod, Pods
  <1>3. pod' = NoPod /\ ssh' = FALSE
    BY DEF Teardown
  <1>4. CASE pod = NoPod /\ UNCHANGED <<billed, refused>>
    BY <1>1, <1>3, <1>4 DEF OnlyUncertainPodsLeak
  <1>5. CASE pod # NoPod /\ billed' = billed \ {pod} /\ UNCHANGED refused
    BY <1>1, <1>3, <1>5 DEF OnlyUncertainPodsLeak
  <1>6. CASE /\ pod \in billed /\ refused' = refused \cup {pod}
             /\ UNCHANGED billed
    BY <1>1, <1>3, <1>6 DEF OnlyUncertainPodsLeak
  <1> QED
    BY <1>3, <1>4, <1>5, <1>6 DEF Teardown

LEMMA StepPod == PodInv /\ [PodNext]_podVars => PodInv'
  <1> SUFFICES ASSUME PodInv, [PodNext]_podVars PROVE PodInv'
    OBVIOUS
  <1>t. /\ PodTypeOK /\ Held /\ OnlyUncertainPodsLeak /\ NoPod \notin Pods
        /\ billed \subseteq Pods /\ known \subseteq Pods
        /\ refused \subseteq Pods /\ dropped \subseteq Pods
        /\ MaxSpecs \in Nat
    BY GpuPodAssumption DEF GpuPodAssumption, PodInv, PodTypeOK, NoPod, Pods
  <1>1. CASE NeedPod
    BY <1>t, <1>1
    DEF NeedPod, PodInv, PodTypeOK, Held, OnlyUncertainPodsLeak
  <1>2. CASE FindOffer
    BY <1>t, <1>2
    DEF FindOffer, PodInv, PodTypeOK, Held, OnlyUncertainPodsLeak
  <1>3. CASE CreatePod
    <2>1. NewPod \in Pods /\ pod \in dropped \cup {NoPod}
      BY <1>t, <1>3, NewPodIsNew DEF CreatePod, Held
    <2>2. /\ pod' = NewPod /\ billed' = billed \cup {NewPod}
          /\ known' = known \cup {NewPod} /\ gpc' = "wait"
          /\ UNCHANGED <<ssh, refused, dropped, specs>>
      BY <1>3 DEF CreatePod
    <2>3. OnlyUncertainPodsLeak'
      BY <1>t, <2>1, <2>2 DEF OnlyUncertainPodsLeak
    <2>4. Held'
      BY <1>t, <1>3, <2>1, <2>2 DEF CreatePod, Held
    <2>5. PodTypeOK'
      <3>1. pod' \in Pods /\ billed' \subseteq Pods /\ known' \subseteq Pods
        BY <1>t, <2>1, <2>2
      <3> QED
        BY <1>t, <2>2, <3>1 DEF PodTypeOK
    <2> QED
      BY <2>3, <2>4, <2>5 DEF PodInv
  <1>4. CASE CreateFails
    <2>1. NewPod \in Pods /\ NewPod \notin known
      BY <1>4, NewPodIsNew DEF CreateFails
    <2>2. /\ billed' = billed \/ billed' = billed \cup {NewPod}
          /\ pod' \in {pod, NoPod} /\ gpc' = "idle"
          /\ pod \in dropped \cup {NoPod}
          /\ UNCHANGED <<ssh, known, refused, dropped, specs>>
      BY <1>t, <1>4 DEF CreateFails, Held
    <2>3. OnlyUncertainPodsLeak'
      BY <1>t, <2>1, <2>2 DEF OnlyUncertainPodsLeak
    <2> QED
      BY <1>t, <2>1, <2>2, <2>3 DEF PodInv, PodTypeOK, Held
  <1>5. CASE PodActive
    BY <1>t, <1>5
    DEF PodActive, PodInv, PodTypeOK, Held, OnlyUncertainPodsLeak
  <1>6. ASSUME Teardown, UNCHANGED <<known, dropped, specs>>, gpc' = "idle"
        PROVE  PodInv'
    BY <1>t, <1>6, TeardownPod DEF PodInv, PodTypeOK, Held
  <1>7. CASE PodFails
    BY <1>6, <1>7 DEF PodFails, GiveUpPod
  <1>8. CASE EndSeries
    BY <1>6, <1>8 DEF EndSeries
  <1>12. CASE WaitRaises
    <2>1. /\ dropped' = dropped \cup {pod} /\ gpc' = "idle"
          /\ UNCHANGED <<pod, ssh, billed, known, refused, specs>>
      BY <1>12 DEF WaitRaises
    <2>2. Held'
      BY <2>1 DEF Held
    <2>3. OnlyUncertainPodsLeak'
      BY <1>t, <2>1 DEF OnlyUncertainPodsLeak
    <2>4. pod # NoPod
      BY <1>t, <1>12 DEF WaitRaises, Held
    <2>5. dropped' \subseteq Pods
      BY <1>t, <2>1, <2>4 DEF PodTypeOK
    <2> QED
      BY <1>t, <2>1, <2>2, <2>3, <2>5 DEF PodInv, PodTypeOK
  <1>9. CASE RunSpec
    BY <1>t, <1>9
    DEF RunSpec, PodInv, PodTypeOK, Held, OnlyUncertainPodsLeak
  <1>10. CASE PodGone
    BY <1>t, <1>10
    DEF PodGone, PodInv, PodTypeOK, Held, OnlyUncertainPodsLeak
  <1>11. CASE UNCHANGED podVars
    BY <1>t, <1>11
    DEF podVars, PodInv, PodTypeOK, Held, OnlyUncertainPodsLeak
  <1> QED
    BY <1>1, <1>2, <1>3, <1>4, <1>5, <1>7, <1>8, <1>9, <1>10, <1>11,
       <1>12
    DEF PodNext

\* However many pods are rented and whatever requests fail or waits raise, a pod
\* that bills and is not held is one nobody was told of, one whose deletion
\* failed, or one whose wait an exception ended and that was replaced.
THEOREM PodsAccountedFor == PodSpec => []OnlyUncertainPodsLeak
  BY InitPod, StepPod, PTL DEF PodSpec, PodInv

-----------------------------------------------------------------------------
(* Sandboxes *)

\* What has arrived belongs to what the candidate came to, and a child that is
\* still at work or within its answer has not delivered one.
SandboxInv ==
    /\ SandboxTypeOK
    /\ AnswersAreWhole
    /\ child \in {"works", "stuck"} => channel = "empty" /\ found = "none"
    /\ child = "answers" => channel \in {"empty", "part"}
    /\ child \in {"answers", "leaves"} => found # "none"
    /\ child = "leaves" => channel = found
    /\ caller = "back" => child = "gone"
    /\ channel = "ok" => found = "ok" /\ child \in {"leaves", "gone"}
    /\ channel = "error" /\ found = "ok" => cut
    /\ channel = "mixed" => cut /\ way = "pipe" /\ child = "gone"
    /\ child = "gone" /\ channel \in {"empty", "part"} => cut \/ killed
    /\ killed => caller = "back" /\ given \in {"error", "raised"}
    /\ caller # "back" => given = "none"
    /\ channel = "odd" => found = "odd" /\ child \in {"leaves", "gone"}
    /\ channel = "noise" \/ found = "odd" \/ garbled => way = "stdout"

LEMMA InitSandbox == SandboxInit => SandboxInv
  BY DEF SandboxInit, SandboxInv, SandboxTypeOK, AnswersAreWhole

LEMMA StepSandbox == SandboxInv /\ [SandboxNext]_sandboxVars => SandboxInv'
  <1> SUFFICES ASSUME SandboxInv, [SandboxNext]_sandboxVars
               PROVE  SandboxInv'
    OBVIOUS
  <1> USE DEF SandboxInv, SandboxTypeOK, AnswersAreWhole
  <1>1. CASE Compute
    BY <1>1 DEF Compute
  <1>2. CASE AnswerInPart
    BY <1>2 DEF AnswerInPart
  <1>3. CASE Answer
    BY <1>3 DEF Answer
  <1>4. CASE Leave
    BY <1>4 DEF Leave
  <1>5. CASE FillOutput
    BY <1>5 DEF FillOutput
  <1>6. CASE CpuLimit
    BY <1>6 DEF CpuLimit
  <1>7. CASE ChildDies
    BY <1>7 DEF ChildDies
  <1>8. CASE Wake
    BY <1>8 DEF Wake
  <1>9. CASE KillChild
    BY <1>9 DEF KillChild, Undecodable
  <1>10. CASE ReadAnswer
    BY <1>10 DEF ReadAnswer, Answers, WholeAnswer, Undecodable
  <1>11. CASE UNCHANGED sandboxVars
    BY <1>11 DEF sandboxVars
  <1>12. CASE PrintBytes
    BY <1>12 DEF PrintBytes
  <1> QED
    BY <1>1, <1>2, <1>3, <1>4, <1>5, <1>6, <1>7, <1>8, <1>9, <1>10, <1>11,
       <1>12
    DEF SandboxNext

\* Whatever stops the child and whenever, predictions are whole when they are
\* taken; they are lost, and the call raises, only for the reasons named, which
\* on the output's way include predictions or bytes the caller cannot read.
THEOREM AnswersWhole == SandboxSpec => []AnswersAreWhole
  <1>1. SandboxInv => AnswersAreWhole
    BY DEF SandboxInv
  <1> QED
    BY <1>1, InitSandbox, StepSandbox, PTL DEF SandboxSpec

-----------------------------------------------------------------------------
(* The executor *)

\* The status of a job that has ended is final unless the mark came after it;
\* only an error or a wait that is over makes it "failed".
AsyncInv ==
    /\ tpc \in {"none", "runs", "status", "field", "ended"}
    /\ outcome \in {"none", "value", "error"}
    /\ tpc \in {"none", "runs"} <=> outcome = "none"
    /\ spc = "start" => tpc = "none"
    /\ spc \in {"start", "mark"} => marked = FALSE /\ inTime = FALSE
    /\ Written => marked = TRUE \/ status \in Final
    /\ inTime = TRUE => Written
    /\ answer = "none" <=> spc # "back"
    /\ status = "failed" /\ answer = "none" => outcome = "error"
    /\ spc = "write" \/ answer = "failed" =>
         outcome = "error" \/ inTime = FALSE \/ marked = TRUE

LEMMA InitAsync == AsyncInit => AsyncInv
  BY DEF AsyncInit, AsyncInv, Written, Final

LEMMA StepAsync == AsyncInv /\ [AsyncNext]_asyncVars => AsyncInv'
  <1> SUFFICES ASSUME AsyncInv, [AsyncNext]_asyncVars PROVE AsyncInv'
    OBVIOUS
  <1> USE DEF AsyncInv, Written, Final
  <1>1. CASE StartThread
    BY <1>1 DEF StartThread
  <1>2. CASE MarkRunning
    BY <1>2 DEF MarkRunning
  <1>3. CASE PollJob
    BY <1>3 DEF PollJob
  <1>4. CASE WaitExpires
    BY <1>4 DEF WaitExpires
  <1>5. CASE LastLook
    BY <1>5 DEF LastLook, Overdue
  <1>6. CASE WriteTimeout
    BY <1>6 DEF WriteTimeout
  <1>7. CASE FunctionEnds
    BY <1>7 DEF FunctionEnds
  <1>8. CASE WriteStatus
    BY <1>8 DEF WriteStatus
  <1>9. CASE WriteField
    BY <1>9 DEF WriteField
  <1>10. CASE UNCHANGED asyncVars
    BY <1>10 DEF asyncVars
  <1> QED
    BY <1>1, <1>2, <1>3, <1>4, <1>5, <1>6, <1>7, <1>8, <1>9, <1>10
    DEF AsyncNext

\* A value that was there in time is never reported as a timeout, unless
\* submit's late mark has hidden it.
THEOREM ValuesSeenInTime == AsyncSpec => []EndedInTimeIsSeen
  <1>1. AsyncInv => EndedInTimeIsSeen
    BY DEF AsyncInv, EndedInTimeIsSeen
  <1> QED
    BY <1>1, InitAsync, StepAsync, PTL DEF AsyncSpec

-----------------------------------------------------------------------------
(* Served models *)

\* CURRENT is pointed only at versions whose model is complete.
ServeInv ==
    /\ ServeTypeOK
    /\ \A v \in Versions : reg[v] \in {"point", "emptied"} => v \in models
    /\ StaysServed

LEMMA InitServe == ServeInit => ServeInv
  BY DEF ServeInit, ServeInv, ServeTypeOK, StaysServed

LEMMA StepServe == ServeInv /\ [ServeNext]_serveVars => ServeInv'
  <1> SUFFICES ASSUME ServeInv, [ServeNext]_serveVars PROVE ServeInv'
    OBVIOUS
  <1> USE ModelServingAssumption
      DEF ServeInv, ServeTypeOK, StaysServed, Serves, Rewriting, At
  <1>1. ASSUME NEW v \in Versions, MakeVersion(v) PROVE ServeInv'
    BY <1>1 DEF MakeVersion
  <1>2. ASSUME NEW v \in Versions, WriteModel(v) PROVE ServeInv'
    BY <1>2 DEF WriteModel, Pickled
  <1>3. ASSUME NEW v \in Versions, EmptyCurrent(v) PROVE ServeInv'
    BY <1>3 DEF EmptyCurrent
  <1>4. ASSUME NEW v \in Versions, WriteCurrent(v) PROVE ServeInv'
    BY <1>4 DEF WriteCurrent
  <1>5. ASSUME NEW v \in Versions, RegistrationDies(v) PROVE ServeInv'
    BY <1>5 DEF RegistrationDies, Registering
  <1>6. CASE Rollback
    BY <1>6 DEF Rollback
  <1>7. CASE FinishRollback
    BY <1>7 DEF FinishRollback
  <1>8. CASE RollbackDies
    BY <1>8 DEF RollbackDies
  <1>9. CASE UNCHANGED serveVars
    BY <1>9 DEF serveVars
  <1> QED
    BY <1>1, <1>2, <1>3, <1>4, <1>5, <1>6, <1>7, <1>8, <1>9 DEF ServeNext

\* Once a registration has returned, a model is served whatever is registered
\* or rolled back beside it, but for the gaps the property names.
THEOREM ModelStaysServed == ServeSpec => []StaysServed
  <1>1. ServeInv => StaysServed
    BY DEF ServeInv
  <1> QED
    BY <1>1, InitServe, StepServe, PTL DEF ServeSpec

-----------------------------------------------------------------------------
(* The back ends as a whole *)

LEMMA AsyncTypeStep == AsyncTypeOK /\ [AsyncNext]_asyncVars => AsyncTypeOK'
  <1> SUFFICES ASSUME AsyncTypeOK, [AsyncNext]_asyncVars PROVE AsyncTypeOK'
    OBVIOUS
  <1>w. Written \in BOOLEAN
    BY DEF Written
  <1>1. CASE MarkRunning \/ WaitExpires
    BY <1>w, <1>1 DEF AsyncTypeOK, MarkRunning, WaitExpires, Final
  <1>2. CASE StartThread \/ PollJob \/ LastLook \/ WriteTimeout
    BY <1>2 DEF AsyncTypeOK, StartThread, PollJob, LastLook, WriteTimeout,
                Overdue, Final
  <1>3. CASE FunctionEnds \/ WriteStatus
    BY <1>3 DEF AsyncTypeOK, FunctionEnds, WriteStatus, Final
  <1>4. CASE WriteField
    BY <1>4 DEF AsyncTypeOK, WriteField
  <1>5. CASE UNCHANGED asyncVars
    BY <1>5 DEF AsyncTypeOK, asyncVars
  <1> QED
    BY <1>1, <1>2, <1>3, <1>4, <1>5 DEF AsyncNext

LEMMA AsyncTyped == AsyncSpec => []AsyncTypeOK
  <1>1. AsyncInit => AsyncTypeOK
    BY DEF AsyncInit, AsyncTypeOK
  <1> QED
    BY <1>1, AsyncTypeStep, PTL DEF AsyncSpec

LEMMA OthersTyped ==
    /\ LogSpec => []LogTypeOK
    /\ PodSpec => []PodTypeOK
    /\ ServeSpec => []ServeTypeOK
    /\ SandboxSpec => []SandboxTypeOK
  <1>1. LogSpec => []LogTypeOK
    BY LogKept, KeptImplies, PTL
  <1>2. PodSpec => []PodTypeOK
    BY InitPod, StepPod, PTL DEF PodSpec, PodInv
  <1>3. ServeInv => ServeTypeOK
    BY DEF ServeInv
  <1>4. ServeSpec => []ServeTypeOK
    BY <1>3, InitServe, StepServe, PTL DEF ServeSpec
  <1>5. SandboxInv => SandboxTypeOK
    BY DEF SandboxInv
  <1>6. SandboxSpec => []SandboxTypeOK
    BY <1>5, InitSandbox, StepSandbox, PTL DEF SandboxSpec
  <1> QED
    BY <1>1, <1>2, <1>4, <1>6

\* A step of the whole is one of a part, which leaves the others as they were.
LEMMA EachPart ==
    PartSpec => /\ Spec /\ LogSpec /\ RemoteSpec /\ PodSpec /\ AsyncSpec
                /\ ServeSpec /\ SandboxSpec
  <1>1. PartInit => /\ Init /\ LogInit /\ RemoteInit /\ PodInit /\ AsyncInit
                    /\ ServeInit /\ SandboxInit
    BY DEF PartInit
  <1>2. [PartNext]_<<part, PartVars>> =>
          /\ [Next]_vars /\ [LogNext]_logVars /\ [RemoteNext]_remoteVars
          /\ [PodNext]_podVars /\ [AsyncNext]_asyncVars
          /\ [ServeNext]_serveVars /\ [SandboxNext]_sandboxVars
    BY DEF PartNext, PartVars
  <1> QED
    BY <1>1, <1>2, PTL
    DEF PartSpec, Spec, LogSpec, RemoteSpec, PodSpec, AsyncSpec, ServeSpec,
        SandboxSpec

\* Every variable of the files and of the providers keeps its type, for any
\* runs, writers, budgets, pods and versions.
THEOREM BackendsTypeCorrect == PartSpec => []BackendsTypeOK
  <1>1. /\ TypeOK /\ LogTypeOK /\ RemoteTypeOK /\ PodTypeOK /\ AsyncTypeOK
        /\ ServeTypeOK /\ SandboxTypeOK
        => BackendsTypeOK
    BY DEF BackendsTypeOK
  <1> QED
    BY <1>1, EachPart, LedgerTypeCorrect, RemoteTypeCorrect, AsyncTyped,
       OthersTyped, PTL

\* What is promised of the parts holds of the whole; of the peek ledger, when
\* one run at a time is in it.
THEOREM BackendsPromises ==
    PartSpec => /\ [](/\ AcknowledgedStay /\ OverrunIsOneExchange
                      /\ OnlyUncertainPodsLeak /\ EndedInTimeIsSeen
                      /\ StaysServed /\ AnswersAreWhole)
                /\ ~Overlap => []EveryLookPaid /\ ImplementsCounter
  BY EachPart, AcknowledgedAreKept, OverrunBounded, PodsAccountedFor,
     ValuesSeenInTime, ModelStaysServed, AnswersWhole, SerialLooksPaid,
     SerialIsCounter, PTL
=============================================================================
