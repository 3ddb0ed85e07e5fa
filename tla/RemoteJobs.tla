----------------------------- MODULE RemoteJobs -----------------------------
(***************************************************************************)
(* vfplatform/providers.py, RunPodProvider.submit_one: a job is posted to  *)
(* a serverless endpoint and its status polled; a transient failure of     *)
(* either request posts the job anew after a pause, while the first still  *)
(* runs and is billed.  Time is counted in steps of one second or more;    *)
(* the worker (worker/handler.py) turns its own exceptions into an output  *)
(* with an error in it.                                                    *)
(***************************************************************************)
EXTENDS Integers, Sequences

CONSTANTS Budget,      \* timeout, the overall budget
          PostTime,    \* the longest a post takes (60 s)
          PollTime,    \* the longest a poll of the status takes (30 s)
          Pause,       \* poll, the pause between two polls (5 s)
          MaxRetries   \* max_retries

ASSUME RemoteJobsAssumption ==
    /\ {Budget, PostTime, PollTime, Pause} \subseteq Nat
    /\ MaxRetries \in Nat

VARIABLES
    rpc,       \* where submit_one is
    now,       \* seconds since it began
    expiry,    \* the deadline of the attempt, in _submit_once
    attempt,   \* transient failures that were retried
    jobs,      \* the state of each job at the endpoint, in the order posted
    polled,    \* the job this attempt polls, or 0
    output     \* the job whose output is returned, 0 before, -1 if it raises

remoteVars == <<rpc, now, expiry, attempt, jobs, polled, output>>

RemoteInit ==
    /\ rpc = "loop"
    /\ now = 0
    /\ expiry = 0
    /\ attempt = 0
    /\ jobs = <<>>
    /\ polled = 0
    /\ output = 0

Raises == rpc' = "over" /\ output' = -1

-----------------------------------------------------------------------------
(* submit_one and _submit_once *)

OutOfBudget ==
    /\ rpc = "loop"
    /\ now >= Budget
    /\ Raises
    /\ UNCHANGED <<now, expiry, attempt, jobs, polled>>

\* Slip: every attempt is given the whole budget.
SlipRemaining == Budget

Remaining == Budget - now

\* The post is answered with the id of a job.
Post ==
    /\ rpc = "loop"
    /\ now < Budget
    /\ \E d \in 0..PostTime :
         /\ now' = now + d
         /\ expiry' = now + d + Remaining
    /\ jobs' = Append(jobs, "runs")
    /\ polled' = Len(jobs')
    /\ rpc' = "poll"
    /\ UNCHANGED <<attempt, output>>

\* The post fails: refused for good (a bad key, a missing endpoint, an answer
\* without an id), or for now, and then the job may have been taken.
PostFails ==
    /\ rpc = "loop"
    /\ now < Budget
    /\ \E d \in 0..PostTime : now' = now + d
    /\ \/ Raises /\ UNCHANGED jobs
       \/ /\ rpc' = "failed"
          /\ jobs' \in {jobs, Append(jobs, "runs")}
          /\ UNCHANGED output
    /\ polled' = 0
    /\ UNCHANGED <<expiry, attempt>>

\* The status of the job: its output, the worker's error or the job's own
\* failure, or nothing yet.
Poll ==
    /\ rpc = "poll"
    /\ now < expiry
    /\ \E d \in 0..PollTime :
         \/ /\ jobs[polled] = "completed"
            /\ rpc' = "over"
            /\ output' = polled
            /\ now' = now + d
         \/ /\ jobs[polled] = "broken"
            /\ Raises
            /\ now' = now + d
         \/ /\ jobs[polled] = "runs"
            /\ now' = now + d + Pause
            /\ UNCHANGED <<rpc, output>>
    /\ UNCHANGED <<expiry, attempt, jobs, polled>>

\* The poll fails: for good, or for now.
PollFails ==
    /\ rpc = "poll"
    /\ now < expiry
    /\ \E d \in 0..PollTime : now' = now + d
    /\ Raises \/ (rpc' = "failed" /\ UNCHANGED output)
    /\ UNCHANGED <<expiry, attempt, jobs, polled>>

NotInTime ==
    /\ rpc = "poll"
    /\ now >= expiry
    /\ Raises
    /\ UNCHANGED <<now, expiry, attempt, jobs, polled>>

Backoff == IF attempt >= 2 THEN 4 ELSE IF attempt = 1 THEN 2 ELSE 1

\* After a transient failure: retries used up, no time left for the pause, or
\* another attempt.
Retry ==
    /\ rpc = "failed"
    /\ attempt < MaxRetries
    /\ Budget - now > Backoff
    /\ now' = now + Backoff
    /\ attempt' = attempt + 1
    /\ polled' = 0
    /\ rpc' = "loop"
    /\ UNCHANGED <<expiry, jobs, output>>

GiveUpJob ==
    /\ rpc = "failed"
    /\ attempt >= MaxRetries \/ Budget - now <= Backoff
    /\ Raises
    /\ UNCHANGED <<now, expiry, attempt, jobs, polled>>

-----------------------------------------------------------------------------
(* The endpoint *)

JobEnds ==
    /\ rpc # "over"
    /\ \E j \in 1..Len(jobs) :
         /\ jobs[j] = "runs"
         /\ jobs' = [jobs EXCEPT ![j] = "completed"]
            \/ jobs' = [jobs EXCEPT ![j] = "broken"]
    /\ UNCHANGED <<rpc, now, expiry, attempt, polled, output>>

RemoteNext ==
    \/ OutOfBudget \/ Post \/ PostFails \/ Poll \/ PollFails \/ NotInTime
    \/ Retry \/ GiveUpJob \/ JobEnds

RemoteSpec == RemoteInit /\ [][RemoteNext]_remoteVars

-----------------------------------------------------------------------------
(* Properties *)

RemoteTypeOK ==
    /\ rpc \in {"loop", "poll", "failed", "over"}
    /\ {now, expiry, attempt} \subseteq Nat
    /\ jobs \in Seq({"runs", "completed", "broken"})
    /\ Len(jobs) <= MaxRetries + 1
    /\ polled \in 0..Len(jobs)
    /\ output \in -1..Len(jobs)

\* However requests fail and are retried, a submission is over by the budget
\* and one post, one poll and one pause: the time an attempt is given shrinks
\* with every retry.
OverrunIsOneExchange == now <= Budget + PostTime + PollTime + Pause
=============================================================================
