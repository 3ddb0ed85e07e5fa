------------------------------ MODULE AsyncJobs ------------------------------
(***************************************************************************)
(* attestra/execution/parallel.py, AsyncExecutor.submit_and_wait: submit   *)
(* starts a thread that runs a job and writes its outcome, field by field, *)
(* into the AsyncJob that submit itself and a wait that times out write    *)
(* into as well.  Nothing is locked; wait returns the shared object.       *)
(***************************************************************************)

VARIABLES
    spc,      \* submit and wait: "start", "mark", "poll", "expired", "write"
              \* or "back"
    tpc,      \* the thread: "none", "runs", "status", "field" or "ended"
    outcome,  \* how the function ended: "none", "value" or "error"
    status,   \* job.status
    field,    \* job.result or job.error as the thread wrote it is there
    answer,   \* the status wait returned with, "none" before
    marked,   \* submit's mark came after the thread had written its status
    inTime    \* the thread had written its status when wait's time was over

asyncVars == <<spc, tpc, outcome, status, field, answer, marked, inTime>>

AsyncInit ==
    /\ spc = "start"
    /\ tpc = "none"
    /\ outcome = "none"
    /\ status = "pending"
    /\ field = FALSE
    /\ answer = "none"
    /\ marked = FALSE
    /\ inTime = FALSE

Final == {"completed", "failed"}
Written == tpc \in {"field", "ended"}

-----------------------------------------------------------------------------
(* submit and wait *)

StartThread ==
    /\ spc = "start"
    /\ tpc' = "runs"
    /\ spc' = "mark"
    /\ UNCHANGED <<outcome, status, field, answer, marked, inTime>>

\* thread.start() has returned; the job may be over.
MarkRunning ==
    /\ spc = "mark"
    /\ status' = "running"
    /\ marked' = Written
    /\ spc' = "poll"
    /\ UNCHANGED <<tpc, outcome, field, answer, inTime>>

PollJob ==
    /\ spc = "poll"
    /\ status \in Final
    /\ answer' = status
    /\ spc' = "back"
    /\ UNCHANGED <<tpc, outcome, status, field, marked, inTime>>

\* The time is over while wait sleeps between two polls.
WaitExpires ==
    /\ spc = "poll"
    /\ inTime' = Written
    /\ spc' = "expired"
    /\ UNCHANGED <<tpc, outcome, status, field, answer, marked>>

\* Slip: the job is not looked at again when the time is over.
SlipOverdue == TRUE

Overdue == status \notin Final

LastLook ==
    /\ spc = "expired"
    /\ IF Overdue
       THEN spc' = "write" /\ UNCHANGED answer
       ELSE spc' = "back" /\ answer' = status
    /\ UNCHANGED <<tpc, outcome, status, field, marked, inTime>>

WriteTimeout ==
    /\ spc = "write"
    /\ status' = "failed"
    /\ answer' = "failed"
    /\ spc' = "back"
    /\ UNCHANGED <<tpc, outcome, field, marked, inTime>>

-----------------------------------------------------------------------------
(* The thread *)

FunctionEnds ==
    /\ tpc = "runs"
    /\ outcome' \in {"value", "error"}
    /\ tpc' = "status"
    /\ UNCHANGED <<spc, status, field, answer, marked, inTime>>

WriteStatus ==
    /\ tpc = "status"
    /\ status' = IF outcome = "value" THEN "completed" ELSE "failed"
    /\ tpc' = "field"
    /\ UNCHANGED <<spc, outcome, field, answer, marked, inTime>>

WriteField ==
    /\ tpc = "field"
    /\ field' = TRUE
    /\ tpc' = "ended"
    /\ UNCHANGED <<spc, outcome, status, answer, marked, inTime>>

AsyncNext ==
    \/ StartThread \/ MarkRunning \/ PollJob \/ WaitExpires \/ LastLook
    \/ WriteTimeout \/ FunctionEnds \/ WriteStatus \/ WriteField

AsyncSpec == AsyncInit /\ [][AsyncNext]_asyncVars

-----------------------------------------------------------------------------
(* Properties *)

AsyncTypeOK ==
    /\ spc \in {"start", "mark", "poll", "expired", "write", "back"}
    /\ tpc \in {"none", "runs", "status", "field", "ended"}
    /\ outcome \in {"none", "value", "error"}
    /\ status \in {"pending", "running"} \cup Final
    /\ answer \in {"none"} \cup Final
    /\ {field, marked, inTime} \subseteq BOOLEAN

\* A job that had ended with a value when the wait's time was over is not
\* reported as timed out, except when its end fell between the start of its
\* thread and submit's own mark, which then hides it for good.
EndedInTimeIsSeen ==
    answer = "failed" /\ outcome = "value" => ~inTime \/ marked
=============================================================================
