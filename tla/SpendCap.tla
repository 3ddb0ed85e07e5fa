------------------------------ MODULE SpendCap ------------------------------
(***************************************************************************)
(* The daily spend ceiling of the web app (webapp/spendcap.py) and the     *)
(* request threads that charge it (webapp/server.py, _run_loop_thread).    *)
(* try_charge is a read-modify-write of one file under a lock of the       *)
(* process; midnight may pass, the disk may refuse the write and the       *)
(* process may die between any two of its steps.                           *)
(***************************************************************************)
EXTENDS Integers, FiniteSets

CONSTANTS Requests,   \* runs started through POST /run, one thread each
          MaxCount,   \* max_llm and max_gpu, by kind
          Unit,       \* llm_usd and gpu_usd, by kind, in the smallest unit
          UsdCap,     \* usd_cap, in the same unit
          LastDay,    \* bound on the calendar
          MaxRounds   \* bound on the proposal rounds of a run

Kinds == {"llm", "gpu"}
Days == 0..LastDay
Nobody == "nobody"

ASSUME SpendCapAssumption ==
    /\ Nobody \notin Requests
    /\ MaxCount \in [Kinds -> Nat]
    /\ Unit \in [Kinds -> Nat]
    /\ UsdCap \in Nat
    /\ LastDay \in Nat
    /\ MaxRounds \in Nat

\* What was charged: a count for each kind and the estimated dollars.
Charges == [llm : Nat, gpu : Nat, usd : Nat]
NoCharge == [llm |-> 0, gpu |-> 0, usd |-> 0]

\* A day before the calendar begins: no file yet, or one from long ago.
Never == -1

VARIABLES
    today,      \* the UTC date
    fileDay, file,  \* _spend_state.json: its date and its counters
    holder,     \* the thread inside _LOCK
    place,      \* where each request thread is
    kind,       \* what it is charging
    viewDay, view,  \* st, the record it loaded
    useLlm,     \* AI intake asked for and a key configured
    useGpu,     \* the GPU lane asked for and its probe passed
    llmOk,      \* the LLM may propose moves in this run
    rounds,     \* proposal rounds of the run so far
    written,    \* charges that reached the disk, by day
    granted,    \* charges answered allowed=True, by day
    calls       \* paid calls made, by day

disk == <<fileDay, file, written>>
request == <<useLlm, useGpu, llmOk, rounds>>
local == <<kind, viewDay, view>>
capVars == <<today, disk, holder, place, local, request, granted, calls>>

CapInit ==
    /\ today = 0
    /\ fileDay = Never
    /\ file = NoCharge
    /\ holder = Nobody
    /\ place = [r \in Requests |-> "intake"]
    /\ kind = [r \in Requests |-> "llm"]
    /\ viewDay = [r \in Requests |-> Never]
    /\ view = [r \in Requests |-> NoCharge]
    /\ useLlm \in [Requests -> BOOLEAN]
    /\ useGpu \in [Requests -> BOOLEAN]
    /\ llmOk = [r \in Requests |-> FALSE]
    /\ rounds = [r \in Requests |-> 0]
    /\ written = [d \in Days |-> NoCharge]
    /\ granted = [d \in Days |-> NoCharge]
    /\ calls = [d \in Days |-> NoCharge]

CapGoto(r, label) == place' = [place EXCEPT ![r] = label]

Count(st, k) == IF k = "llm" THEN st.llm ELSE st.gpu

\* The counters st after one more charge of kind k.
Charged(st, k) ==
    [llm |-> IF k = "llm" THEN st.llm + 1 ELSE st.llm,
     gpu |-> IF k = "gpu" THEN st.gpu + 1 ELSE st.gpu,
     usd |-> st.usd + Unit[k]]

\* Where a run goes when try_charge answers.
AfterRefusal(k) == IF k = "llm" THEN "provider" ELSE "run"
AfterGrant(k) == IF k = "llm" THEN "infer" ELSE "fanout"

-----------------------------------------------------------------------------
(* try_charge *)

\* Slip: the counter is read and written without the lock.
SlipFree == TRUE

Free == holder = Nobody

Acquire(r) ==
    /\ place[r] = "charge"
    /\ Free
    /\ holder' = r
    /\ CapGoto(r, "load")
    /\ UNCHANGED <<today, disk, local, request, granted, calls>>

\* Slip: the counters of another day are kept when the date changes.
SlipCurrent == file

\* _load: the counters of another day count for nothing today.
Current == IF fileDay = today THEN file ELSE NoCharge

Load(r) ==
    /\ place[r] = "load"
    /\ viewDay' = [viewDay EXCEPT ![r] = today]
    /\ view' = [view EXCEPT ![r] = Current]
    /\ CapGoto(r, "decide")
    /\ UNCHANGED <<today, disk, holder, kind, request, granted, calls>>

\* A file that is there and cannot be read raises, as a failed write does below.
LoadFails(r) ==
    /\ place[r] = "load"
    /\ holder' = Nobody
    /\ CapGoto(r, "done")
    /\ UNCHANGED <<today, disk, local, request, granted, calls>>

\* Slip: the ceilings are compared with the counters before the charge.
SlipAffordable(st, k) ==
    /\ Count(st, k) <= MaxCount[k]
    /\ st.usd <= UsdCap

Affordable(st, k) ==
    /\ Count(st, k) + 1 <= MaxCount[k]
    /\ st.usd + Unit[k] <= UsdCap

\* A ceiling is reached: nothing is written, the run goes on without the lane.
Refuse(r) ==
    /\ place[r] = "decide"
    /\ ~Affordable(view[r], kind[r])
    /\ holder' = Nobody
    /\ CapGoto(r, AfterRefusal(kind[r]))
    /\ UNCHANGED <<today, disk, local, request, granted, calls>>

\* _save: a temporary file of this thread replaces the state file in one step.
Save(r) ==
    /\ place[r] = "decide"
    /\ Affordable(view[r], kind[r])
    /\ fileDay' = viewDay[r]
    /\ file' = Charged(view[r], kind[r])
    /\ written' = [written EXCEPT ![viewDay[r]] = Charged(@, kind[r])]
    /\ CapGoto(r, "saved")
    /\ UNCHANGED <<today, holder, local, request, granted, calls>>

\* Slip: the failed write leaves without releasing the lock.
SlipSaveFails(r) ==
    /\ place[r] = "decide"
    /\ Affordable(view[r], kind[r])
    /\ CapGoto(r, "done")
    /\ UNCHANGED <<today, disk, holder, local, request, granted, calls>>

\* The write raises: the lock is released, the run ends with an error event.
SaveFails(r) ==
    /\ place[r] = "decide"
    /\ Affordable(view[r], kind[r])
    /\ holder' = Nobody
    /\ CapGoto(r, "done")
    /\ UNCHANGED <<today, disk, local, request, granted, calls>>

\* The lock is released and the caller hears allowed=True.
Allow(r) ==
    /\ place[r] = "saved"
    /\ holder' = Nobody
    /\ granted' = [granted EXCEPT ![viewDay[r]] = Charged(@, kind[r])]
    /\ llmOk' = [llmOk EXCEPT ![r] = @ \/ kind[r] = "llm"]
    /\ CapGoto(r, AfterGrant(kind[r]))
    /\ UNCHANGED <<today, disk, local, useLlm, useGpu, rounds, calls>>

-----------------------------------------------------------------------------
(* _run_loop_thread: intake lane, GPU lane, then the run itself *)

\* At a lane: charge it if the run wants it, go on to the next label if not.
Lane(r, label, wanted, k, next) ==
    /\ place[r] = label
    /\ \/ /\ wanted
          /\ kind' = [kind EXCEPT ![r] = k]
          /\ CapGoto(r, "charge")
       \/ ~wanted /\ CapGoto(r, next) /\ UNCHANGED kind
    /\ UNCHANGED <<today, disk, holder, viewDay, view, request, granted,
                   calls>>

Intake(r) == Lane(r, "intake", useLlm[r], "llm", "provider")
ChooseProvider(r) == Lane(r, "provider", useGpu[r], "gpu", "run")

PaidCall(k) == calls' = [calls EXCEPT ![today] = Charged(@, k)]

\* The paid intake call; a slim deployment has no intake module to call.
Infer(r) ==
    /\ place[r] = "infer"
    /\ PaidCall("llm") \/ UNCHANGED calls
    /\ CapGoto(r, "provider")
    /\ UNCHANGED <<today, disk, holder, local, request, granted>>

\* The run starts on the GPU provider.
FanOut(r) ==
    /\ place[r] = "fanout"
    /\ PaidCall("gpu")
    /\ CapGoto(r, "run")
    /\ UNCHANGED <<today, disk, holder, local, request, granted>>

\* A round of the search asks the LLM for moves; no charge is made for it.
ProposeMoves(r) ==
    /\ place[r] = "run"
    /\ llmOk[r]
    /\ rounds[r] < MaxRounds
    /\ rounds' = [rounds EXCEPT ![r] = @ + 1]
    /\ PaidCall("llm")
    /\ UNCHANGED <<today, disk, holder, place, local, useLlm, useGpu, llmOk,
                   granted>>

FinishRun(r) ==
    /\ place[r] = "run"
    /\ CapGoto(r, "done")
    /\ UNCHANGED <<today, disk, holder, local, request, granted, calls>>

-----------------------------------------------------------------------------
(* The surroundings *)

Midnight ==
    /\ today < LastDay
    /\ today' = today + 1
    /\ UNCHANGED <<disk, holder, place, local, request, granted, calls>>

\* The process dies and the container restarts it; the disk survives, the runs
\* that had begun and the lock do not.
Crash ==
    /\ holder' = Nobody
    /\ place' = [r \in Requests |->
                   IF place[r] = "intake" THEN "intake" ELSE "done"]
    /\ UNCHANGED <<today, disk, local, request, granted, calls>>

CapThread(r) ==
    \/ Acquire(r)
    \/ Load(r)
    \/ LoadFails(r)
    \/ Refuse(r)
    \/ Save(r)
    \/ SaveFails(r)
    \/ Allow(r)
    \/ Intake(r)
    \/ ChooseProvider(r)
    \/ Infer(r)
    \/ FanOut(r)
    \/ ProposeMoves(r)
    \/ FinishRun(r)

CapNext == (\E r \in Requests : CapThread(r)) \/ Midnight \/ Crash

\* Every request thread keeps running; days need not pass, nor crashes happen.
CapSpec ==
    /\ CapInit
    /\ [][CapNext]_capVars
    /\ \A r \in Requests : WF_capVars(CapThread(r))

-----------------------------------------------------------------------------
(* Properties *)

InLock == {"load", "decide", "saved"}
CapLabels == {"intake", "provider", "charge", "infer", "fanout", "run", "done"}
              \union InLock

CapTypeOK ==
    /\ today \in Days
    /\ fileDay \in Days \union {Never}
    /\ file \in Charges
    /\ holder \in Requests \union {Nobody}
    /\ place \in [Requests -> CapLabels]
    /\ kind \in [Requests -> Kinds]
    /\ viewDay \in [Requests -> Days \union {Never}]
    /\ \A r \in Requests :
          place[r] \in {"decide", "saved"} => viewDay[r] \in Days
    /\ view \in [Requests -> Charges]
    /\ {useLlm, useGpu, llmOk} \subseteq [Requests -> BOOLEAN]
    /\ rounds \in [Requests -> 0..MaxRounds]
    /\ {written, granted, calls} \subseteq [Days -> Charges]

Within(charges) ==
    /\ \A k \in Kinds : Count(charges, k) <= MaxCount[k]
    /\ charges.usd <= UsdCap

\* Of all the charges allowed on a day, by any threads and across restarts, no
\* count and no dollar ceiling is exceeded (spendcap.py: threads cannot
\* double-spend).
GrantsWithinCaps == \A d \in Days : Within(granted[d])

\* What a caller was told is allowed is on disk for as long as its day's record
\* is, so a restart never hands the same budget out again.
GrantIsDurable ==
    fileDay \in Days =>
        /\ \A k \in Kinds : Count(granted[fileDay], k) <= Count(file, k)
        /\ granted[fileDay].usd <= file.usd

\* A lane is refused only when the charges written on that very day leave no
\* room for one more: neither yesterday's spending nor another thread's
\* unfinished charge degrades a run.
RefusalIsHonest ==
    [][\A r \in Requests :
          place[r] = "decide" /\ place'[r] = AfterRefusal(kind[r]) =>
              LET w == written[viewDay[r]]
              IN  \/ Count(w, kind[r]) >= MaxCount[kind[r]]
                  \/ w.usd + Unit[kind[r]] > UsdCap]_capVars

\* No charge waits for ever: the lock is released on every path out of it.
EveryChargeReturns ==
    \A r \in Requests :
        place[r] = "charge" ~>
            place[r] \in {"infer", "fanout", "provider", "run", "done"}

\* DEPLOY.md counts every GPU run and LLM call against the daily ceilings; the
\* calls the proposer makes in each round are not charged.
CallsWithinCaps == \A d \in Days : Within(calls[d])
=============================================================================
