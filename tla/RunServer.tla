----------------------------- MODULE RunServer -----------------------------
(***************************************************************************)
(* The run registry, the event streams and the cancellation of the web app *)
(* (webapp/server.py).  POST /run registers a run and starts its thread;   *)
(* the thread puts events, one result and a sentinel on the run's queue;   *)
(* GET /events takes items from that queue and writes them to a client;    *)
(* POST /cancel sets an event the engine may look at.  Every request has a *)
(* thread of its own.                                                      *)
(***************************************************************************)
EXTENDS Integers, Sequences, FiniteSets

CONSTANTS Runs,       \* runs that may be posted
          Readers,    \* connections to GET /events
          MaxEvents   \* bound on the events of a run

NoRun == "no run"

ASSUME RunServerAssumption ==
    /\ NoRun \notin Runs
    /\ MaxEvents \in Nat

NoItem == [what |-> "nothing", n |-> 0]
Verdicts == {"certified", "declined"}

VARIABLES
    record,     \* _RUNS: "none", "live", "done", or "pruned"
    old,        \* the record is more than an hour old
    stop,       \* the run's cancel Event
    obeys,      \* the engine of the run polls should_cancel
    pc,         \* where the run's thread is
    decision,   \* what the run came to
    queue,      \* the run's queue
    put,        \* how many items were put on it
    answers,    \* what POST /cancel answered for the run
    inTime,     \* a cancel was accepted before the engine's last check
    conn,       \* the run a connection streams
    alive,      \* its client still listens
    handler,    \* its thread: "idle", "open", "closed" or "ended"
    hand,       \* the item it has taken and not yet written
    got         \* what its client received

registry == <<record, old>>
run == <<stop, obeys, pc, decision>>
stream == <<queue, put>>
cancels == <<answers, inTime>>
reader == <<conn, alive, handler, hand, got>>
vars == <<registry, run, stream, cancels, reader>>

Init ==
    /\ record = [r \in Runs |-> "none"]
    /\ old = [r \in Runs |-> FALSE]
    /\ stop = [r \in Runs |-> FALSE]
    /\ obeys \in [Runs -> BOOLEAN]
    /\ pc = [r \in Runs |-> "absent"]
    /\ decision = [r \in Runs |-> "none"]
    /\ queue = [r \in Runs |-> <<>>]
    /\ put = [r \in Runs |-> 0]
    /\ answers = [r \in Runs |-> {}]
    /\ inTime = [r \in Runs |-> FALSE]
    /\ conn = [c \in Readers |-> NoRun]
    /\ alive = [c \in Readers |-> FALSE]
    /\ handler = [c \in Readers |-> "idle"]
    /\ hand = [c \in Readers |-> NoItem]
    /\ got = [c \in Readers |-> <<>>]

Goto(r, label) == pc' = [pc EXCEPT ![r] = label]

\* Slip: the newest item is taken first.
SlipPut(r, kind) ==
    /\ queue' = [queue EXCEPT ![r] = <<[what |-> kind, n |-> put[r] + 1]>> \o @]
    /\ put' = [put EXCEPT ![r] = @ + 1]

\* q.put; items are numbered in the order they are put.
Put(r, kind) ==
    /\ queue' = [queue EXCEPT ![r] = Append(@, [what |-> kind, n |-> put[r] + 1])]
    /\ put' = [put EXCEPT ![r] = @ + 1]

Decide(r, d) == decision' = [decision EXCEPT ![r] = d]

-----------------------------------------------------------------------------
(* The registry *)

\* _new_run forgets every run older than an hour, finished or not.
Post(r) ==
    /\ record[r] = "none"
    /\ record' = [q \in Runs |-> IF q = r THEN "live"
                                 ELSE IF old[q] THEN "pruned"
                                 ELSE record[q]]
    /\ Goto(r, "search")
    /\ UNCHANGED <<old, stop, obeys, decision, stream, cancels, reader>>

Age(r) ==
    /\ record[r] \in {"live", "done"}
    /\ old' = [old EXCEPT ![r] = TRUE]
    /\ UNCHANGED <<record, run, stream, cancels, reader>>

\* _cancel_run: the lookup, the answer and the event are under one lock.
Cancel(r) ==
    /\ record[r] # "none"
    /\ answers' = [answers EXCEPT ![r] = @ \union
          {CASE record[r] = "live" -> "cancelled"
             [] record[r] = "done" -> "already finished"
             [] OTHER -> "unknown run"}]
    /\ stop' = [stop EXCEPT ![r] = @ \/ record[r] = "live"]
    /\ inTime' = [inTime EXCEPT ![r] =
          @ \/ (record[r] = "live" /\ pc[r] = "search")]
    /\ UNCHANGED <<registry, obeys, pc, decision, stream, reader>>

-----------------------------------------------------------------------------
(* The run's thread *)

Emit(r) ==
    /\ pc[r] \in {"search", "late"}
    /\ put[r] < MaxEvents
    /\ Put(r, "event")
    /\ UNCHANGED <<registry, run, cancels, reader>>

\* Slip: the engine certifies without the check after its search.
SlipMustStop(r) == FALSE

MustStop(r) == stop[r] /\ obeys[r]

\* An engine that polls should_cancel stops at the next boundary.
Stops(r) ==
    /\ pc[r] = "search"
    /\ MustStop(r)
    /\ Decide(r, "cancelled")
    /\ Goto(r, "result")
    /\ UNCHANGED <<registry, stop, obeys, stream, cancels, reader>>

\* The last check is past, or the engine has none.
LastCheck(r) ==
    /\ pc[r] = "search"
    /\ ~MustStop(r)
    /\ Goto(r, "late")
    /\ UNCHANGED <<registry, stop, obeys, decision, stream, cancels, reader>>

Conclude(r) ==
    /\ pc[r] = "late"
    /\ \E d \in Verdicts : Decide(r, d)
    /\ Goto(r, "result")
    /\ UNCHANGED <<registry, stop, obeys, stream, cancels, reader>>

\* Any exception becomes an error event and an error result.
Raise(r) ==
    /\ pc[r] \in {"search", "late"}
    /\ Decide(r, "error")
    /\ Put(r, "event")
    /\ Goto(r, "result")
    /\ UNCHANGED <<registry, stop, obeys, cancels, reader>>

PutResult(r) ==
    /\ pc[r] = "result"
    /\ Put(r, "result")
    /\ Goto(r, "mark")
    /\ UNCHANGED <<registry, stop, obeys, decision, cancels, reader>>

\* Slip: the run is marked done before its result is put.
SlipMark(r) ==
    /\ pc[r] \in {"result", "mark"}
    /\ record' = [record EXCEPT ![r] = IF @ = "live" THEN "done" ELSE @]
    /\ Goto(r, IF pc[r] = "mark" THEN "sentinel" ELSE "result")
    /\ UNCHANGED <<old, stop, obeys, decision, stream, cancels, reader>>

\* _mark_done; a run that was pruned meanwhile has no record to mark.
Mark(r) ==
    /\ pc[r] = "mark"
    /\ record' = [record EXCEPT ![r] = IF @ = "live" THEN "done" ELSE @]
    /\ Goto(r, "sentinel")
    /\ UNCHANGED <<old, stop, obeys, decision, stream, cancels, reader>>

\* Slip: an exception on the way out loses the sentinel.
SlipPutDone(r) ==
    /\ pc[r] = "sentinel"
    /\ \/ Put(r, "close")
       \/ decision[r] = "error" /\ UNCHANGED stream
    /\ Goto(r, "finished")
    /\ UNCHANGED <<registry, stop, obeys, decision, cancels, reader>>

PutDone(r) ==
    /\ pc[r] = "sentinel"
    /\ Put(r, "close")
    /\ Goto(r, "finished")
    /\ UNCHANGED <<registry, stop, obeys, decision, cancels, reader>>

Thread(r) ==
    \/ Emit(r)
    \/ Stops(r)
    \/ LastCheck(r)
    \/ Conclude(r)
    \/ Raise(r)
    \/ PutResult(r)
    \/ Mark(r)
    \/ PutDone(r)

-----------------------------------------------------------------------------
(* GET /events *)

\* _get_queue finds the record of a live or a finished run; a pruned one is 404.
Connect(c, r) ==
    /\ handler[c] = "idle"
    /\ record[r] \in {"live", "done"}
    /\ conn' = [conn EXCEPT ![c] = r]
    /\ alive' = [alive EXCEPT ![c] = TRUE]
    /\ handler' = [handler EXCEPT ![c] = "open"]
    /\ UNCHANGED <<registry, run, stream, cancels, hand, got>>

\* Slip: the item stays on the queue until it has been written.
SlipTake(c) ==
    /\ handler[c] = "open"
    /\ hand[c] = NoItem
    /\ queue[conn[c]] # <<>>
    /\ hand' = [hand EXCEPT ![c] = Head(queue[conn[c]])]
    /\ UNCHANGED <<registry, run, stream, cancels, conn, alive, handler, got>>

Take(c) ==
    /\ handler[c] = "open"
    /\ hand[c] = NoItem
    /\ queue[conn[c]] # <<>>
    /\ hand' = [hand EXCEPT ![c] = Head(queue[conn[c]])]
    /\ queue' = [queue EXCEPT ![conn[c]] = Tail(@)]
    /\ UNCHANGED <<registry, run, put, cancels, conn, alive, handler, got>>

\* The item reaches the client; the sentinel is written as "close" and ends
\* the stream.
Deliver(c) ==
    /\ handler[c] = "open"
    /\ hand[c] # NoItem
    /\ alive[c]
    /\ got' = [got EXCEPT ![c] = Append(@, hand[c])]
    /\ hand' = [hand EXCEPT ![c] = NoItem]
    /\ handler' = [handler EXCEPT ![c] = IF hand[c].what = "close"
                                         THEN "closed" ELSE "open"]
    /\ UNCHANGED <<registry, run, stream, cancels, conn, alive>>

\* A write to a client that has gone loses the item, and ends the handler once
\* the connection is known to be broken.
Lose(c) ==
    /\ handler[c] = "open"
    /\ hand[c] # NoItem
    /\ ~alive[c]
    /\ hand' = [hand EXCEPT ![c] = NoItem]
    /\ handler' \in {h \in {handler, [handler EXCEPT ![c] = "ended"]} :
                        hand[c].what = "close" => h[c] = "ended"}
    /\ UNCHANGED <<registry, run, stream, cancels, conn, alive, got>>

\* The heartbeat of an empty queue finds the connection broken.
Heartbeat(c) ==
    /\ handler[c] = "open"
    /\ hand[c] = NoItem
    /\ queue[conn[c]] = <<>>
    /\ ~alive[c]
    /\ handler' = [handler EXCEPT ![c] = "ended"]
    /\ UNCHANGED <<registry, run, stream, cancels, conn, alive, hand, got>>

HangUp(c) ==
    /\ handler[c] = "open"
    /\ alive[c]
    /\ alive' = [alive EXCEPT ![c] = FALSE]
    /\ UNCHANGED <<registry, run, stream, cancels, conn, handler, hand, got>>

Handler(c) == Take(c) \/ Deliver(c) \/ Lose(c) \/ Heartbeat(c)

Next ==
    \/ \E r \in Runs : Thread(r) \/ Post(r) \/ Age(r) \/ Cancel(r)
    \/ \E c \in Readers : Handler(c) \/ HangUp(c)
    \/ \E c \in Readers, r \in Runs : Connect(c, r)

\* Run threads and handlers keep running; requests need not come.
Fairness ==
    /\ \A r \in Runs : WF_vars(Thread(r))
    /\ \A c \in Readers : WF_vars(Handler(c))

Spec == Init /\ [][Next]_vars /\ Fairness

-----------------------------------------------------------------------------
(* Properties *)

Labels == {"absent", "search", "late", "result", "mark", "sentinel", "finished"}
Items == [what : {"event", "result", "close"}, n : Nat \ {0}]

TypeOK ==
    /\ record \in [Runs -> {"none", "live", "done", "pruned"}]
    /\ {old, stop, obeys, inTime} \subseteq [Runs -> BOOLEAN]
    /\ pc \in [Runs -> Labels]
    /\ decision \in [Runs -> Verdicts \union {"none", "cancelled", "error"}]
    /\ queue \in [Runs -> Seq(Items)]
    /\ \A r \in Runs : \A i \in 1..Len(queue[r]) :
          queue[r][i].n = put[r] - Len(queue[r]) + i
    /\ put \in [Runs -> Nat]
    /\ answers \in [Runs -> SUBSET {"cancelled", "already finished",
                                    "unknown run"}]
    /\ conn \in [Readers -> Runs \union {NoRun}]
    /\ alive \in [Readers -> BOOLEAN]
    /\ handler \in [Readers -> {"idle", "open", "closed", "ended"}]
    /\ hand \in [Readers -> Items \union {NoItem}]
    /\ got \in [Readers -> Seq(Items)]

Alone(c) == \A d \in Readers \ {c} : conn[d] # conn[c]

\* However many streams read one run, each sees the run's items in their order
\* and no item is seen twice; a stream that had no other beside it and was not
\* cut misses none, and its end is the result followed by the close.
StreamsInOrder ==
    /\ \A c \in Readers : \A i, j \in 1..Len(got[c]) :
          i < j => got[c][i].n < got[c][j].n
    /\ \A c, d \in Readers :
          c # d /\ conn[c] = conn[d] /\ conn[c] # NoRun =>
              \A i \in 1..Len(got[c]), j \in 1..Len(got[d]) :
                  got[c][i].n # got[d][j].n
    /\ \A c \in Readers :
          Alone(c) /\ handler[c] = "closed" =>
              /\ Len(got[c]) = put[conn[c]]
              /\ got[c][Len(got[c])].what = "close"
              /\ got[c][Len(got[c]) - 1].what = "result"

\* A cancel accepted before the last check of an engine that polls ends the
\* run without a verdict.
CancelObeyed ==
    \A r \in Runs : inTime[r] /\ obeys[r] => decision[r] \notin Verdicts

\* "Already finished" is answered only when the result waits in the stream.
FinishedIsFinal ==
    \A r \in Runs : "already finished" \in answers[r] =>
        /\ decision[r] # "none"
        /\ pc[r] \in {"sentinel", "finished"}

\* The client of a stream of its own that stays sees the close.
OwnStreamCloses ==
    \A c \in Readers :
        handler[c] = "open" ~>
            handler[c] \in {"closed", "ended"} \/ ~Alone(c) \/ ~alive[c]
=============================================================================
