--------------------------- MODULE WebApp_proofs ----------------------------
(***************************************************************************)
(* The web server for every set of runs and of connections and any threads *)
(* that charge, ceilings and days: a cancel that comes before the last check *)
(* is obeyed, "already finished" is said of a run whose result is on its   *)
(* way, a stream is delivered in order, and no grant exceeds its ceiling.  *)
(***************************************************************************)
EXTENDS MCWebApp, TLAPS

-----------------------------------------------------------------------------
Parts ==
    /\ record \in [Runs -> {"none", "live", "done", "pruned"}]
    /\ stop \in [Runs -> BOOLEAN] /\ inTime \in [Runs -> BOOLEAN]
    /\ pc \in [Runs -> Labels]
    /\ decision \in [Runs -> Verdicts \union {"none", "cancelled", "error"}]
    /\ answers \in [Runs -> SUBSET {"cancelled", "already finished",
                                    "unknown run"}]

\* A run is registered before its thread starts and marked after its result.
Marked(r) ==
    /\ record[r] = "none" => pc[r] = "absent"
    /\ record[r] = "done" => pc[r] \in {"sentinel", "finished"}

\* A run decides once, after its search.
DecidesLate(r) ==
    /\ pc[r] \in {"absent", "search", "late"} => decision[r] = "none"
    /\ pc[r] \notin {"absent", "search", "late"} => decision[r] # "none"

\* What a cancel in time sets is seen by the last check.
Obeys(r) ==
    /\ inTime[r] => stop[r]
    /\ pc[r] = "late" => ~(inTime[r] /\ obeys[r])
    /\ inTime[r] /\ obeys[r] => decision[r] \notin Verdicts

\* The answer agrees with the record.
Answered(r) ==
    "already finished" \in answers[r] =>
        pc[r] \in {"sentinel", "finished"}

Sound(r) == Marked(r) /\ DecidesLate(r) /\ Obeys(r) /\ Answered(r)

ServerInv == Parts /\ \A r \in Runs : Sound(r)

LEMMA InitServer == Init => ServerInv
  <1> SUFFICES ASSUME Init PROVE ServerInv
    OBVIOUS
  <1>1. Parts
    BY DEF Init, Parts, Labels
  <1>2. ASSUME NEW r \in Runs PROVE Sound(r)
    <2>1. /\ record[r] = "none" /\ pc[r] = "absent" /\ decision[r] = "none"
          /\ ~inTime[r] /\ answers[r] = {}
      BY DEF Init
    <2> QED
      BY <2>1 DEF Sound, Marked, DecidesLate, Obeys, Answered
  <1> QED
    BY <1>1, <1>2 DEF ServerInv

\* A run none of whose variables changes stays sound.
LEMMA Untouched ==
    ASSUME NEW r \in Runs, Sound(r), obeys' = obeys,
           record'[r] = record[r], stop'[r] = stop[r], pc'[r] = pc[r],
           decision'[r] = decision[r], inTime'[r] = inTime[r],
           answers'[r] = answers[r]
    PROVE  Sound(r)'
  BY DEF Sound, Marked, DecidesLate, Obeys, Answered

\* A step of the thread of q that puts nothing but a label and a decision.
ThreadMoves(q, label, d) ==
    /\ pc' = [pc EXCEPT ![q] = label]
    /\ decision' = [decision EXCEPT ![q] = d]
    /\ UNCHANGED <<stop, obeys, inTime, answers>>

LEMMA MovedThread ==
    ASSUME ServerInv, NEW q \in Runs, NEW label \in Labels,
           NEW d \in Verdicts \union {"none", "cancelled", "error"},
           ThreadMoves(q, label, d),
           \/ record' = record
           \/ record' = [record EXCEPT ![q] = IF @ = "live" THEN "done" ELSE @],
           Sound(q)'
    PROVE  ServerInv'
  <1>1. Parts'
    BY DEF ServerInv, Parts, ThreadMoves
  <1>2. ASSUME NEW r \in Runs PROVE Sound(r)'
    <2>1. CASE r = q
      BY <2>1
    <2>2. CASE r # q
      BY <2>2, Untouched DEF ServerInv, Parts, ThreadMoves
    <2> QED
      BY <2>1, <2>2
  <1> QED
    BY <1>1, <1>2 DEF ServerInv

LEMMA ThreadStep ==
    ASSUME ServerInv, NEW q \in Runs, Thread(q)
    PROVE  ServerInv'
  <1>t. Parts /\ Sound(q)
    BY DEF ServerInv
  <1> USE DEF registry, run, cancels, reader, stream, Goto, Decide
  <1>1. CASE Emit(q)
    <2>1. UNCHANGED <<record, stop, obeys, pc, decision, inTime, answers>>
      BY <1>1 DEF Emit
    <2> QED
      BY <2>1, Untouched DEF ServerInv, Parts
  <1>2. CASE Stops(q)
    <2>1. /\ ThreadMoves(q, "result", "cancelled") /\ record' = record
          /\ pc[q] = "search"
      BY <1>2 DEF Stops, ThreadMoves
    <2>2. /\ pc'[q] = "result" /\ decision'[q] = "cancelled"
          /\ inTime'[q] = inTime[q] /\ stop'[q] = stop[q]
          /\ answers'[q] = answers[q] /\ record'[q] = record[q]
      BY <1>t, <2>1 DEF ThreadMoves, Parts
    <2>3. Sound(q)'
      BY <1>t, <2>1, <2>2
      DEF Sound, Marked, DecidesLate, Obeys, Answered, Verdicts
    <2> QED
      BY <2>1, <2>3, MovedThread DEF Labels
  <1>3. CASE LastCheck(q)
    <2>1. /\ ThreadMoves(q, "late", decision[q]) /\ record' = record
          /\ pc[q] = "search" /\ ~(stop[q] /\ obeys[q])
      BY <1>t, <1>3 DEF LastCheck, ThreadMoves, MustStop, Parts
    <2>2. /\ pc'[q] = "late" /\ decision'[q] = decision[q]
          /\ inTime'[q] = inTime[q] /\ stop'[q] = stop[q]
          /\ answers'[q] = answers[q] /\ record'[q] = record[q]
          /\ obeys'[q] = obeys[q]
      BY <1>t, <2>1 DEF ThreadMoves, Parts
    <2>3. Sound(q)'
      BY <1>t, <2>1, <2>2
      DEF Sound, Marked, DecidesLate, Obeys, Answered, Verdicts
    <2>4. decision[q] \in Verdicts \union {"none", "cancelled", "error"}
      BY <1>t DEF Parts
    <2> QED
      BY <2>1, <2>3, <2>4, MovedThread DEF Labels
  <1>4. CASE Conclude(q)
    <2>1. PICK d \in Verdicts : decision' = [decision EXCEPT ![q] = d]
      BY <1>4 DEF Conclude
    <2>2. /\ ThreadMoves(q, "result", d) /\ record' = record
          /\ pc[q] = "late"
      BY <1>4, <2>1 DEF Conclude, ThreadMoves
    <2>3. /\ pc'[q] = "result" /\ decision'[q] = d
          /\ inTime'[q] = inTime[q] /\ stop'[q] = stop[q]
          /\ answers'[q] = answers[q] /\ record'[q] = record[q]
          /\ obeys'[q] = obeys[q]
      BY <1>t, <2>2 DEF ThreadMoves, Parts
    <2>4. Sound(q)'
      BY <1>t, <2>2, <2>3
      DEF Sound, Marked, DecidesLate, Obeys, Answered, Verdicts
    <2> QED
      BY <2>2, <2>4, MovedThread DEF Labels
  <1>5. CASE Raise(q)
    <2>1. /\ ThreadMoves(q, "result", "error") /\ record' = record
          /\ pc[q] \in {"search", "late"}
      BY <1>5 DEF Raise, ThreadMoves
    <2>2. /\ pc'[q] = "result" /\ decision'[q] = "error"
          /\ inTime'[q] = inTime[q] /\ stop'[q] = stop[q]
          /\ answers'[q] = answers[q] /\ record'[q] = record[q]
      BY <1>t, <2>1 DEF ThreadMoves, Parts
    <2>3. Sound(q)'
      BY <1>t, <2>1, <2>2
      DEF Sound, Marked, DecidesLate, Obeys, Answered, Verdicts
    <2> QED
      BY <2>1, <2>3, MovedThread DEF Labels
  <1>6. ASSUME PutResult(q) \/ PutDone(q) PROVE ServerInv'
    <2>1. /\ \/ pc[q] = "result" /\ pc' = [pc EXCEPT ![q] = "mark"]
             \/ pc[q] = "sentinel" /\ pc' = [pc EXCEPT ![q] = "finished"]
          /\ UNCHANGED <<record, stop, obeys, decision, inTime, answers>>
      BY <1>6 DEF PutResult, PutDone
    <2>2. PICK label \in {"mark", "finished"} :
            /\ pc' = [pc EXCEPT ![q] = label]
            /\ label = "mark" => pc[q] = "result"
            /\ label = "finished" => pc[q] = "sentinel"
      BY <2>1
    <2>3. ThreadMoves(q, label, decision[q])
      BY <1>t, <2>1, <2>2 DEF ThreadMoves, Parts
    <2>4. /\ pc'[q] = label /\ decision'[q] = decision[q]
          /\ inTime'[q] = inTime[q] /\ stop'[q] = stop[q]
          /\ answers'[q] = answers[q] /\ record'[q] = record[q]
          /\ obeys'[q] = obeys[q]
      BY <1>t, <2>1, <2>2 DEF Parts
    <2>5. Sound(q)'
      BY <1>t, <2>2, <2>4
      DEF Sound, Marked, DecidesLate, Obeys, Answered, Verdicts
    <2>6. decision[q] \in Verdicts \union {"none", "cancelled", "error"}
      BY <1>t DEF Parts
    <2> QED
      BY <2>1, <2>2, <2>3, <2>5, <2>6, MovedThread DEF Labels
  <1>7. CASE Mark(q)
    <2>1. /\ pc[q] = "mark" /\ pc' = [pc EXCEPT ![q] = "sentinel"]
          /\ record' = [record EXCEPT ![q] = IF @ = "live" THEN "done" ELSE @]
          /\ UNCHANGED <<stop, obeys, decision, inTime, answers>>
      BY <1>7 DEF Mark
    <2>2. ThreadMoves(q, "sentinel", decision[q])
      BY <1>t, <2>1 DEF ThreadMoves, Parts
    <2>3. /\ pc'[q] = "sentinel" /\ decision'[q] = decision[q]
          /\ inTime'[q] = inTime[q] /\ stop'[q] = stop[q]
          /\ answers'[q] = answers[q] /\ obeys'[q] = obeys[q]
          /\ record'[q] \in {record[q], "done"}
      BY <1>t, <2>1 DEF Parts
    <2>4. Sound(q)'
      BY <1>t, <2>1, <2>3
      DEF Sound, Marked, DecidesLate, Obeys, Answered, Verdicts
    <2>5. decision[q] \in Verdicts \union {"none", "cancelled", "error"}
      BY <1>t DEF Parts
    <2> QED
      BY <2>1, <2>2, <2>4, <2>5, MovedThread DEF Labels
  <1> QED
    BY <1>1, <1>2, <1>3, <1>4, <1>5, <1>6, <1>7 DEF Thread

LEMMA PostStep == ASSUME ServerInv, NEW q \in Runs, Post(q) PROVE ServerInv'
  <1> USE DEF registry, run, cancels, reader, stream, Goto, Decide
  <1>t. Parts /\ \A r \in Runs : Sound(r)
    BY DEF ServerInv
  <1>1. /\ record[q] = "none" /\ pc' = [pc EXCEPT ![q] = "search"]
        /\ record' = [p \in Runs |-> IF p = q THEN "live"
                                     ELSE IF old[p] THEN "pruned"
                                     ELSE record[p]]
        /\ UNCHANGED <<stop, obeys, decision, inTime, answers>>
    BY DEF Post
  <1>2. Parts'
    BY <1>t, <1>1 DEF Parts, Labels
  <1>3. ASSUME NEW r \in Runs PROVE Sound(r)'
    <2>1. /\ inTime'[r] = inTime[r] /\ stop'[r] = stop[r]
          /\ answers'[r] = answers[r] /\ obeys'[r] = obeys[r]
          /\ decision'[r] = decision[r]
          /\ record'[r] = "live" \/ record'[r] = "pruned"
             \/ record'[r] = record[r]
          /\ r # q => pc'[r] = pc[r]
          /\ r = q => pc'[r] = "search" /\ pc[r] = "absent"
                      /\ record'[r] = "live"
      BY <1>t, <1>1 DEF Parts, Sound, Marked
    <2> QED
      BY <1>t, <2>1 DEF Sound, Marked, DecidesLate, Obeys, Answered
  <1> QED
    BY <1>2, <1>3 DEF ServerInv

LEMMA CancelStep ==
    ASSUME ServerInv, NEW q \in Runs, Cancel(q) PROVE ServerInv'
  <1> USE DEF registry, run, cancels, reader, stream, Goto, Decide
  <1>t. Parts /\ \A r \in Runs : Sound(r)
    BY DEF ServerInv
  <1> DEFINE reply == CASE record[q] = "live" -> "cancelled"
                        [] record[q] = "done" -> "already finished"
                        [] OTHER -> "unknown run"
  <1>1. /\ answers' = [answers EXCEPT ![q] = @ \union {reply}]
        /\ stop' = [stop EXCEPT ![q] = @ \/ record[q] = "live"]
        /\ inTime' = [inTime EXCEPT ![q] =
              @ \/ (record[q] = "live" /\ pc[q] = "search")]
        /\ UNCHANGED <<record, obeys, pc, decision>>
    BY DEF Cancel
  <1>2. /\ reply \in {"cancelled", "already finished", "unknown run"}
        /\ reply = "already finished" <=> record[q] = "done"
    BY <1>t DEF Parts
  <1> HIDE DEF reply
  <1>3. stop' \in [Runs -> BOOLEAN] /\ inTime' \in [Runs -> BOOLEAN]
    BY <1>t, <1>1, Zenon DEF Parts
  <1>4. answers' \in [Runs -> SUBSET {"cancelled", "already finished",
                                      "unknown run"}]
    BY <1>t, <1>1, <1>2 DEF Parts
  <1>5. Parts'
    BY <1>t, <1>1, <1>3, <1>4 DEF Parts
  <1>6. ASSUME NEW r \in Runs PROVE Sound(r)'
    <2>1. CASE r # q
      BY <1>t, <1>1, <2>1, Untouched DEF Parts
    <2>2. CASE r = q
      <3>1. /\ stop'[q] = (stop[q] \/ record[q] = "live")
            /\ inTime'[q] =
                 (inTime[q] \/ (record[q] = "live" /\ pc[q] = "search"))
        BY <1>t, <1>1, Zenon DEF Parts
      <3>2. /\ pc'[q] = pc[q] /\ record'[q] = record[q]
            /\ decision'[q] = decision[q] /\ obeys'[q] = obeys[q]
            /\ answers'[q] = answers[q] \union {reply}
        BY <1>t, <1>1 DEF Parts
      <3>3. /\ inTime'[q] => stop'[q]
            /\ inTime'[q] /\ pc[q] # "search" => inTime[q]
            /\ inTime'[q] => inTime[q] \/ pc[q] = "search"
        BY <1>t, <3>1, Zenon DEF Sound, Obeys
      <3>4. Obeys(q)'
        BY <1>t, <3>2, <3>3 DEF Sound, Obeys, DecidesLate, Verdicts
      <3>5. Answered(q)'
        BY <1>t, <1>2, <3>2 DEF Sound, Marked, Answered
      <3> QED
        BY <1>t, <2>2, <3>2, <3>4, <3>5 DEF Sound, Marked, DecidesLate
    <2> QED
      BY <2>1, <2>2
  <1> QED
    BY <1>5, <1>6 DEF ServerInv

LEMMA StepServer == ServerInv /\ [Next]_vars => ServerInv'
  <1> SUFFICES ASSUME ServerInv, [Next]_vars PROVE ServerInv'
    OBVIOUS
  <1> USE DEF registry, run, cancels, reader, stream
  <1>0. ASSUME UNCHANGED <<record, stop, obeys, pc, decision, inTime, answers>>
        PROVE  ServerInv'
    BY <1>0, Untouched DEF ServerInv, Parts
  <1>1. ASSUME NEW r \in Runs, Thread(r) PROVE ServerInv'
    BY <1>1, ThreadStep
  <1>2. ASSUME NEW r \in Runs, Post(r) PROVE ServerInv'
    BY <1>2, PostStep
  <1>3. ASSUME NEW r \in Runs, Age(r) PROVE ServerInv'
    BY <1>0, <1>3 DEF Age
  <1>4. ASSUME NEW r \in Runs, Cancel(r) PROVE ServerInv'
    BY <1>4, CancelStep
  <1>5. ASSUME NEW c \in Readers, Handler(c) \/ HangUp(c) PROVE ServerInv'
    BY <1>0, <1>5 DEF Handler, Take, Deliver, Lose, Heartbeat, HangUp
  <1>6. ASSUME NEW c \in Readers, NEW r \in Runs, Connect(c, r)
        PROVE  ServerInv'
    BY <1>0, <1>6 DEF Connect
  <1>7. CASE UNCHANGED vars
    BY <1>0, <1>7 DEF vars
  <1> QED
    BY <1>1, <1>2, <1>3, <1>4, <1>5, <1>6, <1>7 DEF Next

LEMMA ServerAnswers == ServerInv => CancelObeyed /\ FinishedIsFinal
  BY DEF ServerInv, Sound, Obeys, CancelObeyed, Answered, DecidesLate,
         FinishedIsFinal

\* However posts, prunings, cancels and run threads interleave, a cancel
\* accepted before the last check of an engine that polls is obeyed.
THEOREM CancelIsObeyed == Spec => []CancelObeyed
  BY ServerAnswers, InitServer, StepServer, PTL DEF Spec

\* A client that is told its run has already finished will find the result
\* in the run's stream.
THEOREM FinishedHasResult == Spec => []FinishedIsFinal
  BY ServerAnswers, InitServer, StepServer, PTL DEF Spec

-----------------------------------------------------------------------------
(* Streams *)

\* What a stream has taken off its queue and not lost: what its client has
\* received and what is on its way to it.
Seen(c) == IF hand[c] = NoItem THEN got[c] ELSE Append(got[c], hand[c])

\* How many items of a run have left its queue.
Taken(r) == put[r] - Len(queue[r])

\* Where the result and the close of a run stand among its items, once put.
ResultAt(r) == IF pc[r] \in {"mark", "sentinel"} THEN put[r]
               ELSE IF pc[r] = "finished" THEN put[r] - 1
               ELSE 0

CloseAt(r) == IF pc[r] = "finished" THEN put[r] ELSE 0

Placed(r, x) ==
    /\ x.n \in 1..put[r]
    /\ x.what = IF x.n = CloseAt(r) THEN "close"
                ELSE IF x.n = ResultAt(r) THEN "result"
                ELSE "event"

StreamTypes ==
    /\ old \in [Runs -> BOOLEAN] /\ obeys \in [Runs -> BOOLEAN]
    /\ queue \in [Runs -> Seq(Items)]
    /\ \A r \in Runs : \A i \in 1..Len(queue[r]) :
          queue[r][i].n = put[r] - Len(queue[r]) + i
    /\ put \in [Runs -> Nat]
    /\ conn \in [Readers -> Runs \union {NoRun}]
    /\ alive \in [Readers -> BOOLEAN]
    /\ handler \in [Readers -> {"idle", "open", "closed", "ended"}]
    /\ hand \in [Readers -> Items \union {NoItem}]
    /\ got \in [Readers -> Seq(Items)]

\* The items of a run are what its thread has put where, and only a stream
\* takes them.
Queued(r) ==
    /\ \A i \in 1..Len(queue[r]) : Placed(r, queue[r][i])
    /\ pc[r] \in {"mark", "sentinel"} => put[r] >= 1
    /\ pc[r] = "finished" => put[r] >= 2
    /\ Taken(r) > 0 => \E c \in Readers : conn[c] = r

\* A stream has a run from its first step on, and is closed by its last item.
Connected(c) ==
    /\ conn[c] = NoRun <=> handler[c] = "idle"
    /\ conn[c] = NoRun => got[c] = <<>> /\ hand[c] = NoItem
    /\ handler[c] = "closed" =>
         /\ alive[c]
         /\ hand[c] = NoItem
         /\ got[c] # <<>>
         /\ got[c][Len(got[c])].what = "close"

\* It holds items of its run in their order; all there are, when it is the
\* only stream and was not cut.
InOrder(c) ==
    conn[c] # NoRun =>
      /\ \A i \in 1..Len(Seen(c)) :
           Placed(conn[c], Seen(c)[i]) /\ Seen(c)[i].n <= Taken(conn[c])
      /\ \A i, j \in 1..Len(Seen(c)) :
           i < j => Seen(c)[i].n < Seen(c)[j].n
      /\ alive[c] /\ Alone(c) =>
           /\ Len(Seen(c)) = Taken(conn[c])
           /\ \A i \in 1..Len(Seen(c)) : Seen(c)[i].n = i

\* No item of a run is held by two of its streams.
Apart(c, d) ==
    conn[c] = conn[d] /\ conn[c] # NoRun =>
      \A i \in 1..Len(Seen(c)), j \in 1..Len(Seen(d)) :
        Seen(c)[i].n # Seen(d)[j].n

StreamInv ==
    /\ ServerInv /\ StreamTypes
    /\ \A r \in Runs : Queued(r)
    /\ \A c \in Readers : Connected(c) /\ InOrder(c)
    /\ \A c, d \in Readers : c # d => Apart(c, d)

LEMMA TypesSplit == TypeOK <=> Parts /\ StreamTypes
  BY DEF TypeOK, Parts, StreamTypes

LEMMA ItemNumbers ==
    /\ \A x \in Items : x.n \in Nat /\ x.n > 0 /\ x # NoItem
    /\ NoItem \notin Items
  BY DEF Items, NoItem

\* The sequence a stream holds begins with what its client has received.
LEMMA SeenExtendsGot ==
    ASSUME StreamTypes, NEW c \in Readers
    PROVE  /\ Seen(c) \in Seq(Items)
           /\ Len(got[c]) \in Nat /\ Len(Seen(c)) \in Nat
           /\ Len(got[c]) <= Len(Seen(c))
           /\ \A i \in 1..Len(got[c]) : Seen(c)[i] = got[c][i]
           /\ \A i \in 1..Len(Seen(c)) :
                Seen(c)[i] \in Items /\ Seen(c)[i].n \in Nat
           /\ hand[c] # NoItem =>
                /\ Len(Seen(c)) = Len(got[c]) + 1
                /\ Seen(c)[Len(Seen(c))] = hand[c]
                /\ hand[c] \in Items
           /\ hand[c] = NoItem => Seen(c) = got[c]
  <1>1. got[c] \in Seq(Items) /\ hand[c] \in Items \union {NoItem}
    BY DEF StreamTypes
  <1>2. CASE hand[c] = NoItem
    BY <1>1, <1>2, ItemNumbers DEF Seen
  <1>3. CASE hand[c] # NoItem
    <2>1. Seen(c) = Append(got[c], hand[c]) /\ hand[c] \in Items
      BY <1>1, <1>3 DEF Seen
    <2>2. /\ Seen(c) \in Seq(Items) /\ Len(got[c]) \in Nat
          /\ Len(Seen(c)) = Len(got[c]) + 1
          /\ Seen(c)[Len(got[c]) + 1] = hand[c]
          /\ \A i \in 1..Len(got[c]) : Seen(c)[i] = got[c][i]
      BY <1>1, <2>1
    <2>3. \A i \in 1..Len(Seen(c)) : Seen(c)[i] \in Items
      BY <2>2
    <2> QED
      BY <1>3, <2>1, <2>2, <2>3, ItemNumbers
  <1> QED
    BY <1>2, <1>3

\* The queue holds the last items put.
LEMMA TakenCounts ==
    ASSUME StreamTypes, NEW r \in Runs
    PROVE  /\ put[r] \in Nat /\ Len(queue[r]) \in Nat
           /\ queue[r] \in Seq(Items)
           /\ Taken(r) \in Nat /\ Taken(r) <= put[r]
  <1>1. put[r] \in Nat /\ queue[r] \in Seq(Items) /\ Len(queue[r]) \in Nat
    BY DEF StreamTypes
  <1>2. Len(queue[r]) > 0 => queue[r][1] \in Items
    BY <1>1
  <1>3. Len(queue[r]) > 0 => queue[r][1].n = put[r] - Len(queue[r]) + 1
    BY <1>1 DEF StreamTypes
  <1> QED
    BY <1>1, <1>2, <1>3, ItemNumbers DEF Taken

-----------------------------------------------------------------------------
(* The start *)

LEMMA InitStreams == Init => StreamInv
  <1> SUFFICES ASSUME Init PROVE StreamInv
    OBVIOUS
  <1>1. StreamTypes
    BY DEF Init, StreamTypes
  <1>2. ASSUME NEW r \in Runs PROVE Queued(r)
    BY DEF Init, Queued, Taken
  <1>3. ASSUME NEW c \in Readers PROVE Connected(c) /\ InOrder(c)
    BY DEF Init, Connected, InOrder
  <1>4. ASSUME NEW c \in Readers, NEW d \in Readers PROVE Apart(c, d)
    BY DEF Init, Apart
  <1> QED
    BY <1>1, <1>2, <1>3, <1>4, InitServer DEF StreamInv

-----------------------------------------------------------------------------
(* Steps that leave the streams alone *)

LEMMA SameStreams ==
    ASSUME StreamInv, ServerInv', old' \in [Runs -> BOOLEAN],
           UNCHANGED <<obeys, pc, stream, reader>>
    PROVE  StreamInv'
  <1> USE DEF stream, reader
  <1>1. StreamTypes'
    BY DEF StreamInv, StreamTypes
  <1>2. ASSUME NEW r \in Runs PROVE Queued(r)'
    <2>1. Queued(r)
      BY DEF StreamInv
    <2> QED
      BY <2>1 DEF Queued, Placed, Taken, CloseAt, ResultAt
  <1>3. ASSUME NEW c \in Readers PROVE Connected(c)' /\ InOrder(c)'
    <2>1. Connected(c) /\ InOrder(c)
      BY DEF StreamInv
    <2> QED
      BY <2>1 DEF Connected, InOrder, Alone, Seen, Placed, Taken, CloseAt,
                  ResultAt
  <1>4. ASSUME NEW c \in Readers, NEW d \in Readers, c # d PROVE Apart(c, d)'
    <2>1. Apart(c, d)
      BY <1>4 DEF StreamInv
    <2> QED
      BY <2>1 DEF Apart, Seen
  <1> QED
    BY <1>1, <1>2, <1>3, <1>4 DEF StreamInv

-----------------------------------------------------------------------------
(* Steps of a run *)

\* The thread of a run goes on and puts nothing.
GoesOn(q, label) ==
    /\ UNCHANGED <<old, obeys, reader, stream>>
    /\ pc' = [pc EXCEPT ![q] = label]
    /\ \/ /\ pc[q] \in {"absent", "search", "late"}
          /\ label \in {"search", "late", "result"}
       \/ pc[q] = "mark" /\ label = "sentinel"

\* It puts what belongs on the queue where it is.
Puts(q, sort, label) ==
    /\ UNCHANGED <<old, obeys, reader>>
    /\ Put(q, sort)
    /\ pc' = [pc EXCEPT ![q] = label]
    /\ \/ /\ sort = "event"
          /\ pc[q] \in {"search", "late"}
          /\ label \in {"search", "late", "result"}
       \/ sort = "result" /\ pc[q] = "result" /\ label = "mark"
       \/ sort = "close" /\ pc[q] = "sentinel" /\ label = "finished"

LEMMA GoesOnKeepsItems ==
    ASSUME StreamInv, NEW q \in Runs, NEW label \in Labels, GoesOn(q, label)
    PROVE  /\ StreamTypes'
           /\ \A r \in Runs : Queued(r)' /\ Taken(r)' = Taken(r)
           /\ \A r \in Runs : \A x : Placed(r, x) => Placed(r, x)'
  <1>t. StreamTypes /\ Parts
    BY DEF StreamInv, ServerInv
  <1>1. put' = put /\ queue' = queue /\ UNCHANGED <<old, obeys, reader>>
    BY DEF stream, GoesOn
  <1>2. StreamTypes'
    BY <1>t, <1>1 DEF StreamTypes, reader
  <1>3. ASSUME NEW r \in Runs
        PROVE  /\ CloseAt(r)' = CloseAt(r)
               /\ ResultAt(r)' = ResultAt(r)
               /\ pc'[r] = pc[r] \/ pc'[r] \in {"search", "late", "result"}
                  \/ pc[r] = "mark"
    <2>1. pc'[r] = IF r = q THEN label ELSE pc[r]
      BY <1>t DEF GoesOn, Parts
    <2> QED
      BY <1>1, <2>1 DEF CloseAt, ResultAt, GoesOn
  <1>4. ASSUME NEW r \in Runs PROVE Queued(r)'
    <2>1. Queued(r)
      BY DEF StreamInv
    <2>2. pc'[r] \in {"mark", "sentinel"} => put[r] >= 1
      BY <1>t, <2>1 DEF Queued, GoesOn, Parts
    <2>3. pc'[r] = "finished" => put[r] >= 2
      BY <1>t, <2>1 DEF Queued, GoesOn, Parts
    <2> QED
      BY <1>1, <1>3, <2>1, <2>2, <2>3 DEF Queued, Taken, Placed, reader
  <1> QED
    BY <1>1, <1>2, <1>3, <1>4 DEF Taken, Placed

LEMMA PutsKeepsItems ==
    ASSUME StreamInv, NEW q \in Runs, NEW label \in Labels,
           NEW sort \in {"event", "result", "close"}, Puts(q, sort, label)
    PROVE  /\ StreamTypes'
           /\ \A r \in Runs : Queued(r)' /\ Taken(r)' = Taken(r)
           /\ \A r \in Runs : \A x : Placed(r, x) => Placed(r, x)'
  <1>t. StreamTypes /\ Parts
    BY DEF StreamInv, ServerInv
  <1> DEFINE new == [what |-> sort, n |-> put[q] + 1]
  <1>1. /\ put' = [put EXCEPT ![q] = @ + 1]
        /\ queue' = [queue EXCEPT ![q] = Append(@, new)]
        /\ UNCHANGED <<old, obeys, reader>>
    BY DEF Puts, Put
  <1>2. put[q] \in Nat /\ queue[q] \in Seq(Items) /\ Len(queue[q]) \in Nat
    BY <1>t DEF StreamTypes
  <1>3. new \in Items
    BY <1>2 DEF Items
  <1>4. /\ put'[q] = put[q] + 1
        /\ queue'[q] = Append(queue[q], new)
        /\ queue'[q] \in Seq(Items)
        /\ Len(queue'[q]) = Len(queue[q]) + 1
        /\ queue'[q][Len(queue[q]) + 1] = new
        /\ \A i \in 1..Len(queue[q]) : queue'[q][i] = queue[q][i]
        /\ \A r \in Runs \ {q} : queue'[r] = queue[r] /\ put'[r] = put[r]
    BY <1>t, <1>1, <1>2, <1>3 DEF StreamTypes
  <1>a. put[q] \in Int /\ Len(queue[q]) \in Int
    BY <1>2
  <1>b. put'[q] = put[q] + 1 /\ Len(queue'[q]) = Len(queue[q]) + 1
    BY <1>4
  <1>c. \A i \in 1..Len(queue'[q]) :
          i = Len(queue[q]) + 1 \/ i \in 1..Len(queue[q])
    BY <1>2, <1>4
  <1>d. new.what = sort /\ new.n = put[q] + 1
    OBVIOUS
  <1>5. pc'[q] = label /\ \A r \in Runs \ {q} : pc'[r] = pc[r]
    BY <1>t DEF Puts, Parts
  <1> HIDE DEF new
  <1>6. StreamTypes'
    <2>1. \A r \in Runs : \A i \in 1..Len(queue'[r]) :
            queue'[r][i].n = put'[r] - Len(queue'[r]) + i
      <3> SUFFICES ASSUME NEW r \in Runs, NEW i \in 1..Len(queue'[r])
                   PROVE  queue'[r][i].n = put'[r] - Len(queue'[r]) + i
        OBVIOUS
      <3>1. CASE r # q
        BY <1>t, <1>4, <3>1 DEF StreamTypes
      <3>2. CASE r = q /\ i = Len(queue[q]) + 1
        BY <1>2, <1>4, <3>2 DEF new
      <3>3. CASE r = q /\ i # Len(queue[q]) + 1
        <4>1. i \in 1..Len(queue[q])
          BY <1>c, <3>3
        <4> QED
          <5>1. /\ queue'[q][i] = queue[q][i]
                /\ queue[q][i].n = put[q] - Len(queue[q]) + i
            BY <1>t, <1>4, <4>1 DEF StreamTypes
          <5>2. queue'[q][i].n = put'[q] - Len(queue'[q]) + i
            BY <1>a, <1>b, <4>1, <5>1
          <5> QED
            BY <3>3, <5>2
      <3> QED
        BY <3>1, <3>2, <3>3
    <2>2. put' \in [Runs -> Nat] /\ queue' \in [Runs -> Seq(Items)]
      BY <1>t, <1>1, <1>2, <1>4 DEF StreamTypes
    <2> QED
      BY <1>t, <1>1, <2>1, <2>2 DEF StreamTypes, reader
  <1>7. ASSUME NEW r \in Runs PROVE Taken(r)' = Taken(r)
    <2>1. CASE r = q
      <3>1. put'[q] - Len(queue'[q]) = put[q] - Len(queue[q])
        BY <1>a, <1>b
      <3> QED
        BY <2>1, <3>1 DEF Taken
    <2>2. CASE r # q
      BY <1>4, <2>2 DEF Taken
    <2> QED
      BY <2>1, <2>2
  <1>8. ASSUME NEW x, Placed(q, x) PROVE Placed(q, x)'
    <2>1. \/ pc[q] \in {"search", "late"}
             /\ pc'[q] \in {"search", "late", "result"}
          \/ pc[q] = "result" /\ pc'[q] = "mark"
          \/ pc[q] = "sentinel" /\ pc'[q] = "finished"
      BY <1>5 DEF Puts
    <2> QED
      BY <1>a, <1>b, <1>8, <2>1 DEF Placed, CloseAt, ResultAt
  <1>9. ASSUME NEW x, x.what = sort, x.n = put[q] + 1 PROVE Placed(q, x)'
    <2>1. \/ sort = "event" /\ pc'[q] \in {"search", "late", "result"}
          \/ sort = "result" /\ pc'[q] = "mark"
          \/ sort = "close" /\ pc'[q] = "finished"
      BY <1>5 DEF Puts
    <2>2. x.n \in 1..put'[q] /\ x.n = put'[q] /\ put'[q] # 0
      BY <1>2, <1>b, <1>9
    <2> QED
      BY <1>9, <2>1, <2>2 DEF Placed, CloseAt, ResultAt
  <1>10. ASSUME NEW r \in Runs \ {q}, NEW x PROVE Placed(r, x)' <=> Placed(r, x)
    BY <1>4, <1>5 DEF Placed, CloseAt, ResultAt
  <1>11. ASSUME NEW r \in Runs PROVE Queued(r)'
    <2>0. Queued(r)
      BY DEF StreamInv
    <2>1. CASE r # q
      BY <1>1, <1>4, <1>5, <1>7, <1>10, <2>0, <2>1 DEF Queued, reader
    <2>2. CASE r = q
      <3>1. \A i \in 1..Len(queue'[q]) : Placed(q, queue[q][i])'
        <4>1. \A i \in 1..Len(queue[q]) : Placed(q, queue[q][i])'
          BY <1>4, <1>8, <2>0, <2>2 DEF Queued
        <4>2. \A x : x = new => Placed(q, x)'
          BY <1>9, <1>d
        <4>3. ASSUME NEW i \in 1..Len(queue'[q]), i = Len(queue[q]) + 1
              PROVE  Placed(q, queue[q][i])'
          <5>1. queue'[q][i] = new
            BY <1>4, <4>3
          <5> QED
            BY <4>2, <5>1
        <4> QED
          BY <1>c, <4>1, <4>3
      <3>2. /\ pc'[q] \in {"mark", "sentinel"} => put'[q] >= 1
            /\ pc'[q] = "finished" => put'[q] >= 2
        BY <1>2, <1>b, <1>5, <2>0, <2>2 DEF Queued, Puts
      <3> QED
        BY <1>1, <1>7, <2>0, <2>2, <3>1, <3>2 DEF Queued, reader
    <2> QED
      BY <2>1, <2>2
  <1> QED
    BY <1>6, <1>7, <1>8, <1>10, <1>11

LEMMA AdvanceKeepsStreams ==
    ASSUME StreamInv, ServerInv', NEW q \in Runs, NEW label \in Labels,
           \/ GoesOn(q, label)
           \/ \E sort \in {"event", "result", "close"} : Puts(q, sort, label)
    PROVE  StreamInv'
  <1>1. /\ StreamTypes'
        /\ \A r \in Runs : Queued(r)' /\ Taken(r)' = Taken(r)
        /\ \A r \in Runs : \A x : Placed(r, x) => Placed(r, x)'
    BY GoesOnKeepsItems, PutsKeepsItems
  <1>2. UNCHANGED reader
    BY DEF GoesOn, Puts
  <1>3. \A c \in Readers : Seen(c)' = Seen(c)
    BY <1>2 DEF reader, Seen
  <1>4. ASSUME NEW c \in Readers PROVE Connected(c)' /\ InOrder(c)'
    <2>1. Connected(c) /\ InOrder(c)
      BY DEF StreamInv
    <2>2. Connected(c)'
      BY <1>2, <2>1 DEF Connected, reader
    <2>3. conn[c] # NoRun => conn[c] \in Runs
      BY DEF StreamInv, StreamTypes
    <2>4. Alone(c)' <=> Alone(c)
      BY <1>2 DEF Alone, reader
    <2>5. InOrder(c)'
      BY <1>1, <1>2, <1>3, <2>1, <2>3, <2>4 DEF InOrder, reader
    <2> QED
      BY <2>2, <2>5
  <1>5. ASSUME NEW c \in Readers, NEW d \in Readers, c # d PROVE Apart(c, d)'
    <2>1. Apart(c, d)
      BY <1>5 DEF StreamInv
    <2> QED
      BY <1>2, <1>3, <2>1 DEF Apart, reader
  <1> QED
    BY <1>1, <1>4, <1>5 DEF StreamInv

LEMMA RunsKeepStreams ==
    ASSUME StreamInv, ServerInv', NEW q \in Runs, Thread(q) \/ Post(q)
    PROVE  StreamInv'
  <1>t. Parts /\ Sound(q)
    BY DEF StreamInv, ServerInv
  <1> USE DEF registry, run, cancels, Goto, Decide
  <1>1. CASE Emit(q)
    <2>1. pc' = [pc EXCEPT ![q] = pc[q]] /\ pc[q] \in Labels
      BY <1>t, <1>1 DEF Emit, Parts
    <2>2. Puts(q, "event", pc[q])
      BY <1>1, <2>1 DEF Emit, Puts
    <2> QED
      BY <2>1, <2>2, AdvanceKeepsStreams
  <1>2. CASE Stops(q)
    <2>1. GoesOn(q, "result")
      BY <1>2 DEF Stops, GoesOn
    <2> QED
      BY <2>1, AdvanceKeepsStreams DEF Labels
  <1>3. CASE LastCheck(q)
    <2>1. GoesOn(q, "late")
      BY <1>3 DEF LastCheck, GoesOn
    <2> QED
      BY <2>1, AdvanceKeepsStreams DEF Labels
  <1>4. CASE Conclude(q)
    <2>1. GoesOn(q, "result")
      BY <1>4 DEF Conclude, GoesOn
    <2> QED
      BY <2>1, AdvanceKeepsStreams DEF Labels
  <1>5. CASE Raise(q)
    <2>1. Puts(q, "event", "result")
      BY <1>5 DEF Raise, Puts
    <2> QED
      BY <2>1, AdvanceKeepsStreams DEF Labels
  <1>6. CASE PutResult(q)
    <2>1. Puts(q, "result", "mark")
      BY <1>6 DEF PutResult, Puts
    <2> QED
      BY <2>1, AdvanceKeepsStreams DEF Labels
  <1>7. CASE Mark(q)
    <2>1. GoesOn(q, "sentinel")
      BY <1>7 DEF Mark, GoesOn
    <2> QED
      BY <2>1, AdvanceKeepsStreams DEF Labels
  <1>8. CASE PutDone(q)
    <2>1. Puts(q, "close", "finished")
      BY <1>8 DEF PutDone, Puts
    <2> QED
      BY <2>1, AdvanceKeepsStreams DEF Labels
  <1>9. CASE Post(q)
    <2>1. GoesOn(q, "search")
      BY <1>t, <1>9 DEF Post, GoesOn, Sound, Marked
    <2> QED
      BY <2>1, AdvanceKeepsStreams DEF Labels
  <1> QED
    BY <1>1, <1>2, <1>3, <1>4, <1>5, <1>6, <1>7, <1>8, <1>9 DEF Thread

-----------------------------------------------------------------------------
(* Steps of a stream *)

\* What the registry's invariant speaks of, no stream changes.
LEMMA StreamsKeepServer ==
    ASSUME ServerInv,
           UNCHANGED <<record, stop, obeys, pc, decision, inTime, answers>>
    PROVE  ServerInv'
  BY Untouched DEF ServerInv, Parts

\* A stream that is not the one that moves keeps what it has, in order, as
\* long as it is not the only one of a run that loses an item to another.
LEMMA OtherStream ==
    ASSUME StreamInv, NEW d \in Readers,
           UNCHANGED <<pc, put>>,
           conn'[d] = conn[d], alive'[d] = alive[d], handler'[d] = handler[d],
           hand'[d] = hand[d], got'[d] = got[d],
           \A r \in Runs : conn[d] = r =>
             /\ Taken(r)' >= Taken(r)
             /\ Taken(r)' \in Int
             /\ Alone(d)' => Alone(d) /\ Taken(r)' = Taken(r)
    PROVE  Connected(d)' /\ InOrder(d)'
  <1>1. Connected(d) /\ InOrder(d) /\ StreamTypes
    BY DEF StreamInv
  <1>2. Connected(d)'
    BY <1>1 DEF Connected
  <1>3. Seen(d)' = Seen(d)
    BY DEF Seen
  <1>4. \A r, x : Placed(r, x)' <=> Placed(r, x)
    BY DEF Placed, ResultAt, CloseAt
  <1>5. CASE conn[d] = NoRun
    BY <1>2, <1>5 DEF InOrder
  <1>6. CASE conn[d] # NoRun
    <2>1. PICK R \in Runs : conn[d] = R
      BY <1>1, <1>6 DEF StreamTypes
    <2> DEFINE s == Seen(d)
    <2>2. Taken(R) \in Nat /\ \A i \in 1..Len(s) : s[i].n \in Nat
      BY <1>1, <2>1, TakenCounts, SeenExtendsGot
    <2>3. /\ conn'[d] = R /\ alive'[d] = alive[d] /\ Seen(d)' = s
          /\ \A i \in 1..Len(s) : Placed(R, s[i]) /\ s[i].n <= Taken(R)
          /\ \A i, j \in 1..Len(s) : i < j => s[i].n < s[j].n
          /\ alive[d] /\ Alone(d) =>
               Len(s) = Taken(R) /\ \A i \in 1..Len(s) : s[i].n = i
      BY <1>1, <1>3, <1>6, <2>1 DEF InOrder
    <2> HIDE DEF s
    <2>4. \A i \in 1..Len(s) : s[i].n <= Taken(R)'
      BY <2>1, <2>2, <2>3
    <2>5. Alone(d)' => Alone(d) /\ Taken(R)' = Taken(R)
      BY <2>1
    <2> QED
      BY <1>2, <1>4, <2>3, <2>4, <2>5 DEF InOrder
  <1> QED
    BY <1>2, <1>5, <1>6

LEMMA TakeKeepsStreams ==
    ASSUME StreamInv, NEW c \in Readers, Take(c)
    PROVE  StreamInv'
  <1>t. /\ ServerInv /\ StreamTypes /\ Connected(c) /\ InOrder(c)
        /\ \A q \in Runs : Queued(q)
    BY DEF StreamInv
  <1>2. PICK r \in Runs : conn[c] = r
    BY <1>t DEF Connected, StreamTypes, Take
  <1> DEFINE x == Head(queue[r])
  <1>1. /\ handler[c] = "open" /\ hand[c] = NoItem /\ queue[r] # <<>>
        /\ hand' = [hand EXCEPT ![c] = x]
        /\ queue' = [queue EXCEPT ![r] = Tail(@)]
        /\ UNCHANGED <<record, old, stop, obeys, pc, decision, put, answers,
                       inTime, conn, alive, handler, got>>
    BY <1>2 DEF Take, registry, run, cancels
  <1>n. r # NoRun
    BY RunServerAssumption DEF RunServerAssumption
  <1>3. /\ queue[r] \in Seq(Items) /\ Len(queue[r]) \in Nat
        /\ put[r] \in Nat /\ Taken(r) \in Nat
    BY <1>t, <1>2, TakenCounts
  <1>4. /\ x = queue[r][1] /\ 1 \in 1..Len(queue[r]) /\ x \in Items
        /\ Tail(queue[r]) \in Seq(Items)
        /\ Len(Tail(queue[r])) = Len(queue[r]) - 1
        /\ \A i \in 1..Len(Tail(queue[r])) :
             Tail(queue[r])[i] = queue[r][i + 1] /\ i + 1 \in 1..Len(queue[r])
    BY <1>1, <1>3
  <1>5. x.n = Taken(r) + 1
    BY <1>t, <1>2, <1>3, <1>4 DEF StreamTypes, Taken
  <1>6. Placed(r, x)
    BY <1>t, <1>2, <1>4 DEF Queued
  <1> HIDE DEF x
  <1>7. /\ queue'[r] = Tail(queue[r])
        /\ \A q \in Runs \ {r} : queue'[q] = queue[q]
        /\ hand'[c] = x /\ \A d \in Readers \ {c} : hand'[d] = hand[d]
    BY <1>t, <1>1, <1>2 DEF StreamTypes
  <1>8. StreamTypes'
    <2>1. hand' \in [Readers -> Items \union {NoItem}]
      BY <1>t, <1>1, <1>4 DEF StreamTypes
    <2>2. queue' \in [Runs -> Seq(Items)]
      BY <1>t, <1>1, <1>2, <1>4 DEF StreamTypes
    <2>3. ASSUME NEW q \in Runs, NEW i \in 1..Len(queue'[q])
          PROVE  queue'[q][i].n = put[q] - Len(queue'[q]) + i
      <3>1. CASE q # r
        BY <1>t, <1>7, <2>3, <3>1 DEF StreamTypes
      <3>2. CASE q = r
        <4>1. /\ i \in 1..Len(Tail(queue[r])) /\ i \in Int
              /\ Len(queue[r]) \in Int /\ put[r] \in Int
          <5>1. i \in 1..Len(Tail(queue[r]))
            BY <1>7, <2>3, <3>2
          <5> QED
            BY <1>3, <5>1
        <4>2. queue[r][i + 1].n = put[r] - Len(queue[r]) + (i + 1)
          BY <1>t, <1>2, <1>4, <4>1 DEF StreamTypes
        <4>3. put[r] - Len(queue[r]) + (i + 1)
                = put[r] - (Len(queue[r]) - 1) + i
          BY <4>1
        <4>4. Tail(queue[r])[i].n = put[r] - Len(Tail(queue[r])) + i
          BY <1>4, <4>1, <4>2, <4>3
        <4> QED
          BY <1>7, <3>2, <4>4
      <3> QED
        BY <3>1, <3>2
    <2> QED
      BY <1>t, <1>1, <2>1, <2>2, <2>3 DEF StreamTypes
  <1>9. /\ Taken(r)' = Taken(r) + 1
        /\ \A q \in Runs \ {r} : Taken(q)' = Taken(q)
    <2>1. put[r] \in Int /\ Len(queue[r]) \in Int /\ put' = put
          /\ Len(queue'[r]) = Len(queue[r]) - 1
      <3>1. put[r] \in Int /\ Len(queue[r]) \in Int /\ put' = put
        BY <1>1, <1>3
      <3>2. Len(queue'[r]) = Len(queue[r]) - 1
        BY <1>4, <1>7
      <3> QED
        BY <3>1, <3>2
    <2>2. put[r] - Len(queue'[r]) = put[r] - Len(queue[r]) + 1
      BY <2>1
    <2> QED
      BY <1>7, <2>1, <2>2 DEF Taken
  <1>10. \A q, y : Placed(q, y)' <=> Placed(q, y)
    BY <1>1 DEF Placed, ResultAt, CloseAt
  <1>11. ASSUME NEW q \in Runs PROVE Queued(q)'
    <2>0. Queued(q)
      BY <1>t
    <2>1. CASE q # r
      BY <1>1, <1>7, <1>9, <1>10, <2>0, <2>1 DEF Queued
    <2>2. CASE q = r
      <3>1. \A i \in 1..Len(queue'[r]) : Placed(r, queue[r][i])'
        BY <1>4, <1>7, <1>10, <2>0, <2>2 DEF Queued
      <3> QED
        BY <1>1, <1>2, <2>0, <2>2, <3>1 DEF Queued
    <2> QED
      BY <2>1, <2>2
  <1>12. /\ Seen(c)' = Append(Seen(c), x)
         /\ \A d \in Readers \ {c} : Seen(d)' = Seen(d)
    BY <1>1, <1>4, <1>7, ItemNumbers DEF Seen
  <1> DEFINE s == Seen(c)
             n == Len(s) + 1
  <1>13. /\ s \in Seq(Items) /\ Len(s) \in Nat
         /\ \A i \in 1..Len(s) : s[i].n \in Nat
    BY <1>t, SeenExtendsGot
  <1>14. /\ Len(Append(s, x)) = n /\ Append(s, x)[n] = x
         /\ \A i \in 1..Len(s) : Append(s, x)[i] = s[i]
         /\ \A i \in 1..n : i = n \/ i \in 1..Len(s)
    BY <1>4, <1>13
  <1>15. /\ \A i \in 1..Len(s) : Placed(r, s[i]) /\ s[i].n <= Taken(r)
         /\ \A i, j \in 1..Len(s) : i < j => s[i].n < s[j].n
         /\ alive[c] /\ Alone(c) =>
              Len(s) = Taken(r) /\ \A i \in 1..Len(s) : s[i].n = i
    BY <1>t, <1>2, <1>n DEF InOrder
  <1> HIDE DEF s, n
  <1>16. Connected(c)' /\ InOrder(c)'
    <2>1. Connected(c)'
      BY <1>t, <1>1, <1>2, <1>n DEF Connected
    <2> DEFINE a == Append(s, x)
    <2>2. \A i \in 1..n : Placed(r, a[i]) /\ a[i].n <= Taken(r) + 1
      <3>1. a[n] = x /\ Placed(r, x) /\ x.n <= Taken(r) + 1
        BY <1>3, <1>5, <1>6, <1>14
      <3>2. \A i \in 1..Len(s) : Placed(r, a[i]) /\ a[i].n <= Taken(r) + 1
        BY <1>3, <1>13, <1>14, <1>15
      <3> QED
        BY <1>14, <3>1, <3>2
    <2>3. \A i, j \in 1..n : i < j => a[i].n < a[j].n
      BY <1>3, <1>5, <1>13, <1>14, <1>15 DEF n
    <2>4. alive[c] /\ Alone(c) => n = Taken(r) + 1 /\ \A i \in 1..n : a[i].n = i
      BY <1>5, <1>13, <1>14, <1>15 DEF n
    <2>5. Alone(c)' <=> Alone(c)
      BY <1>1 DEF Alone
    <2>6. conn'[c] = r /\ alive'[c] = alive[c] /\ Seen(c)' = a /\ Len(a) = n
      BY <1>1, <1>2, <1>12, <1>14 DEF s
    <2> HIDE DEF a
    <2>7. InOrder(c)'
      BY <1>9, <1>10, <2>2, <2>3, <2>4, <2>5, <2>6 DEF InOrder
    <2> QED
      BY <2>1, <2>7
  <1>17. ASSUME NEW d \in Readers, d # c PROVE Connected(d)' /\ InOrder(d)'
    <2>1. Alone(d)' <=> Alone(d)
      BY <1>1 DEF Alone
    <2>2. conn[d] = r => ~Alone(d)
      BY <1>2, <1>17 DEF Alone
    <2>3. \A q \in Runs : Taken(q) \in Nat
      BY <1>t, TakenCounts
    <2>4. \A q \in Runs : conn[d] = q =>
            /\ Taken(q)' >= Taken(q)
            /\ Taken(q)' \in Int
            /\ Alone(d)' => Alone(d) /\ Taken(q)' = Taken(q)
      BY <1>9, <2>1, <2>2, <2>3
    <2>5. /\ UNCHANGED <<pc, put>>
          /\ conn'[d] = conn[d] /\ alive'[d] = alive[d]
          /\ handler'[d] = handler[d] /\ hand'[d] = hand[d]
          /\ got'[d] = got[d]
      BY <1>1, <1>7, <1>17
    <2> QED
      BY <2>4, <2>5, OtherStream
  <1>18. ASSUME NEW d \in Readers, d # c PROVE Apart(c, d)' /\ Apart(d, c)'
    <2>1. CASE conn[d] # r
      BY <1>1, <1>2, <2>1 DEF Apart
    <2>2. CASE conn[d] = r
      <3>1. InOrder(d) /\ Apart(c, d)
        BY <1>18 DEF StreamInv
      <3>2. \A j \in 1..Len(Seen(d)) :
              Seen(d)[j].n \in Nat /\ Seen(d)[j].n <= Taken(r)
        BY <1>t, <1>n, <2>2, <3>1, SeenExtendsGot DEF InOrder
      <3>3. \A i \in 1..Len(s), j \in 1..Len(Seen(d)) :
              s[i].n # Seen(d)[j].n
        BY <1>2, <1>n, <2>2, <3>1 DEF Apart, s
      <3>4. \A i \in 1..n, j \in 1..Len(Seen(d)) :
              Append(s, x)[i].n # Seen(d)[j].n
        BY <1>3, <1>5, <1>14, <3>2, <3>3
      <3> QED
        BY <1>12, <1>14, <1>18, <3>4 DEF Apart, s
    <2> QED
      BY <2>1, <2>2
  <1>19. ASSUME NEW d \in Readers, NEW e \in Readers, d # e, d # c, e # c
         PROVE  Apart(d, e)'
    <2>1. Apart(d, e)
      BY <1>19 DEF StreamInv
    <2> QED
      BY <1>1, <1>12, <1>19, <2>1 DEF Apart
  <1>20. ServerInv'
    BY <1>t, <1>1, StreamsKeepServer
  <1> QED
    BY <1>8, <1>11, <1>16, <1>17, <1>18, <1>19, <1>20 DEF StreamInv

\* A stream that delivers keeps what it has; one whose client has gone may
\* lose what it had last.
LEMMA NarrowStream ==
    ASSUME StreamInv, NEW c \in Readers,
           UNCHANGED <<record, stop, obeys, pc, decision, inTime, answers,
                       stream, conn>>,
           \A d \in Readers \ {c} :
             /\ alive'[d] = alive[d] /\ handler'[d] = handler[d]
             /\ hand'[d] = hand[d] /\ got'[d] = got[d],
           StreamTypes', Connected(c)',
           Len(Seen(c)') <= Len(Seen(c)),
           \A i \in 1..Len(Seen(c)') : (Seen(c)')[i] = Seen(c)[i],
           alive'[c] => alive[c] /\ Seen(c)' = Seen(c)
    PROVE  StreamInv'
  <1>t. ServerInv /\ StreamTypes /\ InOrder(c) /\ \A q \in Runs : Queued(q)
    BY DEF StreamInv
  <1>1. ServerInv'
    BY <1>t, StreamsKeepServer
  <1>2. /\ \A r : Taken(r)' = Taken(r)
        /\ \A r, x : Placed(r, x)' <=> Placed(r, x)
        /\ \A d : Alone(d)' <=> Alone(d)
    BY DEF Taken, Placed, ResultAt, CloseAt, Alone, stream
  <1>3. ASSUME NEW q \in Runs PROVE Queued(q)'
    BY <1>t, <1>2 DEF Queued, stream
  <1>4. ASSUME NEW d \in Readers, d # c PROVE Connected(d)' /\ InOrder(d)'
    <2>1. \A r \in Runs : Taken(r) \in Nat
      BY <1>t, TakenCounts
    <2>2. \A r \in Runs : conn[d] = r =>
            /\ Taken(r)' >= Taken(r)
            /\ Taken(r)' \in Int
            /\ Alone(d)' => Alone(d) /\ Taken(r)' = Taken(r)
      BY <1>2, <2>1
    <2> QED
      BY <1>4, <2>2, OtherStream DEF stream
  <1> DEFINE s == Seen(c)
             t == Seen(c)'
  <1>5. /\ Len(s) \in Nat /\ Len(t) \in Nat
        /\ \A i \in 1..Len(t) : i \in 1..Len(s) /\ t[i] = s[i]
    <2>1. Len(s) \in Nat
      BY <1>t, SeenExtendsGot
    <2>2. hand'[c] \in Items \union {NoItem} /\ got'[c] \in Seq(Items)
      BY DEF StreamTypes
    <2>3. Len(t) \in Nat
      BY <2>2 DEF Seen
    <2> QED
      BY <2>1, <2>3
  <1>6. InOrder(c)'
    <2> SUFFICES ASSUME conn[c] # NoRun PROVE InOrder(c)'
      BY DEF InOrder
    <2> DEFINE R == conn[c]
    <2>1. /\ \A i \in 1..Len(s) : Placed(R, s[i]) /\ s[i].n <= Taken(R)
          /\ \A i, j \in 1..Len(s) : i < j => s[i].n < s[j].n
          /\ alive[c] /\ Alone(c) =>
               Len(s) = Taken(R) /\ \A i \in 1..Len(s) : s[i].n = i
      BY <1>t DEF InOrder
    <2> HIDE DEF s
    <2>3. /\ \A i \in 1..Len(t) : Placed(R, t[i]) /\ t[i].n <= Taken(R)
          /\ \A i, j \in 1..Len(t) : i < j => t[i].n < t[j].n
          /\ alive'[c] /\ Alone(c) =>
               Len(t) = Taken(R) /\ \A i \in 1..Len(t) : t[i].n = i
      BY <1>5, <2>1 DEF s
    <2> QED
      BY <1>2, <2>3 DEF InOrder
  <1>7. ASSUME NEW d \in Readers, d # c PROVE Apart(c, d)' /\ Apart(d, c)'
    <2>1. Apart(c, d) /\ Apart(d, c) /\ Seen(d)' = Seen(d)
      BY <1>7 DEF StreamInv, Seen
    <2> QED
      BY <1>5, <2>1 DEF Apart
  <1>8. ASSUME NEW d \in Readers, NEW e \in Readers, d # e, d # c, e # c
        PROVE  Apart(d, e)'
    <2>1. Apart(d, e) /\ Seen(d)' = Seen(d) /\ Seen(e)' = Seen(e)
      BY <1>8 DEF StreamInv, Seen
    <2> QED
      BY <2>1 DEF Apart
  <1> QED
    BY <1>1, <1>3, <1>4, <1>6, <1>7, <1>8 DEF StreamInv

LEMMA DeliverKeepsStreams ==
    ASSUME StreamInv, NEW c \in Readers, Deliver(c)
    PROVE  StreamInv'
  <1>t. StreamTypes /\ Connected(c)
    BY DEF StreamInv
  <1>1. /\ handler[c] = "open" /\ hand[c] # NoItem /\ alive[c]
        /\ got' = [got EXCEPT ![c] = Append(@, hand[c])]
        /\ hand' = [hand EXCEPT ![c] = NoItem]
        /\ handler' = [handler EXCEPT ![c] = IF hand[c].what = "close"
                                             THEN "closed" ELSE "open"]
        /\ UNCHANGED <<record, old, stop, obeys, pc, decision, inTime, answers,
                       stream, conn, alive>>
    BY DEF Deliver, registry, run, cancels
  <1>2. /\ hand[c] \in Items /\ got[c] \in Seq(Items)
        /\ Seen(c) = Append(got[c], hand[c])
    BY <1>t, <1>1 DEF StreamTypes, Seen
  <1>3. /\ got'[c] = Append(got[c], hand[c])
        /\ hand'[c] = NoItem
        /\ handler'[c] = IF hand[c].what = "close" THEN "closed" ELSE "open"
        /\ \A d \in Readers \ {c} : /\ handler'[d] = handler[d]
                                    /\ hand'[d] = hand[d] /\ got'[d] = got[d]
    BY <1>t, <1>1 DEF StreamTypes
  <1>4. StreamTypes'
    <2>1. got' \in [Readers -> Seq(Items)]
      BY <1>t, <1>1, <1>2 DEF StreamTypes
    <2>2. hand' \in [Readers -> Items \union {NoItem}]
      BY <1>t, <1>1 DEF StreamTypes
    <2>3. handler' \in [Readers -> {"idle", "open", "closed", "ended"}]
      BY <1>t, <1>1 DEF StreamTypes
    <2> QED
      BY <1>t, <1>1, <2>1, <2>2, <2>3 DEF StreamTypes, stream
  <1>5. Connected(c)'
    <2>1. /\ got'[c] # <<>>
          /\ got'[c][Len(got'[c])] = hand[c]
      BY <1>2, <1>3
    <2> QED
      BY <1>t, <1>1, <1>3, <2>1 DEF Connected
  <1>6. Seen(c)' = Seen(c) /\ Len(Seen(c)) \in Nat
    BY <1>2, <1>3 DEF Seen
  <1> QED
    BY <1>1, <1>3, <1>4, <1>5, <1>6, NarrowStream

LEMMA LoseKeepsStreams ==
    ASSUME StreamInv, NEW c \in Readers, Lose(c)
    PROVE  StreamInv'
  <1>t. StreamTypes /\ Connected(c)
    BY DEF StreamInv
  <1>1. /\ handler[c] = "open" /\ hand[c] # NoItem /\ ~alive[c]
        /\ hand' = [hand EXCEPT ![c] = NoItem]
        /\ handler' = handler \/ handler' = [handler EXCEPT ![c] = "ended"]
        /\ UNCHANGED <<record, old, stop, obeys, pc, decision, inTime, answers,
                       stream, conn, alive, got>>
    BY DEF Lose, registry, run, cancels
  <1>2. /\ hand'[c] = NoItem /\ handler'[c] \in {"open", "ended"}
        /\ \A d \in Readers \ {c} : handler'[d] = handler[d]
                                    /\ hand'[d] = hand[d]
    BY <1>t, <1>1 DEF StreamTypes
  <1>3. StreamTypes'
    <2>1. hand' \in [Readers -> Items \union {NoItem}]
      BY <1>t, <1>1 DEF StreamTypes
    <2>2. handler' \in [Readers -> {"idle", "open", "closed", "ended"}]
      BY <1>t, <1>1 DEF StreamTypes
    <2> QED
      BY <1>t, <1>1, <2>1, <2>2 DEF StreamTypes, stream
  <1>4. Connected(c)'
    BY <1>t, <1>1, <1>2 DEF Connected
  <1>5. /\ Seen(c)' = got[c]
        /\ Len(got[c]) <= Len(Seen(c))
        /\ \A i \in 1..Len(got[c]) : got[c][i] = Seen(c)[i]
    BY <1>t, <1>1, <1>2, SeenExtendsGot DEF Seen
  <1> QED
    BY <1>1, <1>2, <1>3, <1>4, <1>5, NarrowStream

LEMMA BreakKeepsStreams ==
    ASSUME StreamInv, NEW c \in Readers, Heartbeat(c) \/ HangUp(c)
    PROVE  StreamInv'
  <1>t. StreamTypes /\ Connected(c)
    BY DEF StreamInv
  <1>1. /\ handler[c] = "open"
        /\ \/ handler' = handler /\ alive' = [alive EXCEPT ![c] = FALSE]
           \/ /\ ~alive[c] /\ alive' = alive
              /\ handler' = [handler EXCEPT ![c] = "ended"]
        /\ UNCHANGED <<record, old, stop, obeys, pc, decision, inTime, answers,
                       stream, conn, hand, got>>
    BY DEF Heartbeat, HangUp, registry, run, cancels
  <1>2. /\ handler'[c] \in {"open", "ended"} /\ ~alive'[c]
        /\ \A d \in Readers \ {c} : handler'[d] = handler[d]
                                    /\ alive'[d] = alive[d]
    BY <1>t, <1>1 DEF StreamTypes
  <1>3. StreamTypes'
    <2>1. handler' \in [Readers -> {"idle", "open", "closed", "ended"}]
      BY <1>t, <1>1 DEF StreamTypes
    <2>2. alive' \in [Readers -> BOOLEAN]
      BY <1>t, <1>1 DEF StreamTypes
    <2> QED
      BY <1>t, <1>1, <2>1, <2>2 DEF StreamTypes, stream
  <1>4. Connected(c)'
    BY <1>t, <1>1, <1>2 DEF Connected
  <1>5. Seen(c)' = Seen(c) /\ Len(Seen(c)) \in Nat
    BY <1>t, <1>1, SeenExtendsGot DEF Seen
  <1> QED
    BY <1>1, <1>2, <1>3, <1>4, <1>5, NarrowStream

\* A connection to a run that nobody has streamed yet misses nothing.
LEMMA ConnectKeepsStreams ==
    ASSUME StreamInv, NEW c \in Readers, NEW q \in Runs, Connect(c, q)
    PROVE  StreamInv'
  <1>t. /\ ServerInv /\ StreamTypes /\ Connected(c)
        /\ \A r \in Runs : Queued(r)
    BY DEF StreamInv
  <1>1. /\ handler[c] = "idle"
        /\ conn' = [conn EXCEPT ![c] = q]
        /\ alive' = [alive EXCEPT ![c] = TRUE]
        /\ handler' = [handler EXCEPT ![c] = "open"]
        /\ UNCHANGED <<record, old, stop, obeys, pc, decision, inTime, answers,
                       queue, put, hand, got>>
    BY DEF Connect, registry, run, cancels, stream
  <1>2. /\ conn[c] = NoRun /\ got[c] = <<>> /\ hand[c] = NoItem
        /\ conn'[c] = q /\ alive'[c] /\ handler'[c] = "open"
        /\ q # NoRun
        /\ \A d \in Readers \ {c} :
             /\ conn'[d] = conn[d] /\ alive'[d] = alive[d]
             /\ handler'[d] = handler[d]
    BY <1>t, <1>1, RunServerAssumption
    DEF StreamTypes, Connected, RunServerAssumption
  <1>3. StreamTypes'
    <2>1. handler' \in [Readers -> {"idle", "open", "closed", "ended"}]
      BY <1>t, <1>1 DEF StreamTypes
    <2>2. alive' \in [Readers -> BOOLEAN]
      BY <1>t, <1>1 DEF StreamTypes
    <2>3. conn' \in [Readers -> Runs \union {NoRun}]
      BY <1>t, <1>1 DEF StreamTypes
    <2> QED
      BY <1>t, <1>1, <2>1, <2>2, <2>3 DEF StreamTypes
  <1>4. /\ \A r : Taken(r)' = Taken(r)
        /\ \A r, x : Placed(r, x)' <=> Placed(r, x)
        /\ \A d \in Readers : Seen(d)' = Seen(d)
        /\ Seen(c) = <<>>
    BY <1>1, <1>2 DEF Taken, Placed, ResultAt, CloseAt, Seen
  <1>5. ASSUME NEW r \in Runs PROVE Queued(r)'
    <2>1. Queued(r)
      BY <1>t
    <2>2. \A d \in Readers : conn[d] = r => conn'[d] = r
      BY <1>2, RunServerAssumption DEF RunServerAssumption
    <2> QED
      BY <1>1, <1>4, <2>1, <2>2 DEF Queued
  <1>6. Connected(c)' /\ InOrder(c)'
    <2>1. Connected(c)'
      BY <1>1, <1>2 DEF Connected
    <2>2. Alone(c)' => Taken(q) = 0
      <3> SUFFICES ASSUME Alone(c)', Taken(q) # 0 PROVE FALSE
        OBVIOUS
      <3>1. Taken(q) > 0
        BY <1>t, TakenCounts
      <3>2. PICK d \in Readers : conn[d] = q
        BY <1>t, <3>1 DEF Queued
      <3> QED
        BY <1>2, <3>2 DEF Alone
    <2>3. InOrder(c)'
      BY <1>2, <1>4, <2>2 DEF InOrder
    <2> QED
      BY <2>1, <2>3
  <1>7. ASSUME NEW d \in Readers, d # c PROVE Connected(d)' /\ InOrder(d)'
    <2>1. \A r \in Runs : Taken(r) \in Nat
      BY <1>t, TakenCounts
    <2>2. conn[d] \in Runs => (Alone(d)' => Alone(d))
      BY <1>2, <1>7, RunServerAssumption DEF Alone, RunServerAssumption
    <2>3. \A r \in Runs : conn[d] = r =>
            /\ Taken(r)' >= Taken(r)
            /\ Taken(r)' \in Int
            /\ Alone(d)' => Alone(d) /\ Taken(r)' = Taken(r)
      BY <1>4, <2>1, <2>2
    <2> QED
      BY <1>1, <1>2, <1>7, <2>3, OtherStream
  <1>8. ASSUME NEW d \in Readers, NEW e \in Readers, d # e
        PROVE  Apart(d, e)'
    <2>1. CASE d = c \/ e = c
      BY <1>4, <2>1 DEF Apart
    <2>2. CASE d # c /\ e # c
      <3>1. Apart(d, e)
        BY <1>8 DEF StreamInv
      <3> QED
        BY <1>2, <1>4, <2>2, <3>1 DEF Apart
    <2> QED
      BY <2>1, <2>2
  <1>9. ServerInv'
    BY <1>t, <1>1, StreamsKeepServer
  <1> QED
    BY <1>3, <1>5, <1>6, <1>7, <1>8, <1>9 DEF StreamInv

LEMMA StepStreams == StreamInv /\ [Next]_vars => StreamInv'
  <1> SUFFICES ASSUME StreamInv, [Next]_vars PROVE StreamInv'
    OBVIOUS
  <1>t. ServerInv' /\ ServerInv /\ StreamTypes
    BY StepServer DEF StreamInv
  <1>1. ASSUME NEW r \in Runs, Thread(r) \/ Post(r) PROVE StreamInv'
    BY <1>t, <1>1, RunsKeepStreams
  <1>2. ASSUME NEW r \in Runs, Age(r) PROVE StreamInv'
    <2>1. /\ old' \in [Runs -> BOOLEAN]
          /\ UNCHANGED <<obeys, pc, stream, reader>>
      BY <1>t, <1>2 DEF Age, run, StreamTypes
    <2> QED
      BY <1>t, <2>1, SameStreams
  <1>3. ASSUME NEW r \in Runs, Cancel(r) PROVE StreamInv'
    <2>1. UNCHANGED <<old, obeys, pc, stream, reader>>
      BY <1>3 DEF Cancel, registry
    <2> QED
      BY <1>t, <2>1, SameStreams DEF StreamTypes
  <1>4. ASSUME NEW c \in Readers, Handler(c) \/ HangUp(c) PROVE StreamInv'
    BY <1>4, TakeKeepsStreams, DeliverKeepsStreams, LoseKeepsStreams,
       BreakKeepsStreams DEF Handler
  <1>5. ASSUME NEW c \in Readers, NEW r \in Runs, Connect(c, r)
        PROVE  StreamInv'
    BY <1>5, ConnectKeepsStreams
  <1>6. CASE UNCHANGED vars
    <2>1. UNCHANGED <<old, obeys, pc, stream, reader>>
      BY <1>6 DEF vars, registry, run
    <2> QED
      BY <1>t, <2>1, SameStreams DEF StreamTypes
  <1> QED
    BY <1>1, <1>2, <1>3, <1>4, <1>5, <1>6 DEF Next

LEMMA StreamsInductive == Spec => []StreamInv
  BY InitStreams, StepStreams, PTL DEF Spec

LEMMA ClosedHasAll ==
    ASSUME StreamInv, NEW c \in Readers, Alone(c), handler[c] = "closed"
    PROVE  /\ Len(got[c]) = put[conn[c]]
           /\ got[c][Len(got[c])].what = "close"
           /\ got[c][Len(got[c]) - 1].what = "result"
  <1>t. StreamTypes /\ Connected(c) /\ InOrder(c)
    BY DEF StreamInv
  <1>1. PICK r \in Runs : conn[c] = r /\ r # NoRun
    BY <1>t DEF StreamTypes, Connected
  <1> DEFINE s == got[c]
             n == Len(s)
  <1>2. /\ alive[c] /\ hand[c] = NoItem /\ s # <<>> /\ s[n].what = "close"
        /\ Seen(c) = s
    BY <1>t DEF Connected, Seen
  <1>3. s \in Seq(Items) /\ n \in Nat /\ n # 0
    BY <1>t, <1>2 DEF StreamTypes
  <1>4. \A i \in 1..n : Placed(r, s[i]) /\ s[i].n = i
    BY <1>t, <1>1, <1>2 DEF InOrder
  <1>5. put[r] \in Nat /\ (pc[r] = "finished" => put[r] >= 2)
    BY <1>t DEF StreamInv, Queued, StreamTypes
  <1>6. Placed(r, s[n]) /\ s[n].n = n
    BY <1>3, <1>4
  <1>7. pc[r] = "finished" /\ n = put[r]
    BY <1>2, <1>3, <1>5, <1>6 DEF Placed, CloseAt
  <1>8. n - 1 \in 1..n
    BY <1>5, <1>7
  <1>9. Placed(r, s[n - 1]) /\ s[n - 1].n = n - 1
    BY <1>4, <1>8
  <1>10. s[n - 1].what = "result"
    BY <1>5, <1>7, <1>9 DEF Placed, CloseAt, ResultAt
  <1> QED
    BY <1>1, <1>2, <1>7, <1>10

LEMMA StreamsOrdered == StreamInv => StreamsInOrder
  <1> SUFFICES ASSUME StreamInv PROVE StreamsInOrder
    OBVIOUS
  <1>t. StreamTypes
    BY DEF StreamInv
  <1>1. ASSUME NEW c \in Readers, NEW i \in 1..Len(got[c]),
               NEW j \in 1..Len(got[c]), i < j
        PROVE  got[c][i].n < got[c][j].n
    <2>0. \A k \in 1..Len(got[c]) :
            k \in 1..Len(Seen(c)) /\ Seen(c)[k] = got[c][k]
      BY <1>t, SeenExtendsGot
    <2>1. /\ i \in 1..Len(Seen(c)) /\ Seen(c)[i] = got[c][i]
          /\ j \in 1..Len(Seen(c)) /\ Seen(c)[j] = got[c][j]
      BY <2>0
    <2>2. InOrder(c) /\ Connected(c)
      BY DEF StreamInv
    <2>3. conn[c] # NoRun
      BY <2>2 DEF Connected
    <2> QED
      BY <1>1, <2>1, <2>2, <2>3 DEF InOrder
  <1>2. ASSUME NEW c \in Readers, NEW d \in Readers, c # d,
               conn[c] = conn[d], conn[c] # NoRun,
               NEW i \in 1..Len(got[c]), NEW j \in 1..Len(got[d])
        PROVE  got[c][i].n # got[d][j].n
    <2>1. /\ i \in 1..Len(Seen(c)) /\ Seen(c)[i] = got[c][i]
          /\ j \in 1..Len(Seen(d)) /\ Seen(d)[j] = got[d][j]
      BY <1>t, SeenExtendsGot
    <2>2. Apart(c, d)
      BY <1>2 DEF StreamInv
    <2> QED
      BY <1>2, <2>1, <2>2 DEF Apart
  <1> QED
    BY <1>1, <1>2, ClosedHasAll DEF StreamsInOrder

LEMMA StreamsTyped == StreamInv => TypeOK
  BY TypesSplit DEF StreamInv, ServerInv

\* However runs, streams and hang-ups interleave, the streams of a run share
\* its items in order and without repetition, and the close of an undisturbed
\* one follows the result, with nothing missed.
THEOREM StreamsAreInOrder == Spec => []StreamsInOrder
  BY StreamsOrdered, StreamsInductive, PTL

-----------------------------------------------------------------------------
(* The ceilings *)

\* A thread between taking and releasing the lock is the one that holds it.
LockHeld == \A r \in Requests : place[r] \in InLock => holder = r

\* The record on disk is the account of its day, and no later day has charges.
DiskIsAccount ==
    /\ fileDay <= today
    /\ fileDay \in Days => file = written[fileDay]
    /\ \A d \in Days : d > fileDay => written[d] = NoCharge

\* What the thread in the lock loaded is the account of its day, and the disk
\* has not moved past that day.
ViewIsAccount ==
    \A r \in Requests :
        place[r] = "decide" =>
            /\ fileDay <= viewDay[r]
            /\ viewDay[r] <= today
            /\ view[r] = written[viewDay[r]]

Covers(big, small) ==
    /\ small.llm <= big.llm
    /\ small.gpu <= big.gpu
    /\ small.usd <= big.usd

\* Everything granted is written, a saved charge with its answer still to come
\* included.
GrantsWritten ==
    /\ \A d \in Days : Covers(written[d], granted[d])
    /\ \A r \in Requests :
          place[r] = "saved" =>
              Covers(written[viewDay[r]],
                     Charged(granted[viewDay[r]], kind[r]))

WritesWithinCaps == \A d \in Days : Within(written[d])

CapInv ==
    /\ CapTypeOK
    /\ LockHeld
    /\ DiskIsAccount
    /\ ViewIsAccount
    /\ GrantsWritten
    /\ WritesWithinCaps

-----------------------------------------------------------------------------
\* Adding a charge keeps the counters in their type.
LEMMA ChargedType ==
    ASSUME NEW st \in Charges, NEW k \in Kinds
    PROVE  Charged(st, k) \in Charges
BY SpendCapAssumption DEF Charged, Charges, Kinds

\* An affordable charge leaves the counters within every ceiling.
LEMMA AffordableStaysWithin ==
    ASSUME NEW st \in Charges, NEW k \in Kinds, Within(st), Affordable(st, k)
    PROVE  Within(Charged(st, k))
BY SpendCapAssumption DEF Charged, Charges, Kinds, Within, Affordable, Count

LEMMA CapTypeInit == CapInit => CapTypeOK
  BY SpendCapAssumption
  DEF CapInit, CapTypeOK, Days, Kinds, Charges, NoCharge, CapLabels, InLock

LEMMA CapTypeStep == CapTypeOK /\ [CapNext]_capVars => CapTypeOK'
  <2> SUFFICES ASSUME CapTypeOK, [CapNext]_capVars PROVE CapTypeOK'
    OBVIOUS
  <2> USE SpendCapAssumption, ChargedType
      DEF CapTypeOK, Days, CapLabels, InLock, disk, request, local, CapGoto
  <2>1. ASSUME NEW r \in Requests, Acquire(r) PROVE CapTypeOK'
    BY <2>1 DEF Acquire
  <2>2. ASSUME NEW r \in Requests, Load(r) PROVE CapTypeOK'
    <3>1. Current \in Charges
      BY DEF Current, NoCharge, Charges
    <3> QED BY <2>2, <3>1 DEF Load
  <2>3. ASSUME NEW r \in Requests, Refuse(r) PROVE CapTypeOK'
    BY <2>3 DEF Refuse, AfterRefusal
  <2>4. ASSUME NEW r \in Requests, Save(r) PROVE CapTypeOK'
    <3>1. Charged(view[r], kind[r]) \in Charges
      OBVIOUS
    <3>2. viewDay[r] \in Days
      BY <2>4 DEF Save
    <3>3. Charged(written[viewDay[r]], kind[r]) \in Charges
      BY <3>2
    <3> QED BY <2>4, <3>1, <3>2, <3>3 DEF Save
  <2>5. ASSUME NEW r \in Requests, SaveFails(r) PROVE CapTypeOK'
    BY <2>5 DEF SaveFails
  <2>16. ASSUME NEW r \in Requests, LoadFails(r) PROVE CapTypeOK'
    BY <2>16 DEF LoadFails
  <2>6. ASSUME NEW r \in Requests, Allow(r) PROVE CapTypeOK'
    <3>1. viewDay[r] \in Days
      BY <2>6 DEF Allow
    <3>2. Charged(granted[viewDay[r]], kind[r]) \in Charges
      BY <3>1
    <3> QED BY <2>6, <3>1, <3>2 DEF Allow, AfterGrant
  <2>7. ASSUME NEW r \in Requests, Intake(r) \/ ChooseProvider(r)
        PROVE  CapTypeOK'
    <3>1. CASE Intake(r)
      <4>1. kind' \in [Requests -> Kinds]
        BY <3>1 DEF Intake, Lane, Kinds
      <4>2. /\ place' \in [Requests -> CapLabels]
            /\ \A q \in Requests :
                  place'[q] \in {"decide", "saved"} =>
                      place[q] \in {"decide", "saved"}
        BY <3>1 DEF Intake, Lane
      <4> QED BY <3>1, <4>1, <4>2 DEF Intake, Lane
    <3>2. CASE ChooseProvider(r)
      <4>1. kind' \in [Requests -> Kinds]
        BY <3>2 DEF ChooseProvider, Lane, Kinds
      <4>2. /\ place' \in [Requests -> CapLabels]
            /\ \A q \in Requests :
                  place'[q] \in {"decide", "saved"} =>
                      place[q] \in {"decide", "saved"}
        BY <3>2 DEF ChooseProvider, Lane
      <4> QED BY <3>2, <4>1, <4>2 DEF ChooseProvider, Lane
    <3> QED BY <2>7, <3>1, <3>2
  <2>8. ASSUME NEW k \in Kinds, PaidCall(k)
        PROVE  calls' \in [Days -> Charges]
    <3>1. Charged(calls[today], k) \in Charges
      OBVIOUS
    <3> QED BY <2>8, <3>1 DEF PaidCall
  <2>9. ASSUME NEW r \in Requests, Infer(r) PROVE CapTypeOK'
    BY <2>9, <2>8 DEF Infer, Kinds
  <2>10. ASSUME NEW r \in Requests, FanOut(r) PROVE CapTypeOK'
    BY <2>10, <2>8 DEF FanOut, Kinds
  <2>11. ASSUME NEW r \in Requests, ProposeMoves(r) PROVE CapTypeOK'
    BY <2>11, <2>8 DEF ProposeMoves, Kinds
  <2>12. ASSUME NEW r \in Requests, FinishRun(r) PROVE CapTypeOK'
    BY <2>12 DEF FinishRun
  <2>13. CASE Midnight
    BY <2>13 DEF Midnight
  <2>14. CASE Crash
    BY <2>14 DEF Crash
  <2>15. CASE UNCHANGED capVars
    BY <2>15 DEF capVars
  <2> QED
    BY <2>1, <2>2, <2>3, <2>4, <2>5, <2>6, <2>7, <2>9, <2>10, <2>11, <2>12,
       <2>13, <2>14, <2>15, <2>16 DEF CapNext, CapThread

\* Spendings, places and copies keep their types, for any ceilings and days.
THEOREM CapTypeCorrect == CapSpec => []CapTypeOK
  BY CapTypeInit, CapTypeStep, PTL DEF CapSpec

-----------------------------------------------------------------------------
\* A day's record that covers another still does when both are charged.
LEMMA ChargedCovers ==
    ASSUME NEW big \in Charges, NEW small \in Charges, NEW k \in Kinds,
           Covers(big, small)
    PROVE  /\ Covers(Charged(big, k), Charged(small, k))
           /\ Covers(Charged(big, k), small)
BY SpendCapAssumption DEF Covers, Charged, Charges, Kinds

\* Outside the lock nothing the invariant speaks of changes hands.
LEMMA OutsideTheLock ==
    ASSUME CapInv, NEW r \in Requests, place[r] \notin InLock,
           UNCHANGED <<today, disk, holder, viewDay, view, granted>>,
           \A q \in Requests : q # r => place'[q] = place[q] /\ kind'[q] = kind[q],
           place'[r] \notin InLock
    PROVE  /\ LockHeld'
           /\ DiskIsAccount'
           /\ ViewIsAccount'
           /\ GrantsWritten'
           /\ WritesWithinCaps'
<1> USE DEF CapInv, InLock, disk
<1>1. LockHeld'
  BY DEF LockHeld
<1>2. DiskIsAccount' /\ WritesWithinCaps'
  BY DEF DiskIsAccount, WritesWithinCaps
<1>3. ViewIsAccount'
  BY DEF ViewIsAccount
<1>4. GrantsWritten'
  BY DEF GrantsWritten
<1> QED BY <1>1, <1>2, <1>3, <1>4

\* The account invariant is inductive.
LEMMA AccountsInit == CapInit => CapInv
  <2> SUFFICES ASSUME CapInit PROVE LockHeld /\ DiskIsAccount /\ ViewIsAccount
                                 /\ GrantsWritten /\ WritesWithinCaps /\ CapTypeOK
    BY DEF CapInv
  <2>1. CapTypeOK
    BY SpendCapAssumption
    DEF CapInit, CapTypeOK, Days, Kinds, Charges, NoCharge, CapLabels, InLock
  <2>2. LockHeld /\ DiskIsAccount /\ ViewIsAccount
    BY DEF CapInit, LockHeld, InLock, DiskIsAccount, ViewIsAccount, Days, Never
  <2>3. GrantsWritten
    BY DEF CapInit, GrantsWritten, Covers, NoCharge
  <2>4. WritesWithinCaps
    BY SpendCapAssumption
    DEF CapInit, WritesWithinCaps, Within, NoCharge, Count, Kinds
  <2> QED BY <2>1, <2>2, <2>3, <2>4

LEMMA AccountsStep == CapInv /\ [CapNext]_capVars => CapInv'
  <2> SUFFICES ASSUME CapInv, CapTypeOK', [CapNext]_capVars
               PROVE  LockHeld' /\ DiskIsAccount' /\ ViewIsAccount'
                      /\ GrantsWritten' /\ WritesWithinCaps'
    BY CapTypeStep DEF CapInv
  <2> DEFINE Goal == LockHeld' /\ DiskIsAccount' /\ ViewIsAccount'
                      /\ GrantsWritten' /\ WritesWithinCaps'
  <2>1. ASSUME NEW r \in Requests, Acquire(r) PROVE Goal
    <3> USE <2>1 DEF Acquire, CapGoto, disk, local, CapInv, CapTypeOK, InLock
    <3>1. \A q \in Requests : place[q] \notin InLock
      BY SpendCapAssumption DEF LockHeld, Free
    <3>2. LockHeld'
      BY <3>1 DEF LockHeld
    <3>3. DiskIsAccount' /\ WritesWithinCaps'
      BY DEF DiskIsAccount, WritesWithinCaps
    <3>4. ViewIsAccount' /\ GrantsWritten'
      BY <3>1 DEF ViewIsAccount, GrantsWritten
    <3> QED BY <3>2, <3>3, <3>4
  <2>2. ASSUME NEW r \in Requests, Load(r) PROVE Goal
    <3> USE <2>2 DEF Load, CapGoto, disk, CapInv, CapTypeOK, InLock
    <3>1. LockHeld'
      BY DEF LockHeld
    <3>2. DiskIsAccount' /\ WritesWithinCaps'
      BY DEF DiskIsAccount, WritesWithinCaps
    <3>3. Current = written[today]
      BY DEF Current, DiskIsAccount, Days, Never
    <3>4. ViewIsAccount'
      BY <3>3 DEF ViewIsAccount, DiskIsAccount, Days
    <3>5. GrantsWritten'
      BY DEF GrantsWritten
    <3> QED BY <3>1, <3>2, <3>4, <3>5
  <2>3. ASSUME NEW r \in Requests, Refuse(r) \/ SaveFails(r) \/ LoadFails(r)
        PROVE  Goal
    <3> USE <2>3 DEF Refuse, SaveFails, LoadFails, CapGoto, AfterRefusal, disk,
                     local, CapInv, CapTypeOK, InLock
    <3>1. \A q \in Requests : place'[q] \notin InLock
      BY DEF LockHeld
    <3>2. LockHeld' /\ ViewIsAccount'
      BY <3>1 DEF LockHeld, ViewIsAccount
    <3>3. DiskIsAccount' /\ WritesWithinCaps'
      BY DEF DiskIsAccount, WritesWithinCaps
    <3>4. GrantsWritten'
      BY <3>1 DEF GrantsWritten
    <3> QED BY <3>2, <3>3, <3>4
  <2>4. ASSUME NEW r \in Requests, Save(r) PROVE Goal
    <3> USE <2>4 DEF Save, CapGoto, local, CapInv, InLock
    <3> DEFINE d == viewDay[r]
               k == kind[r]
    <3>1. /\ d \in Days
          /\ k \in Kinds
          /\ \A e \in Days : written[e] \in Charges /\ granted[e] \in Charges
      BY DEF CapTypeOK
    <3>2. \A q \in Requests : q # r => place'[q] \notin InLock
      BY DEF LockHeld, CapTypeOK
    <3>3. view[r] = written[d] /\ fileDay <= d /\ d <= today
      BY DEF ViewIsAccount
    <3>4. /\ written'[d] = Charged(written[d], k)
          /\ \A e \in Days : e # d => written'[e] = written[e]
      BY <3>1 DEF CapTypeOK
    <3>5. LockHeld'
      BY DEF LockHeld, CapTypeOK
    <3>6. DiskIsAccount'
      BY <3>1, <3>3, <3>4 DEF DiskIsAccount, CapTypeOK, Days, Never
    <3>7. ViewIsAccount'
      BY <3>2, <3>4 DEF ViewIsAccount, CapTypeOK
    <3>8. GrantsWritten'
      <4>1. \A e \in Days : Covers(written'[e], granted[e])
        BY <3>1, <3>4, ChargedCovers DEF GrantsWritten
      <4>2. Covers(written'[d], Charged(granted[d], k))
        BY <3>1, <3>4, ChargedCovers DEF GrantsWritten
      <4> QED BY <3>2, <4>1, <4>2 DEF GrantsWritten
    <3>9. WritesWithinCaps'
      <4>1. Within(written'[d])
        BY <3>1, <3>3, <3>4, AffordableStaysWithin DEF WritesWithinCaps
      <4> QED BY <3>4, <4>1 DEF WritesWithinCaps
    <3> QED BY <3>5, <3>6, <3>7, <3>8, <3>9
  <2>5. ASSUME NEW r \in Requests, Allow(r) PROVE Goal
    <3> USE <2>5 DEF Allow, CapGoto, AfterGrant, disk, local, CapInv, InLock
    <3> DEFINE d == viewDay[r]
    <3>1. d \in Days
      BY DEF CapTypeOK
    <3>2. \A q \in Requests : place'[q] \notin InLock
      BY DEF LockHeld, CapTypeOK
    <3>3. LockHeld' /\ ViewIsAccount'
      BY <3>2 DEF LockHeld, ViewIsAccount
    <3>4. DiskIsAccount' /\ WritesWithinCaps'
      BY DEF DiskIsAccount, WritesWithinCaps
    <3>5. /\ granted'[d] = Charged(granted[d], kind[r])
          /\ \A e \in Days : e # d => granted'[e] = granted[e]
      BY <3>1 DEF CapTypeOK
    <3>6. GrantsWritten'
      BY <3>1, <3>2, <3>5 DEF GrantsWritten
    <3> QED BY <3>3, <3>4, <3>6
  <2>6. ASSUME NEW r \in Requests, Intake(r) \/ ChooseProvider(r) PROVE Goal
    <3>1. CASE Intake(r)
      BY <3>1, OutsideTheLock DEF Intake, Lane, CapGoto, InLock, CapInv, CapTypeOK
    <3>2. CASE ChooseProvider(r)
      BY <3>2, OutsideTheLock
      DEF ChooseProvider, Lane, CapGoto, InLock, CapInv, CapTypeOK
    <3> QED BY <2>6, <3>1, <3>2
  <2>7. ASSUME NEW r \in Requests, Infer(r) \/ FanOut(r) PROVE Goal
    BY <2>7, OutsideTheLock
    DEF Infer, FanOut, CapGoto, InLock, CapInv, CapTypeOK, local
  <2>8. ASSUME NEW r \in Requests, ProposeMoves(r) \/ FinishRun(r) PROVE Goal
    BY <2>8, OutsideTheLock
    DEF ProposeMoves, FinishRun, CapGoto, InLock, CapInv, CapTypeOK, local
  <2>9. CASE Midnight
    <3> USE <2>9 DEF Midnight, disk, local, CapInv
    <3>1. LockHeld' /\ WritesWithinCaps' /\ GrantsWritten'
      BY DEF LockHeld, WritesWithinCaps, GrantsWritten
    <3>2. DiskIsAccount'
      BY DEF DiskIsAccount, CapTypeOK, Days, Never
    <3>3. ViewIsAccount'
      BY DEF ViewIsAccount, CapTypeOK, Days, Never
    <3> QED BY <3>1, <3>2, <3>3
  <2>10. CASE Crash
    <3> USE <2>10 DEF Crash, disk, local, CapInv, InLock
    <3>1. \A q \in Requests : place'[q] \notin InLock
      OBVIOUS
    <3>2. LockHeld' /\ ViewIsAccount' /\ GrantsWritten'
      BY <3>1 DEF LockHeld, ViewIsAccount, GrantsWritten
    <3>3. DiskIsAccount' /\ WritesWithinCaps'
      BY DEF DiskIsAccount, WritesWithinCaps
    <3> QED BY <3>2, <3>3
  <2>11. CASE UNCHANGED capVars
    BY <2>11 DEF capVars, disk, local, CapInv, LockHeld, DiskIsAccount,
       ViewIsAccount, GrantsWritten, WritesWithinCaps
  <2> QED
    BY <2>1, <2>2, <2>3, <2>4, <2>5, <2>6, <2>7, <2>8, <2>9, <2>10, <2>11
    DEF CapNext, CapThread

LEMMA AccountsKept == CapSpec => []CapInv
  BY AccountsInit, AccountsStep, PTL DEF CapSpec

LEMMA AccountsBound == CapInv => GrantsWithinCaps /\ GrantIsDurable
<1>1. CapInv => GrantsWithinCaps
  <2> SUFFICES ASSUME CapInv, NEW d \in Days PROVE Within(granted[d])
    BY DEF GrantsWithinCaps
  <2>1. written[d] \in Charges /\ granted[d] \in Charges
    BY DEF CapInv, CapTypeOK
  <2>2. Covers(written[d], granted[d]) /\ Within(written[d])
    BY DEF CapInv, GrantsWritten, WritesWithinCaps
  <2> QED
    BY <2>1, <2>2, SpendCapAssumption
    DEF Covers, Within, Count, Charges, Kinds
<1>2. CapInv => GrantIsDurable
  BY DEF CapInv, GrantIsDurable, DiskIsAccount, GrantsWritten, Covers, Count,
     Kinds
<1> QED
  BY <1>1, <1>2

\* No day's granted charges exceed a ceiling.
THEOREM CapsHold == CapSpec => []GrantsWithinCaps
  BY AccountsBound, AccountsKept, PTL

\* What was granted stays on disk as long as its day's record does.
THEOREM GrantsDurable == CapSpec => []GrantIsDurable
  BY AccountsBound, AccountsKept, PTL

\* A thread that is refused has found no room in its day's record.
RefusedRightly ==
    \A r \in Requests :
        place[r] = "decide" /\ place'[r] = AfterRefusal(kind[r]) =>
            LET w == written[viewDay[r]]
            IN  \/ Count(w, kind[r]) >= MaxCount[kind[r]]
                \/ w.usd + Unit[kind[r]] > UsdCap

LEMMA RefusalStep == CapInv /\ [CapNext]_capVars => RefusedRightly
<1> DEFINE NoRoom(r) ==
      \/ Count(written[viewDay[r]], kind[r]) >= MaxCount[kind[r]]
      \/ written[viewDay[r]].usd + Unit[kind[r]] > UsdCap
<1>1. ASSUME CapInv, [CapNext]_capVars, NEW r \in Requests, place[r] = "decide",
             place'[r] = AfterRefusal(kind[r])
      PROVE  NoRoom(r)
  <2>1. place'[r] \in {"provider", "run"}
    BY <1>1 DEF AfterRefusal
  <2>2. Refuse(r)
    <3>1. ASSUME NEW q \in Requests, CapThread(q) PROVE Refuse(r)
      <4>1. CASE q = r
        BY <1>1, <2>1, <3>1, <4>1
        DEF CapThread, Acquire, Load, LoadFails, Save, SaveFails, Allow, Intake,
            ChooseProvider, Lane, Infer, FanOut, ProposeMoves, FinishRun,
            CapGoto, CapInv, CapTypeOK
      <4>2. CASE q # r
        <5>1. place'[r] = place[r]
          BY <1>1, <3>1, <4>2
          DEF CapThread, Acquire, Load, LoadFails, Refuse, Save, SaveFails,
              Allow, Intake, ChooseProvider, Lane, Infer, FanOut, ProposeMoves, FinishRun,
              CapGoto, CapInv, CapTypeOK
        <5> QED BY <1>1, <2>1, <5>1
      <4> QED BY <4>1, <4>2
    <3> QED
      BY <1>1, <2>1, <3>1 DEF CapNext, Midnight, Crash, capVars
  <2>3. /\ view[r] = written[viewDay[r]]
        /\ view[r] \in Charges
        /\ kind[r] \in Kinds
    BY <1>1 DEF CapInv, ViewIsAccount, CapTypeOK
  <2> QED
    BY <2>2, <2>3, SpendCapAssumption
    DEF Refuse, Affordable, Count, Charges, Kinds
<1> QED
  BY <1>1 DEF RefusedRightly

\* A refusal is always backed by charges written on its day.
THEOREM RefusalsHonest == CapSpec => RefusalIsHonest
<1>1. CapInv /\ [CapNext]_capVars =>
        [\A r \in Requests :
            place[r] = "decide" /\ place'[r] = AfterRefusal(kind[r]) =>
                LET w == written[viewDay[r]]
                IN  \/ Count(w, kind[r]) >= MaxCount[kind[r]]
                    \/ w.usd + Unit[kind[r]] > UsdCap]_capVars
  BY RefusalStep DEF RefusedRightly
<1> QED
  BY <1>1, AccountsKept, PTL DEF CapSpec, RefusalIsHonest

-----------------------------------------------------------------------------
(* The web server as a whole *)

WebInv == StreamInv /\ CapInv

\* A step of the whole is one of a part, which leaves the other as it was.
LEMMA WebInductive == WebSpec => []WebInv
  <1>1. WebInit => WebInv
    BY InitStreams, AccountsInit DEF WebInit, WebInv
  <1>2. WebInv /\ [WebNext]_<<vars, shape, capVars>> => WebInv'
    <2> SUFFICES ASSUME WebInv, [WebNext]_<<vars, shape, capVars>>
                 PROVE  WebInv'
      OBVIOUS
    <2>1. [Next]_vars /\ [CapNext]_capVars
      BY DEF WebNext, ShapeNext
    <2> QED
      BY <2>1, StepStreams, AccountsStep DEF WebInv
  <1> QED
    BY <1>1, <1>2, PTL DEF WebSpec

\* Every variable of the server, of its streams and of its ceilings keeps its
\* type, for any runs, connections, requests, ceilings and days.
THEOREM WebTypeCorrect == WebSpec => []WebTypeOK
  <1>1. WebInv => WebTypeOK
    BY StreamsTyped DEF WebInv, WebTypeOK, CapInv
  <1> QED
    BY <1>1, WebInductive, PTL

\* What is promised of the parts holds of the whole: cancels are obeyed,
\* streams are in order, and grants stay within the ceilings and on disk.
THEOREM WebPromises ==
    WebSpec => [](/\ CancelObeyed /\ FinishedIsFinal /\ StreamsInOrder
                  /\ GrantsWithinCaps /\ GrantIsDurable)
  <1>1. WebInv => /\ CancelObeyed /\ FinishedIsFinal /\ StreamsInOrder
                  /\ GrantsWithinCaps /\ GrantIsDurable
    BY StreamsOrdered, ServerAnswers, AccountsBound DEF WebInv, StreamInv
  <1> QED
    BY <1>1, WebInductive, PTL
=============================================================================
