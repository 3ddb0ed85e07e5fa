------------------------------ MODULE Ledgers ------------------------------
(***************************************************************************)
(* The four append-only files of the repository, each with a discipline of *)
(* its own and none with a lock:                                           *)
(*   "wal"        vfplatform/wal.py, WAL.append: the hash chain, copied    *)
(*                through one temporary file of a fixed name               *)
(*   "promotion"  vfplatform/cross_experiment.py, PromotionLedger.record:  *)
(*                rewritten through a temporary file of the writer's own   *)
(*   "registry"   attestra/ledger/registry.py, ExperimentRegistry.record:  *)
(*                a line appended in place                                 *)
(*   "fdr"        attestra/certification/fdr.py, FDRController.submit: one *)
(*                JSON text rewritten in place                             *)
(* A writer adds one entry; it may die between any two system calls.  The  *)
(* text of an entry is taken to be written by one call.                    *)
(***************************************************************************)
EXTENDS Integers, Sequences, FiniteSets, SequencesExt

CONSTANTS Writers,   \* processes that add an entry
          LogKinds,  \* the disciplines to look at
          NoWriter   \* not a writer

ASSUME LedgersAssumption ==
    /\ IsFiniteSet(Writers)
    /\ NoWriter \notin Writers
    /\ LogKinds \subseteq {"wal", "promotion", "registry", "fdr"}

Files == 1..(Cardinality(Writers) + 1)

\* A line is named by its writer, and in the chain by the entry it follows.
\* A Scrap is text that does not parse, an empty JSON file included.
Line == [by : Writers \cup {NoWriter}, after : Writers \cup {NoWriter}]
Scrap == [by |-> NoWriter, after |-> NoWriter]

VARIABLES
    kind,       \* the discipline
    path,       \* the file the log's name points to, or 0
    spare,      \* the file of path + ".tmp", or 0
    text,       \* the lines of each file
    unended,    \* the last line of the registry lacks its newline
    at,         \* where each writer is
    seen,       \* the lines a writer has read
    draft,      \* the lines it is about to write
    desc,       \* the file it has open for writing
    acked,      \* writers whose call returned
    mixed,      \* writers whose call ran beside another
    tears       \* deaths that left a scrap in the log itself

logFiles == <<path, spare, text, unended>>
logVars == <<kind, logFiles, at, seen, draft, desc, acked, mixed, tears>>

LogInit ==
    /\ kind \in LogKinds
    /\ path = 0
    /\ spare = 0
    /\ text = [f \in Files |-> <<>>]
    /\ unended = FALSE
    /\ at = [w \in Writers |-> "idle"]
    /\ seen = [w \in Writers |-> <<>>]
    /\ draft = [w \in Writers |-> <<>>]
    /\ desc = [w \in Writers |-> 0]
    /\ acked = {}
    /\ mixed = {}
    /\ tears = 0

Log == IF path = 0 THEN <<>> ELSE text[path]
Parses(s) == \A i \in 1..Len(s) : s[i] # Scrap
InCall == {w \in Writers : at[w] \notin {"idle", "done"}}

Enter(w, label) ==
    /\ at' = [at EXCEPT ![w] = label]
    /\ mixed' = IF InCall = {} THEN mixed ELSE mixed \cup InCall \cup {w}

Move(w, label) == at' = [at EXCEPT ![w] = label] /\ UNCHANGED mixed

-----------------------------------------------------------------------------
(* A call *)

\* What a writer takes from the log before it adds to it: a stream that does
\* not parse counts as empty, a promotion ledger keeps the lines it cannot
\* parse.
Taken == IF kind = "fdr" /\ ~Parses(Log) THEN <<>> ELSE Log

\* The chain refuses to grow when it cannot be parsed.
ReadLog(w) ==
    /\ at[w] = "idle"
    /\ kind # "registry"
    /\ Enter(w, IF kind = "wal" /\ ~Parses(Log) THEN "done" ELSE "read")
    /\ seen' = [seen EXCEPT ![w] = Taken]
    /\ UNCHANGED <<kind, logFiles, draft, desc, acked, tears>>

Free == CHOOSE f \in Files : /\ f \notin {path, spare}
                             /\ \A w \in InCall : desc[w] # f

\* Slip: the chain's temporary file is opened without being truncated.
SlipOpenSpare(w) ==
    LET f == IF spare = 0 THEN Free ELSE spare
    IN  /\ spare' = f
        /\ desc' = [desc EXCEPT ![w] = f]
        /\ UNCHANGED <<path, text>>

\* open(tmp, "w"): a file of that name, whoever made it, is truncated.
OpenSpare(w) ==
    LET f == IF spare = 0 THEN Free ELSE spare
    IN  /\ spare' = f
        /\ desc' = [desc EXCEPT ![w] = f]
        /\ text' = [text EXCEPT ![f] = <<>>]
        /\ UNCHANGED path

\* mkstemp: a file nobody else knows.
OpenOwn(w) ==
    /\ desc' = [desc EXCEPT ![w] = Free]
    /\ text' = [text EXCEPT ![Free] = <<>>]
    /\ UNCHANGED <<path, spare>>

\* open(path, "a") keeps and open(path, "w") empties what is there.
OpenLog(w) ==
    LET f == IF path = 0 THEN Free ELSE path
    IN  /\ path' = f
        /\ desc' = [desc EXCEPT ![w] = f]
        /\ text' = IF kind = "fdr" THEN [text EXCEPT ![f] = <<Scrap>>]
                   ELSE text
        /\ UNCHANGED spare

Open(w) ==
    /\ \/ kind = "registry" /\ at[w] = "idle" /\ Enter(w, "opened")
       \/ at[w] = "read" /\ Move(w, "opened")
    /\ \/ kind = "wal" /\ OpenSpare(w)
       \/ kind = "promotion" /\ OpenOwn(w)
       \/ kind \in {"registry", "fdr"} /\ OpenLog(w)
    /\ UNCHANGED <<kind, unended, seen, draft, acked, tears>>

\* An entry of the chain links to the last entry the writer has read.
Entry(w) ==
    [by |-> w,
     after |-> IF kind = "wal" /\ seen[w] # <<>> THEN Last(seen[w]).by
               ELSE NoWriter]

\* The chain copies the log as it is now; the others write what they read.
Whole(w) == Append(IF kind = "wal" THEN Log ELSE seen[w], Entry(w))

Compose(w) ==
    /\ at[w] = "opened"
    /\ Move(w, "composed")
    /\ draft' = [draft EXCEPT ![w] = Whole(w)]
    /\ UNCHANGED <<kind, logFiles, seen, desc, acked, tears>>

\* Writing s at the start of a file that holds old: a longer text leaves a
\* tail, of whole lines or not.
Over(s, old) ==
    IF old \in {<<>>, <<Scrap>>} THEN {s}
    ELSE {s, Append(s, Scrap), s \o SubSeq(old, Len(s) + 1, Len(old))}

\* Appending to a line that was left without its end spoils both.
Appended(s, w) ==
    IF unended THEN Append(Front(s), Scrap) ELSE Append(s, Entry(w))

Write(w) ==
    /\ at[w] = "composed"
    /\ \E s \in IF kind = "registry" THEN {Appended(text[desc[w]], w)}
                ELSE Over(draft[w], text[desc[w]]) :
          text' = [text EXCEPT ![desc[w]] = s]
    /\ unended' = FALSE
    /\ Move(w, "written")
    /\ UNCHANGED <<kind, path, spare, seen, draft, desc, acked, tears>>

\* os.replace of the two that write beside the log; the chain's temporary
\* file may be gone, and then the call raises.
Publish(w) ==
    /\ at[w] = "written"
    /\ Move(w, "done")
    /\ \/ /\ kind = "wal" /\ spare = 0
          /\ UNCHANGED <<path, spare, acked>>
       \/ /\ kind = "wal" /\ spare # 0
          /\ path' = spare
          /\ spare' = 0
          /\ acked' = acked \cup {w}
       \/ /\ kind = "promotion"
          /\ path' = desc[w]
          /\ acked' = acked \cup {w}
          /\ UNCHANGED spare
       \/ /\ kind \in {"registry", "fdr"}
          /\ acked' = acked \cup {w}
          /\ UNCHANGED <<path, spare>>
    /\ UNCHANGED <<kind, text, unended, seen, draft, desc, tears>>

\* What a death in the middle of a write leaves in the file.
Remains(w) ==
    IF at[w] # "composed" THEN {text[desc[w]]}
    ELSE IF kind # "registry" THEN {text[desc[w]], <<Scrap>>}
    ELSE IF unended THEN {text[desc[w]], Appended(text[desc[w]], w)}
    ELSE {text[desc[w]], Append(text[desc[w]], Scrap),
          Append(text[desc[w]], Entry(w))}

Die(w) ==
    /\ w \in InCall
    /\ Move(w, "done")
    /\ IF desc[w] = 0 THEN UNCHANGED <<text, unended, tears>>
       ELSE \E s \in Remains(w) :
              /\ text' = [text EXCEPT ![desc[w]] = s]
              /\ unended' = (unended \/ (kind = "registry" /\ s # text[desc[w]]))
              /\ tears' = IF /\ desc[w] = path
                             /\ \/ s # text[desc[w]]
                                \/ kind = "fdr" /\ ~Parses(s)
                          THEN tears + 1 ELSE tears
    /\ UNCHANGED <<kind, path, spare, seen, draft, desc, acked>>

LogStep(w) ==
    \/ ReadLog(w) \/ Open(w) \/ Compose(w) \/ Write(w) \/ Publish(w) \/ Die(w)

LogNext == \E w \in Writers : LogStep(w)

LogSpec == LogInit /\ [][LogNext]_logVars

-----------------------------------------------------------------------------
(* Properties *)

LogTypeOK ==
    /\ kind \in LogKinds
    /\ {path, spare} \subseteq Files \cup {0}
    /\ text \in [Files -> Seq(Line)]
    /\ unended \in BOOLEAN
    /\ at \in [Writers -> {"idle", "read", "opened", "composed", "written",
                           "done"}]
    /\ {seen, draft} \subseteq [Writers -> Seq(Line)]
    /\ desc \in [Writers -> Files \cup {0}]
    /\ {acked, mixed} \subseteq SUBSET Writers
    /\ tears \in Nat

\* verify_chain: every line parses and links to the one before it.
Verifies(s) ==
    \A i \in 1..Len(s) :
        /\ s[i] # Scrap
        /\ s[i].after = IF i = 1 THEN NoWriter ELSE s[i-1].by

\* The entries a reader of the log gets: two of the readers pass over lines
\* that do not parse, for the other two one such line spoils the whole.
Readable ==
    IF kind \in {"wal", "fdr"} /\ ~Parses(Log) THEN {}
    ELSE {Log[i].by : i \in 1..Len(Log)} \ {NoWriter}

\* An entry whose call has returned is read ever after, wherever other
\* writers die, except that: calls that overlap cost the promotion ledger
\* their own entries and no others, but the log its chain and any entry; a
\* torn line costs the registry one entry after it, and the stream every
\* entry; and a stream is not read while a call rewrites it.  Without an
\* overlap the chain verifies, and no line of a promotion ledger is ever torn.
AcknowledgedStay ==
    LET lost == acked \ Readable
    IN  /\ kind = "promotion" => lost \subseteq mixed /\ Parses(Log)
        /\ kind = "wal" => mixed # {} \/ (lost = {} /\ Verifies(Log))
        /\ kind = "registry" => Cardinality(lost) <= tears
        /\ kind = "fdr" => lost = {} \/ mixed \cup InCall # {} \/ tears > 0
=============================================================================
